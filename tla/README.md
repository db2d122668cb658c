# A TLA+ model of alcohol-label-verify

These modules model alcohol-label-verify from the press of a button to the audit
of what came of it: a batch of submissions worked through by queue consumers that
may be redelivered, lost, throttled or reset, while two stores, a hash-chained
history and any number of browser pages have to keep telling the same story; the
judgement of one label against its application; what people decide about it; the
rules it was judged by; and the nightly sweep that deletes what was kept.

Paths below are relative to the repository's root. `ItemWorker!Persist` means
operator `Persist` of `ItemWorker.tla`.

## The system

A Cloudflare Worker (`src/index.ts`) serves a page and an HTTP API. Starting a
batch writes one *job* and its *submissions* to D1 (SQLite), stages the PDFs in
R2, opens the job on a Durable Object and sends one message per submission to a
work queue. The queue calls `processItem` for each message: it renders the PDF,
asks a model to read label and record, judges the reading under the rules in
force, stores a verdict, appends to an audit history, and reports to the Durable
Object, which tells every attached page. People then decide and audit, consumers
follow the history, auditors replay verdicts, deployments bring new rules.

    page --POST /batch, /batch/reset--> Worker --INSERT, UPDATE--> D1
      ^                                   |  \--send--> queue --+
      |                                   |                     |
      +--frames-- JobCoordinator <--RPC---+------ processItem <-+
                                                   |    |
              sweep --> R2 <--PDF, crop------------+    +--> D1: verdict, audit_event
                                                              ^
      /decision, /audit/*, /events, /policy/reconcile --------+

### Components

| Component | State | Operations | Correct when |
|---|---|---|---|
| **Job coordinator** `src/job-coordinator.ts` | the item ledger, the abort mark, attached sockets | `open`, `startItem`, `claimNextItem`, `deferItem`, `requeue`, `recordResult`, `recordFailure`, `abort`, `snapshot`, `fetch`, `webSocketMessage`, `webSocketClose` | a settled row is final; an aborted job keeps no row waiting; every change reaches every page |
| **Item worker and queue** `src/batch/pipeline.ts`, `src/index.ts` `queue`, `src/batch/persist.ts`, `src/batch/retry.ts`, `src/batch/backoff.ts` | `submission`, `verdict`, the messages; each invocation's locals | delivery, the whole of `processItem`, ack, retry, dead-letter | one verdict per submission; D1 settles before the ledger; nothing is lost or left half done; the queue drains |
| **Audit chain** `src/batch/audit.ts`, `src/batch/agent.ts` | `audit_event`, append-only | `appendAudit`, `readChain`, `readWholeChain`, `verifyChain` | concurrent writers never orphan a link; a reader never sees a false alarm; the answer given to the caller is true |
| **Intake, current job, reset** `src/batch/intake.ts`, `src/batch/current.ts`, `src/index.ts` | `job`, `submission` | `startBatch`, joining a running job, `abandonPartialJob`, `POST /batch/reset` | a started job can end; a dead one does not block the next; two presses converge on one job |
| **Decisions and audit review** `src/batch/decision.ts`, `src/audit/review.ts`, `src/audit/events.ts` | `decision`, `audit_review` | decide, review a determination, follow the history | one decision per verdict; a history that agrees with the tables |
| **Retention** `src/batch/retention.ts` | `submission.content_key`, `purged_at`, R2 | the sweep, nightly or by hand | staged content goes after its window, and what is marked gone is gone |
| **Policy archive** `src/policy/*.ts`, `src/domain/policy.ts`, `src/domain/users.ts` | `policy_rule`, bitemporal | validate a set, reconcile at deploy, look up as of an instant | the dates of a verdict rebuild its rules; the archive agrees with the file |
| **Verification core** `src/domain/*.ts` | none | from two readings to fields, findings, an outcome and its counts | a clear outcome was earned; record and label are never crossed |
| **Replay and re-reading** `src/batch/replay*.ts`, `src/audit/reread.ts` | none | re-derive a verdict from its rows; read the artwork again | what was left alone is reproduced, what was altered is seen |
| **Single review** `src/review/single.ts`, `src/index.ts` `/review` | a job of one | store, judge, persist in one request | what the person was shown is stored |
| **Worklist page** `src/ui/page.ts` | the `rows` map, the last progress, the socket | `handleEvent`, `connect` | shows what the ledger holds; never offers a restart early; always learns of the end |
| **Providers, normalisation** `src/providers`, `src/normalise` | none | one model call, one browser launch | classify their own faults |
| **Gate, metrics, roster, logging** | none | request checks and reports | |

### How they interact, and what is hard

* **Two stores and no transaction.** Each outcome is written to D1 and then to
  the coordinator. Any call may throw, with or without having taken effect, and
  the invocation may be lost between two calls. `GET /batch/current` reads only
  D1; the pages read only the ledger.
* **At-least-once delivery with a window.** A message can be redelivered while
  its first invocation is still reading. The settled check is read before minutes
  of model calls and relied on after them.
* **Two retry budgets.** `MAX_ATTEMPTS` in the worker and `max_retries` in the
  queue: which runs out first decides whether an item is failed, dead-lettered or
  dropped.
* **Check, then act.** The press of a button, a decision, an audit and a
  reconciliation each read, decide and write in separate statements; another
  request may do the same in between, and only some of the writes carry a
  condition.
* **Abort and reset race** the workers already past the abort check, and a start
  whose submissions are not written yet.
* **Optimistic append.** `appendAudit` reads a tail, reads its digest and inserts
  only if the tail has not moved, five times at most; what it answers when it gives
  up is looked at by no caller.
* **A clock read early.** A reconciliation and a verdict take their instants
  before they read or write, so the order of instants is not the order of commits.
* **Objects before rows.** What is staged in R2 is staged before the row that
  accounts for it, and the sweep finds objects only through rows.
* **Sockets.** Frames in flight are lost with their socket; the page reconnects
  to a ledger that has moved on.

`PROJECT.json` lists every hazard at its line, with the properties that cover it.

## The modules

    JobCoordinator ---- the Durable Object: ledger, abort mark, sockets
       |-- JobStream ---- + any caller, + the pages            MCJobStream
       |                  JobStreamProofs
       \-- ItemWorker --- + queue, workers, D1, reset          MCItemWorker
                          ItemWorkerProofs
    AuditLog ---------- what the history promises
       \-- AuditChain --- how audit.ts keeps it, and a reader  MCAuditChain
                          AuditChainProofs
    BatchIntake ------- POST /batch, POST /batch/reset         MCBatchIntake
                          BatchIntakeProofs
    DecisionRecord ---- decisions, audits, followed history    MCDecisionRecord
                          DecisionRecordProofs
    Staging ----------- who writes content, and its rows
       \-- Retention ---- the sweep                            MCRetention
                          RetentionProofs
    PolicySet --------- what a policy set must satisfy
       \-- PolicyArchive  reconciliation, rules as of a date   MCPolicyArchive
                          PolicyArchiveProofs
    Reading ----------- answers and printed texts
       \-- Verdict ------ comparison, warning, rules, outcome
              \-- Verification  persist, replay, re-read       MCVerification
                          VerificationProofs

Modules meet at named seams. `BatchIntake` ends where a message has been sent and
consumes one in a single step; `ItemWorker` begins there. `ItemWorker` treats a
reading as one abstract answer; `Verification` is what is in it. `DecisionRecord`
takes the history as the log that `AuditChain` is shown to implement.
`Verification` takes the rules to be rebuilt as they were; `PolicyArchive` shows
when that is so.

A convention throughout: one action is one call to something outside the program
(a D1 statement or batch, an R2 or coordinator call, a model call), because that
is where another request may run. A call returns; or throws having done nothing;
or throws having done it (`Calls` in `ItemWorker`, `BatchIntake`,
`DecisionRecord`, `Staging`).

### JobCoordinator

One action per method. A Durable Object runs a method without another between its
statements, and each method's UPDATE carries its own condition, so a method is one
atomic step; the frames it broadcasts are part of the step (`Broadcast`, `Settle`).
`ledger` is the `item` table (`ABSENT` is a row that does not exist), `aborted` is
`meta.aborted`, `attached` the accepted sockets and `inbox` the frames on their
way. A method that can be called in a state where its UPDATE matches nothing is
still a step and still broadcasts what the code broadcasts: `Settle` announces the
row as it now stands even when nothing changed.

### JobStream

The coordinator under *every* call order, and the pages. `Call` lets any method
be called at any time once the job is open, because in this part nothing is known
about the callers. `HandleEvent` is what the page does with one frame,
`Connect` the first load and every reconnect, `ConnectionLost` a socket that dies
with its frames. `rows` and `shown` are the page's rows and the progress it last
rendered; `shown.done` is what enables the start button. `requeue` is the one method
that changes a row and broadcasts nothing. Nothing in the repository calls it; the
history variable `unheard` keeps the rows it has touched, so that
`PageTracksLedger` claims every other transition without exception.

### ItemWorker

A job from the moment its messages have been sent. `pc` names the next call.
`Calls(w, effect, nothing, next)` is a call with its three endings; `Writes` is a
call on D1, `Tells` one on the coordinator, `Asks` a read. `Throw(w)`: inside the
`try` of `processItem` (`Guarded`) a thrown store error is put to the provider's
`classify`, which goes by the words of its message, so it may pass for any fault of the
model; outside the `try`, in the catch block included, it reaches the queue handler's own
catch (`Uncaught`).

`Readings` are the answers of the browser and the model: `read`, or a fault of one
of the kinds `classify` tells apart, where `refused` stands for a deterministic
refusal (`IntakeRejected`). `Deployments` are the configurations a delivery may
meet. `message` is the queue's view of each message: `max_concurrency` and
`max_batch_size` are 1 in `wrangler.jsonc`, so a delivery waits until no message is
held, but a message whose window closed (`Expire`) is no longer held although its
invocation runs on. `Deliver`, `Release`, `Returned`, `Crash` and `Expire` model
Cloudflare's queue and runtime as the code uses them, and are marked external.

`PressReset`, `ResetRecord` and `ResetLedger` are `POST /batch/reset`: the two
stores are settled one after the other and either call may fail.

A submission is `QUEUED` until it is decided; the schema's `RUNNING` is written by
nothing in the repository, so it is not a state of the model. `verdicts[i]` counts
the verdict rows of a submission: nothing ever writes `superseded_by`, so two rows
are two current verdicts. The audit appends a worker makes are calls that may
throw or fail to append; only `verdict.recorded` is counted (`chained`), the chain
itself being `AuditChain`'s subject.

### AuditLog and AuditChain

`AuditLog` is what `audit.ts` promises with no digest or race in it: the log only
grows, an event stands in it at most once, a caller told `true` finds its event
there, one told `false` does not, one whose call threw may find either, and a call
gives up only after others have appended at least once for each of its attempts.

`AuditChain` has the three statements of one attempt as three steps, any number of
concurrent calls, the refusal of `checkAgentMay`, calls that throw before or after
the INSERT committed, and one reader paging with `readWholeChain` while the chain
grows, then verifying. A digest is an abstract value: `ChainDigest(prev, row)`
need only return a digest, so nothing that is proved depends on SHA-256 being free
of collisions. The triggers that forbid UPDATE and DELETE on `audit_event` are why
`seq` is the place of a row in `chain`.

`AuditChain!Log` maps `chain` to its rows and the place of a call to what it has
told its caller; `KeepsTheLog` is `AuditLog`'s specification under that mapping.

### BatchIntake

Any number of presses of the button, each a request with its own `pc`; a job is
named by the press that starts it. `AskNewest` and `AskCounts` are the two
statements of `loadCurrentJob`; `Prepare` is the cap, the stamp and the reading of
the files; then `InsertJob`, `Open`, `InsertSubmissions`, `SettleRejected` per
rejected file, `Append` and `Send` per accepted one. A throw among the sends leads
to `Undo`, the three calls of `abandonPartialJob` under one `try`; everywhere else
it ends the request. `PressReset`, `ResetRecord`, `ResetLedger` are the reset
handler, on whichever job is newest when it looks. `Consume` is the consumer's
checks and writes in one step. Two history variables: `early` keeps the jobs a
reset settled before their submissions were written, `unseen` the starts a request
could not have seen when it looked.

### DecisionRecord

Requests to `POST /decision` and `POST /audit/record` about one submission, whose
verdicts may grow while they run (`Judge`), and a consumer of `GET /events`. A
decider reads the newest verdict, then whether it is decided, then is checked
(`MayDecide` is `checkDecision`), inserts, appends. An auditor is checked
(`checkAudit`) before anything is read, then inserts unless the same person has
reviewed the same verdict (`ON CONFLICT DO NOTHING`), and appends all the same; that
somebody has decided is not asked. The consumer's page size is at least 1: a limit of 0,
which `parseEventQuery` accepts, is an empty page and a null cursor, so such a consumer
asks for nothing and stops at once.
Verdicts are their places in a sequence and so are events, as the code orders both.
The column `seen` of a decision is history: how many decisions there were when its
request asked.

### Staging and Retention

`Staging` has every writer of the bucket as far as it touches an object or the row
that leads to it: a batch's PDF, row, crop and verdict; a single review's crop,
PDF, model call, row, verdict and append, in that order. `Retention` adds the
sweep: a page of candidates in any order, each one's objects, one batch of UPDATEs,
one event. `Age` is time: a job falls behind the cutoff, possibly with a message
still being worked on.

### PolicySet and PolicyArchive

`validatePolicySet` is the contract a worker refuses to start without. The archive
is a set of rows `[rule, recorded, retired]`. A reconciliation takes its date,
plans against the open rows (`planReconciliation`, per rule one of insert,
supersede, retire), commits all of it in one batch or none (`Collides` is the
primary key), then appends one event per change. A judgement takes its two dates,
then reads `ruleSetAsAt`. Reconciliations of one worker and of the next may run at
once, so each chooses its own file. History: `stale` (a plan overtaken by another
commit), `raced` (such a plan was carried out), `overtaken` (a verdict read the
archive before a commit dated no later), `lost` (an entry whose append gave up after
losing its races, which `reconcileArchive` does not look at).

### Reading, Verdict and Verification

A printed text is a record of what the parsers can tell about it (the letters
`normalizeText` keeps, the way they are printed, the numbers each expression finds,
the unit, the statement forms, the classes mentioned), so the regular expressions
are not transcribed but every decision taken on what they find is. `Reading` is the
extraction contract and the parsers; `Verdict` is `compare.ts`, `warning.ts`,
`evaluate.ts`, `findings.ts` and `aggregate.ts`; strengths count in half per cents
and volumes in hundredths of a millilitre, so that the tolerances are exact.

`Verification` is one submission: two answers, one judgement (`Judge`), the rows it is
stored as (`buildPersistPlan`), a second verdict by redelivery, edits of the rows by
hand (`Edit`: any column, those the replay reads back among them), a deployment with
other reference data, and the replay that knows only the rows. The two dates of a
verdict stand for the rules they rebuild, which is what an edit of them changes. Rows of
readings belong to the submission, so a second verdict adds rows and the replay takes
the oldest; what the chain holds is the newest verdict's digests, and only the label's
for a single review. `Reread` compares a fresh answer with the stored one and writes
nothing.

## The runs

| Run | Instance | Shows |
|---|---|---|
| `pages` | 2 items, 2 causes, 1 page, 1 lost connection, 1 resync; a call may be made with 1 frame still in flight, and add two | `SettledIsFinal`: no late, repeated or contradictory call changes a settled row. `PageTracksLedger`, `NoFalseFinish`, `FinishReachesPages`: what a page shows, when it offers to start again, and that it learns of the end |
| `any` | 2 items, 2 workers, 1 throwing call, 1 expired window, 1 reset, a refusal and a spent quota, all deployments | the order of the stores: `DurableBeforeLedger`, `CompletedIsBacked`, `ChainedVerdictsExist`, `AbortHasNoSurvivors` |
| `drains` | 2 items, 1 worker, 2 lost invocations, 1 throwing call, every fault of browser and model, deployments with and without a usable provider, `MAX_ATTEMPTS` and `MaxRetries` 2 | `OneVerdictUnlessOverlap`, `RedeliveriesSuffice`; every job finishes but for rows a lost call or invocation left waiting (`JobFinishes`), and the queue drains (`QueueDrains`) |
| `overlap` | 2 items, 2 workers, an expired window, a reset | `JobFinishes` although one message runs twice |
| `writers` | 3 appends and a refused one, 2 attempts, pages of 2, 1 throw | `ChainIntact`, `ReadingHolds`, and the refinement `KeepsTheLog` |
| `intake` | 2 presses, 2 files of which one may be unreadable, a usable and an unusable cap, 1 throw or lost request, 1 reset | a job of which anything was sent ends (`SentJobsEnd`); an aborted one keeps nothing waiting; two jobs run together only by a real overlap; whoever was told `started` or `joined` sees the job end (`AnsweredJobEnds`) |
| `records` | 2 deciders, 2 auditors, 2 names of different roles, words a decision may carry and one it may not, 2 verdicts, 1 fault, pages of 1 | `SecondDecisionWasBlind`, `DeparturesExplained`, `ChainedActsStored`, `AnsweredAuditStored`, `ConsumerComplete` |
| `sweeps` | 2 submissions of a batch, 1 alone, pages of 2, 1 object that cannot be deleted, 1 fault | `PurgedMeansGone`, `UnlistedOnlyByFailure`, `ShownReviewsJudged`, `DueIsPurged` |
| `archive` | 3 reconciliations over 5 files (a draft, its enactment, its replacement, and two the contract refuses), 1 judgement, 2 instants, 1 throw, lost request or append that gave up | `RebuiltUnlessOvertaken`, `OneWindowUnlessRaced`, `RefusedOnlyByRevert`, `ChangesAreChained`, `AgreesAfterwards` |
| `judge` | some sixty labels by a dozen records by two rule sets, legible or not, batch, single or declared; then 2 verdicts, 1 redeployment, and up to 3 edits of the rows of some of them (`Edited`) | `ClearMeansChecked`, `NeverCrossed`, `CountsAgree`, `ReplayReproduces`, `EditsAreSeen`, `RereadBearsOnTheVerdict` |

Two runs reproduce a disagreement between the code and what the repository says of
it; `PROJECT.json` quotes the lines.

| Run | Property violated | What happens |
|---|---|---|
| `unread` | `UnreadNeverClear` | a field of the *record* that the model marks unreadable keeps no value; the comparison takes it for one the application does not state, and the outcome is `CLEAR` |
| `enacted` | `EnactedByAPerson` | a draft in the archive is replaced by its approved, active body; the rule comes into force and the chain says that the deployment superseded it |

Several properties say `Unless`, `Only` or name an exception. The claim without the
exception is what a reader would expect, and it is false of the code; the exception
is as narrow as TLC let it be:

* **`OneVerdictUnlessOverlap`.** A message redelivered while its first invocation is
  still reading passes the settled check, and neither verdict supersedes the other
  (`src/docs/batch-backend-design.md:375`, "The same message twice produces one
  result"). Besides two invocations at once it takes a throwing call *and* another loss
  (the first makes the completed item `FAILED`, the second brings it back), or a
  completed item redelivered to a deployment whose provider cannot be built, which marks
  it `FAILED` *before* the settled check, and lost again.
* **`RedeliveriesSuffice`** holds while no call throws and no more invocations are
  lost than there are deliveries beyond the worker's budget. When calls keep throwing
  outside the `try`, the last attempt is acknowledged, not dead-lettered
  (`src/index.ts:2242`; `src/docs/batch-backend-design.md:363`, "B5 admits no silent
  loss").
* **`JobFinishes`** excepts, row by row, what a lost call or invocation leaves waiting,
  and only where D1 has the item decided or its attempts are used up: one throw after
  `persistResult` has committed defers the ledger row, and the redelivery finds the
  submission settled and acknowledges it without telling the ledger
  (`src/batch/pipeline.ts:184`, "so the ledger is never left mid-flight"). No property
  can cover that row: without the exception `JobFinishes` is violated.
* **`PageTracksLedger`** is about the rows a page has. A page that attaches between
  the INSERT of the job and `open()` gets an empty snapshot and no frame that adds the
  rows until each is settled.
* **`SentJobsEnd`** is about jobs of which something was sent. A throw in one of the
  two appends before the sends is outside the `try`, although the comment at
  `src/batch/intake.ts:247` counts it among what is undone: the submissions stay
  `QUEUED`, and later presses join the dead job until somebody resets it.
* **`AbortedHasNoSurvivors`, `AnsweredJobEnds`** except a reset that came before the
  submissions were written.
* **`SecondDecisionWasBlind`.** Two people may decide one verdict; no constraint
  stands behind the check.
* **`UnlistedOnlyByFailure`, `PurgedMeansGone`.** A failed request may leave content no
  row accounts for, and a worker that held the PDF may store its crop after the sweep.
* **`RefusedOnlyByRevert`.** Putting back a body the archive has closed breaks the
  primary key, and the whole reconciliation with it.
* **`ChangesAreChained`** excepts the very entry (its rule and its instant) that is still
  to be made, fell with its request, or gave up after losing its races; another
  reconciliation at the same instant excuses nothing.
* **`EditsAreSeen`.** What makes an edit visible is the chained digest of a reading, and
  what the replay derives from it. The property claims that a chained reading that was
  altered is called so, and that nothing else is; that a verdict which passes the check
  shows what the label was read to say, field by field and clause by clause, and is not to
  approve over a wrong warning; and that its outcome and field states are those that were
  reached *if* the columns the replay reads back as its input (`expected`,
  `selection_inputs`, `warning_legible`, the two dates) were left alone. More is false of
  the code, which says so itself (`src/batch/replay-load.ts:24`, "partly circular by
  construction"): an edit of one of those columns fails the check only where a state or
  the outcome turns on it, and a consistent edit of a field's `expected`, its `state` and
  the `outcome` replays as `identical` and `CLEAR`, which takes three edits and is within
  the run. The rows of `policy_finding` are compared by nothing, so an edit of those is
  never seen. The record's reading of a single review is excepted: no digest of it is
  chained.
* **`ReplayReproduces`** excepts a second verdict that read something else, which the
  replay calls altered.

Two more are in the model and in no property: a worker past the abort check stores
`COMPLETED` in D1 over a row that reset made `FAILED`, and a rate limit met by a model
call fails the item at once, because only the browser launch is wrapped in the wait
(`src/batch/pipeline.ts:518`).

### Bounds, and why they suffice

* **Items**: what one item does to another goes through the whole-job statements
  (abort, quota, reset, progress), the queue's single slot and
  `ClaimNextItem`'s order; two items show all of them.
* **Workers**: two invocations overlap only when a window has closed, and
  `MaxExpiries` bounds how often. `any` and `overlap` allow it once, which is what
  two workers can use.
* **`MAX_ATTEMPTS` and `MaxRetries`** are both 8 in the repository (`backoff.ts:31`;
  `max_retries` in `wrangler.jsonc:163`, `:276`). What matters is a first and a last
  attempt, and the difference between the two budgets (`WorkerAssumption`: the worker's is
  not the larger, as `backoff.ts` states). The runs use 2 and 2, so the difference is the
  repository's own, none: `max_retries` redeliveries are one delivery more than the worker's
  attempts, so `RedeliveriesSuffice` allows one lost invocation. `drains` loses two, so
  that the other properties are checked beyond it; larger differences are the theorem's
  (`RedeliveryEnough`).
* **`Readings`**: `drains` has every kind of fault. `any` has the two that end an
  item differently, a refusal and a spent quota; its throwing call may pass for any of
  the others.
* **`MaxFaults`, `MaxCrashes`, `MaxExpiries`, `MaxResets`, `MaxThrows`** bound how
  often the environment acts; with liveness they also make it finite. One fault is
  what each recovery in the code is written for, and it may fall on any call.
* **`MaxStarts`** bounds `attempts` of a row; two starts with a defer between them
  visit every state. **`MaxInFlight`** bounds frames not yet handled; the order of
  two frames is what matters, and a call may add two more.
* **`Presses`, `Deciders`, `Auditors`**: check-then-act goes wrong between two
  requests. **`MaxVerdicts` 2** is a verdict and one that arrives after it was read.
* **`Limit` 1 and `PURGE_BATCH` 2** (200 in the code) are the smallest pages that can
  be full, short and empty, and, for the sweep, hold one object that cannot be
  deleted and one that can.
* **`Deploys` 3**: an insertion, a change, and a change back, or two at once after one.
  **`MaxTime` 2**: what matters is whether two instants are equal or ordered.
  **`Dates` {1}**: the files hold a rule in force on that date and one that is not.
* **`LabelResponses`, `RecordResponses`**: a label that agrees, each field changed in
  every way the parsers and comparisons tell apart, some changed in two fields, each
  deviation of the warning; a record likewise. Every branch of `Verdict` is taken.
* **`MaxEdits` 3**: what an edit hides it hides by agreeing with another: an application's
  value, a field's state and the outcome together. **`Edited`**: edits are made of the rows
  of two labels (another brand; a warning not in capitals) and one record, with each value
  of `ForgedTexts` in either column of a field; a version is only ever forged to one that
  was never deployed. **`Rereadings`**: a second verdict reads the same, or differs in the
  warning or in the product type.

`any` takes workers, `records` requests of a kind and `archive` reconciliations as
interchangeable; those runs check safety only. No run with a liveness property uses
symmetry. Deadlock is checked in `pages` alone: a page may always reconnect or be sent
a snapshot, so `JobStream` cannot stop. Everywhere else a drained queue, finished
requests or a spent clock really are the end.

### Fairness

* `JobStream!Spec`: weak fairness of each page. A page handles a frame that has
  arrived and reconnects by timer after 1.5 s (`connect`). Nobody is bound to call
  the coordinator, lose a connection or ask for a resync.
* `ItemWorker!FairSpec`: weak fairness of each running invocation (the runtime
  runs an invocation it has not lost) and of delivering each message that stays
  deliverable (the queue's promise). Nothing obliges a crash, an expired window or
  a reset; a reset that is under way may die at any point. Fairness is per
  invocation and per message, not per action: a fair schedule may choose any
  answer of the browser or the model, so the launch loop ends by its own budget
  (`QueueDrains` fails without the count).
* `BatchIntake!FairSpec`: weak fairness of each request that has begun and is not
  lost, and of consuming each message that was sent. Nobody is bound to press a
  button, and a reset may stop anywhere.
* `Retention!FairSpec`: weak fairness of each sweep (the schedule fires every night,
  and a sweep that is not lost runs on) and of each writer. Time is bound to pass for
  nobody: `DueIsPurged` is about what has fallen due.

The other specifications state none and are checked for safety alone.

## What is proved

`tlapm` checks every proof, and nothing is assumed beyond the constants' assumptions,
each of which TLC also evaluates on every instance it checks. Every safety property of
every passing run, invariants and action properties alike, is a theorem for any values
of the constants; so is the refinement of the history. A component's theorems are in
the module named after it. Each invariant was checked by TLC before it was proved, and
so were the strengthenings that are not obvious.

Everywhere the argument has the same frame: an inductive invariant `IInv` of the type
invariant, of what the locals of each request, worker or sweep say about the shared
state at the step where it stands, and of the property; one lemma per action; and a
lemma that a step of one of them breaks no promise of the others, so that there is a
case per action and not one per pair.

**`ItemWorkerProofs`**, from `CoordinatorAssumption` and `WorkerAssumption` (which
state that the worker's budget is not the larger, as `backoff.ts` does), for any number
of items, workers, faults, crashes, expiries and resets:

| Theorem | States | Because |
|---|---|---|
| `TypeCorrect` | `[]TypeOK` | |
| `DurableFirst`, `Backed`, `NoSurvivors` | `[]` of `DurableBeforeLedger`, `CompletedIsBacked`, `AbortHasNoSurvivors` | `Owed`: at `record` the item has a verdict and its submission is no longer `QUEUED`, at `abort` no submission is, and so on for each step. `StoreStep` is all one call may do to the stores: submissions never return to `QUEUED` and verdicts never vanish, so what others are owed is kept (`Advance`) |
| `ChainedExist` | `[]ChainedVerdictsExist` | `Covered`: an item's events *and* the workers about to append one are no more than its verdicts, counted with `Cardinality` |
| `RedeliveryEnough` | `[]RedeliveriesSuffice` | `Supplied`: what a message has been delivered is covered by the worker's budget and the invocations lost, a message is acknowledged only when its item is decided, and with nothing thrown the budget left is at least the losses left |
| `JudgedOnlyOnce` | `[]OneVerdictUnlessOverlap` | `Once`: while no delivery expires, whoever works on an item holds its message, so an item has one worker; and once it has a verdict, what can still happen to it (`Sealed`: telling of it, finding it on redelivery, giving up after a throw, a deployment that cannot be built) ends without another, unless a further loss brings it back |
| `DeliveriesBounded` | `[]Delivered`, `[][CountsUp]_vars` | a message is delivered at most `MaxRetries + 1` times, its count only grows, and one let go never returns |
| `InvocationsGoOn` | `[]` each step of an invocation ends it, raises `Rank`, or launches again with launches left | a case per call, whatever throws |

The last two are the safety half of `QueueDrains`: nothing can keep the queue busy for
ever. That it does drain then needs only the fairness of the schedule, and stays with
TLC.

**`JobStreamProofs`**, from `CoordinatorAssumption` and `StreamAssumption`, for any
number of items, pages, calls, frames in flight, lost connections and resyncs (the bounds
of the run are constants there):

* `Final`: `SettledIsFinal`, the action property.
* `Tracked`: `PageTracksLedger`. What is inductive is not about the rows a page shows but
  about the rows it *would* show once it has handled everything in its inbox
  (`CaughtUp`): they are the ledger's as far as they go (`Tracks`). A call
  that changes the ledger appends the frame that tells of it; handling a frame leaves the caught-up view where it was
  (`HandledFirst`, `HandledConcat`).
* `Finish`: `NoFalseFinish`, by `Truthful`: no frame, rendered or on its way, calls the
  job done before it is, and a job that is done stays so (`DoneStays`).
* `TypeCorrect`.

**`AuditChainProofs`**, from `ChainAssumption`, for any number of calls, attempts,
digests and any page size:

* `TypeCorrect`, which holds the number of tries of a call within its budget.
* `Integrity`: `ChainIntact`. The strengthening (`Locals`) says a call at the INSERT
  holds the digest that stood, and still stands, at the tail it read; the chain only
  grows, so an INSERT whose tail has not moved links to the last row.
* `ReadingsHold`: `ReadingHolds`, by `Prefix`: what a reader has collected is a prefix of
  the chain, and a prefix of an intact chain verifies.
* `Implements`: `Spec => KeepsTheLog`, a refinement. `Locals` also says that the
  chain has grown by at least one row per lost race, which is what `GiveUp` asks.

**`BatchIntakeProofs`**, from `IntakeAssumption`, for any number of presses, any corpus
and any number of throws, losses and resets:

* `TypeCorrect`; `NoSurvivors`: `AbortedHasNoSurvivors`; `SentEnds`: `SentJobsEnd`. For
  each press `Local(p)`: what its place tells of its rows (`Begun`), of what it has sent
  and still has to send (`Sends`), and of a job that was aborted (`Ended`).
* `Converges`: `TwoJobsOnlyByOverlap`, on top of these by `InOrder`: of two starts no two
  are stamped alike, and the later was excused *from the moment it found no job running*:
  it could not see the other, or the other is over for good. `AskNewest` takes the newest
  row, which is why it suffices to look at one.

**`DecisionRecordProofs`**, from `RecordAssumption`, for any number of requests, people,
verdicts and faults, and any page size:

* `TypeCorrect`; `SecondWasBlind`, `Explained`, `ActsStored`: `SecondDecisionWasBlind`,
  `DeparturesExplained`, `ChainedActsStored`. What makes a row right was checked some
  statements before it was written; `Promises(r)` says what the locals of a request know
  at each step: the verdict it read exists; no decision it could have seen is of that
  verdict; what it carries was accepted against that verdict's outcome; what it is about
  to chain is stored. The tables only grow (`Grows`), and growth breaks no promise.
* `AnswersStored`: `AnsweredAuditStored`, by `Asked`: before its INSERT an audit has no
  row; after it, its own row or its person's earlier one is there (`Concluded`).
* `Complete`: `ConsumerComplete`. `Collected`: the consumer has exactly the decisions up to
  its cursor, in order. A page is the next `Limit` of those beyond the cursor; that the
  list of a set of events in order is unique, and that two such lists joined are the
  list of the union, is proved by counting how many members lie at or below one (`Rank`).

**`RetentionProofs`**, from `StagingAssumption` and `RetentionAssumption`, for any number
of submissions, sweeps and failures and any page size:

* `TypeCorrect`; `Purged`: `PurgedMeansGone`; `Listing`: `UnlistedOnlyByFailure`; `Shown`:
  `ShownReviewsJudged`. `Accounted(s)` ties where a writer stands to its row and its
  verdict, makes the row lead to the PDF while there is one, and says of a purged row
  that its PDF is gone and its window closed; `Holds(w)`, that a sweep only has such
  rows in hand, and has deleted what it is about to mark.

**`PolicyArchiveProofs`**, from `ArchiveAssumption` (no date is the absent value), for any
number of reconciliations, files, judgements and instants:

* `TypeCorrect`.
* `OneWindow`: `OneWindowUnlessRaced`, and `Agreement`: `AgreesAfterwards`, an action
  property. `PlansAreFresh`: a plan no commit has overtaken is the plan one would make of
  the archive as it stands; carried out, the open rows are then the file's rules, and
  planning again plans nothing (`LandsOnTheFile`, `NothingLeft`). That a file names each
  rule once is what `validatePolicySet` gives, and a worker starts with no other file.
* `Rebuilt`: `RebuiltUnlessOvertaken`. A batch dated later than a verdict's second date
  changes nothing `ruleSetAsAt` finds for it (`LaterBatchUnseen`).
* `RefusedByRevert`: `RefusedOnlyByRevert`. A plan made from the rows as they are
  collides with the primary key only where a closed row holds the rule it opens.
* `Chained`: `ChangesAreChained`, by `WindowsAccounted`: what a window's two ends owe the
  history is told already, or is an entry of the request that made them, still to be made
  or fallen with it, or is among those that gave up.

**`VerificationProofs`**, from `VerificationAssumption` and `RulesAssumption` (what
`validateRule` lets into the archive: known kinds of check, known severities), for any
responses of a model, any rules, any number of edits and of verdicts:

* `ClearEarned`: `ClearMeansChecked`, through comparison, warning, findings and
  aggregation: a clear outcome leaves no branch of them but the ones that compared and
  matched, a volume to half a millilitre unless units were converted. `CountsTrue`:
  `CountsAgree`. `Uncrossed`: `NeverCrossed`.
* `Reproduces`: `ReplayReproduces`; `EditsSeen`: `EditsAreSeen`. `Rows`: while nothing is
  edited the rows are those of the newest verdict, and the chain has its digests whatever is
  edited; `Earlier`: the reading the replay takes is the oldest kept. `Rederives` is that
  the replay of that reading over inputs left alone is the judgement itself.
* `RereadBears`: `RereadBearsOnTheVerdict`, by what two readings the re-read calls
  identical have in common (`SameTexts`), and that the problems of one are those of the
  other (`ProblemStays`, `ViolationStays`).

**Not provable here, and only model-checked**: the five liveness properties `JobFinishes`,
`QueueDrains`, `FinishReachesPages`, `AnsweredJobEnds` and `DueIsPurged`, since fairness
rests on `ENABLED`, which the provers do not treat. Theorems that take an operator as a
parameter cannot be instantiated either, so there is no induction by the library's
scheme; where one was needed (the fold over an inbox in `JobStream!Handled`, the newest of
any number of jobs) the proof goes by a least counterexample (`LeastNumber`), taken from
the well-foundedness of the naturals, or by a rank or a cardinality. `Handled` is a
recursive function and `DecisionRecord!InOrder` a description for that reason.

## What is not modelled

* **Text, character by character.** The regular expressions and the folding of
  `parse.ts`, `normalize.ts` and `designation.ts`; `Reading` keeps what they can find
  and everything that is decided on it. Typography and legibility are one boolean, as
  the judgement uses them.
* **Wording.** Explanations, summaries beyond their kind and count, failure causes.
* **Verdicts stored before the migrations that bind rules and digests.** `replay-load.ts`
  has branches for them; nothing writes such rows any more.
* **Image geometry, HTTP, prompts, rendering, the access gate, metrics, the roster,
  the sample's and the worklist's queries, logging**: input, output and read-only
  reports.
* **Time.** Delays (`retryDelaySeconds`, the reconnect timer) are abstracted to
  "later"; the acknowledgement window closes at any moment, and instants are compared
  and nothing else.
* **What a person saw.** `POST /decision` carries no verdict; that the person was shown
  the verdict it decides is promised by nothing in the code.
* **Roles beyond the register.** The set's own `approvedBy` is required and not checked
  against a role; the model does as the code does.
* **Malformed messages**: acknowledged without touching any state; nothing in the
  repository sends one.

## Plan

Every safety property is proved; what is left, in order:

1. Refinement: a job seen as a set of items each of which is decided once, implemented
   by `ItemWorker` where nothing overlaps; an archive seen as a function from a pair of
   dates to rules, implemented by `PolicyArchive` where nothing races.
2. The safety halves of the other liveness properties, as `DeliveriesBounded` and
   `InvocationsGoOn` are of `QueueDrains`: a start that is answered leaves its messages
   to be consumed, and a sweep deletes at least one object or ends.
3. Composition: `Consume` of `BatchIntake` replaced by `ItemWorker`'s steps for one
   item, so that a reset between two writes of a consumer meets a start as well.
4. The page's `reconcile` and its two buttons; `verifyChain` on an altered history.
