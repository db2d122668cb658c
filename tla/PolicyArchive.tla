----------------------------- MODULE PolicyArchive -----------------------------
(***************************************************************************)
(* The policy archive (src/src/policy/archive.ts, reconcile.ts, POST       *)
(* /policy/reconcile in src/src/index.ts): bitemporal rows derived from    *)
(* the reviewed file, brought into agreement with it by reconciliations    *)
(* that may run at once and against different files (during a deploy the   *)
(* previous worker may still answer), and read by verdicts that bind the   *)
(* two dates from which their rule set is to be rebuilt.                   *)
(***************************************************************************)
EXTENDS PolicySet

CONSTANTS
  Files,        \* policy sets that people may write
  Deploys,      \* reconciliations, one request each
  Judgements,   \* submissions judged
  Dates,        \* filing dates
  MaxTime,      \* bound: the last instant
  MaxFaults     \* bound: calls that throw, requests that are lost, entries given up

(* A row whose retired_at is NULL is open: NULL is no instant. *)
ASSUME ArchiveAssumption == MaxTime \in Nat /\ MaxFaults \in Nat /\ None \notin Nat

VARIABLES
  now,      \* the clock, in the resolution of a timestamp
  rows,     \* policy_rule: a set of [rule, recorded, retired], rule the whole body
  deploy,   \* each reconciliation: its step, its file, opts.now, the actions left
  events,   \* the policy events in the chain: a set of [action, agent, rule, at]
  judged,   \* each submission: its step, the two dates, the rules it was judged by
  faults,
  stale,    \* reconciliations whose plan was overtaken by another commit (history)
  raced,    \* whether such a plan was carried out (history)
  overtaken,\* submissions that read the archive before a commit dated no later (history)
  lost      \* the entries that gave up after losing their races to the chain (history)

vars == <<now, rows, deploy, events, judged, faults, stale, raced, overtaken, lost>>

Idle == [step |-> "idle", file |-> None, at |-> 0, actions |-> {}]
Unasked == [step |-> "idle", validOn |-> None, asOf |-> 0, rules |-> {}]

RulesOf(file) == {file.rules[i] : i \in DOMAIN file.rules}

(* The row a rule is stored as has the key `id@digest`, and the body is what is digested.   *)
currentRules(archive) == {row \in archive : row.retired = None}

Change(kind, closes, rule) == [kind |-> kind, closes |-> closes, rule |-> rule]

(* Mutant: a rule that is there is superseded whether it changed or not. *)
planReconciliation_Always(file, map) ==
  LET here(id) == {row \in map : row.rule.id = id}
      ids == {r.id : r \in RulesOf(file)}
  IN {Change("insert", None, r) : r \in {q \in RulesOf(file) : here(q.id) = {}}}
       \cup {Change("retire", row.rule, None) : row \in {q \in map : q.rule.id \notin ids}}
       \cup UNION {{Change("supersede", row.rule, r) : row \in here(r.id)} : r \in RulesOf(file)}

(* planReconciliation, against the row that stands for each rule in a Map built from the    *)
(* open ones: of two open rows of one rule, either.                                         *)
planReconciliation(file, map) ==
  LET here(id) == {row \in map : row.rule.id = id}
      ids == {r.id : r \in RulesOf(file)}
  IN {Change("insert", None, r) : r \in {q \in RulesOf(file) : here(q.id) = {}}}
       \cup {Change("retire", row.rule, None) : row \in {q \in map : q.rule.id \notin ids}}
       \cup UNION {{Change("supersede", row.rule, r) : row \in {q \in here(r.id) : q.rule # r}} :
                    r \in RulesOf(file)}

Maps(archive) ==
  {map \in SUBSET currentRules(archive) :
     /\ \A a, b \in map : a.rule.id = b.rule.id => a = b
     /\ \A a \in currentRules(archive) : \E b \in map : a.rule.id = b.rule.id}

Agrees(archive, file) == \A map \in Maps(archive) : planReconciliation(file, map) = {}

actionEvent(change) ==
  CASE change.kind = "retire" -> "policy.rule.retired"
    [] change.kind = "supersede" -> "policy.rule.superseded"
    [] OTHER -> IF change.rule.status = "active" THEN "policy.rule.enacted" ELSE "policy.rule.proposed"

(* agentFor: only an enactment is a person's, the rule's own approver or the set's.         *)
agentFor(change, file) ==
  IF actionEvent(change) # "policy.rule.enacted" THEN "deploy"
  ELSE IF change.rule.approval # None THEN change.rule.approval ELSE file.approvedBy

-----------------------------------------------------------------------------
(* ruleSetAsAt: the rules for a filing on validOn, as the archive understood them at asOf.  *)

(* Mutant: what is in force now, instead of what was in force then. *)
ruleSetAsAt_Now(archive, validOn, asOf) ==
  {row.rule : row \in {r \in currentRules(archive) : r.rule.status = "active"
                                                     /\ validOn \in r.rule.dates}}

ruleSetAsAt(archive, validOn, asOf) ==
  {row.rule : row \in {r \in archive : /\ r.rule.status = "active"
                                       /\ r.recorded <= asOf
                                       /\ r.retired # None => r.retired > asOf
                                       /\ validOn \in r.rule.dates}}

-----------------------------------------------------------------------------
(* A reconciliation. A call may throw, having done its work or not. *)

Move(d, step) == deploy' = [deploy EXCEPT ![d].step = step]

Throws(d) == faults < MaxFaults /\ faults' = faults + 1 /\ Move(d, "failed")

(* A worker starts only with a set its contract accepts (POLICY_SET in findings.ts).         *)
Shipped == {file \in Files : validatePolicySet(file)}

(* The request takes its date before anything else. *)
Begin(d) ==
  /\ deploy[d].step = "idle"
  /\ \E file \in Shipped :
       deploy' = [deploy EXCEPT ![d] = [Idle EXCEPT !.step = "plan", !.file = file, !.at = now]]
  /\ UNCHANGED <<now, rows, events, judged, faults, stale, raced, overtaken, lost>>

Plan(d) ==
  /\ deploy[d].step = "plan"
  /\ \/ \E map \in Maps(rows) :
          LET actions == planReconciliation(deploy[d].file, map)
          IN deploy' = [deploy EXCEPT ![d].actions = actions,
                                      ![d].step = IF actions = {} THEN "done" ELSE "commit"]
        /\ UNCHANGED faults
     \/ Throws(d)
  /\ stale' = stale \ {d}
  /\ UNCHANGED <<now, rows, events, judged, raced, overtaken, lost>>

(* Mutant: a successor is inserted and the predecessor's window stays open. *)
Applied_Unclosed(d) ==
  rows \cup {[rule |-> c.rule, recorded |-> deploy[d].at, retired |-> None] :
               c \in {a \in deploy[d].actions : a.kind # "retire"}}

(* Mutant: a rule that left the file keeps its window. *)
Applied_KeepsOrphans(d) ==
  LET at == deploy[d].at
      closing == {c \in deploy[d].actions : c.kind = "supersede"}
      opening == {c \in deploy[d].actions : c.kind # "retire"}
  IN {IF \E c \in closing : c.closes = row.rule /\ row.retired = None
      THEN [row EXCEPT !.retired = at] ELSE row : row \in rows}
       \cup {[rule |-> c.rule, recorded |-> at, retired |-> None] : c \in opening}

(* statementsFor, in one batch: every close, then every insert. *)
Applied(d) ==
  LET at == deploy[d].at
      closing == {c \in deploy[d].actions : c.kind # "insert"}
      opening == {c \in deploy[d].actions : c.kind # "retire"}
  IN {IF \E c \in closing : c.closes = row.rule /\ row.retired = None
      THEN [row EXCEPT !.retired = at] ELSE row : row \in rows}
       \cup {[rule |-> c.rule, recorded |-> at, retired |-> None] : c \in opening}

(* The primary key: a body the archive has held before cannot be inserted again. *)
Collides(d) == \E c \in deploy[d].actions, row \in rows : c.kind # "retire" /\ row.rule = c.rule

TakeEffect(d) ==
  /\ rows' = Applied(d)
  /\ stale' = stale \cup {e \in Deploys \ {d} : deploy[e].step = "commit"}
  /\ raced' = (raced \/ d \in stale)
  /\ overtaken' = overtaken \cup {v \in Judgements : judged[v].step = "judged"
                                                       /\ deploy[d].at <= judged[v].asOf}

Commit(d) ==
  /\ deploy[d].step = "commit"
  /\ \/ ~Collides(d) /\ TakeEffect(d) /\ Move(d, "append") /\ UNCHANGED faults
     \/ Collides(d) /\ Move(d, "refused") /\ UNCHANGED <<rows, stale, raced, overtaken, faults>>
     \/ ~Collides(d) /\ TakeEffect(d) /\ Throws(d)
     \/ Throws(d) /\ UNCHANGED <<rows, stale, raced, overtaken>>
  /\ UNCHANGED <<now, events, judged, lost>>

Entry(d, c, at) ==
  [action |-> actionEvent(c), agent |-> agentFor(c, deploy[d].file),
   rule |-> IF c.kind = "retire" THEN c.closes ELSE c.rule, at |-> at]

(* Mutant: the entry carries the instant of the append. *)
Told_Now(d, c) == Entry(d, c, now)

(* What is told of a change carries the date of the request. *)
Told(d, c) == Entry(d, c, deploy[d].at)

(* appendAudit, once per action: it appends, gives up after losing its races to the chain,  *)
(* which its caller does not look at, or throws.                                            *)
Announce(d) ==
  /\ deploy[d].step = "append"
  /\ \E c \in deploy[d].actions :
       LET said == events \cup {Told(d, c)}
           left == deploy[d].actions \ {c}
           goesOn == deploy' = [deploy EXCEPT ![d].actions = left,
                                              ![d].step = IF left = {} THEN "done" ELSE "append"]
       IN \/ events' = said /\ goesOn /\ UNCHANGED <<faults, lost>>
          \/ /\ faults < MaxFaults /\ faults' = faults + 1
             /\ lost' = lost \cup {Told(d, c)}
             /\ goesOn /\ UNCHANGED events
          \/ events' \in {events, said} /\ Throws(d) /\ UNCHANGED lost
  /\ UNCHANGED <<now, rows, judged, stale, raced, overtaken>>

-----------------------------------------------------------------------------
(* A submission takes both dates, then reads its rules (src/src/batch/pipeline.ts). *)

TakeDates(v) ==
  /\ judged[v].step = "idle"
  /\ \E date \in Dates :
       judged' = [judged EXCEPT ![v] = [Unasked EXCEPT !.step = "read", !.validOn = date, !.asOf = now]]
  /\ UNCHANGED <<now, rows, deploy, events, faults, stale, raced, overtaken, lost>>

ReadRules(v) ==
  /\ judged[v].step = "read"
  /\ judged' = [judged EXCEPT ![v].step = "judged",
                              ![v].rules = ruleSetAsAt(rows, judged[v].validOn, judged[v].asOf)]
  /\ UNCHANGED <<now, rows, deploy, events, faults, stale, raced, overtaken, lost>>

Tick == now < MaxTime /\ now' = now + 1
        /\ UNCHANGED <<rows, deploy, events, judged, faults, stale, raced, overtaken, lost>>

Init ==
  /\ now = 1 /\ rows = {} /\ events = {} /\ faults = 0
  /\ deploy = [d \in Deploys |-> Idle]
  /\ judged = [v \in Judgements |-> Unasked]
  /\ stale = {} /\ raced = FALSE /\ overtaken = {} /\ lost = {}

Next ==
  \/ \E d \in Deploys : Begin(d) \/ Plan(d) \/ Commit(d) \/ Announce(d)
  \/ \E v \in Judgements : TakeDates(v) \/ ReadRules(v)
  \/ Tick

Spec == Init /\ [][Next]_vars

-----------------------------------------------------------------------------
(* Properties. *)

(* NFR-13, D41, D42: the two dates a verdict binds rebuild the rules it was judged by,      *)
(* however many reconciliations have run since, unless one that had taken its date by then  *)
(* carried its rows out after the verdict had read them.                                    *)
RebuiltUnlessOvertaken ==
  \A v \in Judgements \ overtaken :
    judged[v].step = "judged" =>
      ruleSetAsAt(rows, judged[v].validOn, judged[v].asOf) = judged[v].rules

(* The archive says one thing about one rule, unless two reconciliations planned from the   *)
(* same rows and both carried their plan out.                                               *)
OneWindowUnlessRaced ==
  ~raced => \A a, b \in currentRules(rows) : a.rule.id = b.rule.id => a = b

(* While no plan has been overtaken, a reconciliation that changes the archive leaves it in *)
(* agreement with its file, so that running it again does nothing (planReconciliation:      *)
(* "what makes a redeploy free").                                                           *)
AgreesAfterwards ==
  [][\A d \in Deploys :
       (deploy[d].step = "commit" /\ deploy'[d].step = "append" /\ ~raced')
         => Agrees(rows', deploy[d].file)]_vars

(* Without a race, a reconciliation is refused only where its file puts back a rule the     *)
(* archive has closed: the key of the row is the rule and its digest.                       *)
RefusedOnlyByRevert ==
  \A d \in Deploys :
    deploy[d].step = "refused" =>
      \/ raced \/ d \in stale
      \/ \E r \in RulesOf(deploy[d].file) : \E row \in rows : row.rule = r /\ row.retired # None

(* The rules with a change at this instant that the chain tells of, that a request of that  *)
(* instant has still to tell of or fell with, or that no append could tell of.              *)
Accounted(at) ==
  {e.rule : e \in {f \in events \cup lost : f.at = at}}
    \cup UNION {{Told(d, c).rule : c \in deploy[d].actions} :
                  d \in {e \in Deploys : /\ deploy[e].at = at
                                         /\ deploy[e].step \in {"append", "failed"}}}

(* Every window opened or closed is told in the chain with its instant and its rule (one    *)
(* closed by a successor under the successor), unless that very entry is still to be made,  *)
(* fell with its request, or lost every race of its append: no other reconciliation, at the *)
(* same instant or later, hides a change (reconcileArchive commits the rows, then appends). *)
ChangesAreChained ==
  \A row \in rows :
    /\ row.rule \in Accounted(row.recorded)
    /\ row.retired # None => \E rule \in Accounted(row.retired) : rule.id = row.rule.id

(* Enacting is a decision and only a person may make one (archive.ts, the comment on        *)
(* agentFor): a rule that comes into force is told in the chain under a person's name.      *)
EnactedByAPerson ==
  \A e \in events : e.rule.status = "active" /\ e.action # "policy.rule.retired" => e.agent # "deploy"
=============================================================================
