----------------------------- MODULE DecisionRecord -----------------------------
(***************************************************************************)
(* What people do about one checked submission: deciding it (POST          *)
(* /decision, src/src/batch/decision.ts), reviewing the determination      *)
(* (POST /audit/record, src/src/audit/review.ts), and a consumer following *)
(* the history page by page (GET /events, src/src/audit/events.ts).        *)
(*                                                                         *)
(* One action is one D1 statement of a request.  Verdicts may arrive while *)
(* requests run: a redelivered message can store a second one (ItemWorker),*)
(* and nothing ever marks the first as superseded.  The history is the     *)
(* abstract log that AuditChain implements.                                *)
(***************************************************************************)
EXTENDS Integers, FiniteSets, Sequences

CONSTANTS
  Deciders, Auditors,   \* requests to POST /decision, and to POST /audit/record
  Names, Words,         \* names, decisions and conclusions a request may carry
  ComplianceAgents, Administrators,   \* the names the user register gives these roles
  Recommendations,      \* outcomes a verdict may have
  MaxVerdicts,          \* bound: verdicts stored for the submission
  Limit,                \* the consumer's page size
  MaxFaults             \* bound: calls that throw, and appends that give up

Outcomes == {"CLEAR", "CLEAR_CONFIRM_FLAGGED", "CLEAR_CONFIRM_POLICY",
             "DISCREPANCIES_FOUND", "INCOMPLETE"}

ASSUME RecordAssumption ==
  /\ Deciders \cap Auditors = {}
  /\ ComplianceAgents \subseteq Names /\ Administrators \subseteq Names
  /\ Recommendations \subseteq Outcomes
  /\ Limit \in Nat \ {0}
  /\ {MaxVerdicts, MaxFaults} \subseteq Nat

VARIABLES
  verdicts,    \* D1 verdict: the outcome of each, oldest first; a verdict is its place
  decisions,   \* D1 decision, in the order of the INSERTs
  reviews,     \* D1 audit_review
  history,     \* audit_event; the place of an event is its seq
  pc, read, body, seen,   \* each request's place, the verdict it read, what it carries
  consumer,    \* the consumer's cursor and what it has collected
  faults       \* how much of the bound is used up

stores == <<verdicts, decisions, reviews, history>>
locals == <<read, body, seen>>
vars == <<stores, pc, locals, consumer, faults>>

Requests == Deciders \cup Auditors
Steps == {"idle", "load", "decided", "insertDecision", "insertReview", "append", "recorded", "over"}
NoBody == [by |-> "", what |-> "", noted |-> FALSE]
Body == [by : Names \cup {""}, what : Words \cup {""}, noted : BOOLEAN]

(* The rows of the three tables, as far as the properties tell them apart. *)
Decision == [verdict : Nat, by : Names \cup {""}, what : Words \cup {""},
             recommended : Outcomes, noted : BOOLEAN, seen : Nat]
Review == [id : Auditors, verdict : Nat, by : Names \cup {""}, result : Words \cup {""}]
Event == [action : {"decision.recorded", "audit.recorded"}, verdict : Nat,
          by : Names \cup {""}, what : Words \cup {""}]

Go(r, step) == pc' = [pc EXCEPT ![r] = step]

(* The request ends, refused or failed; its locals are gone. *)
Ends(r) ==
  /\ Go(r, "over")
  /\ read' = [read EXCEPT ![r] = 0]
  /\ body' = [body EXCEPT ![r] = NoBody]
  /\ seen' = [seen EXCEPT ![r] = 0]

(* A call on D1: it returns, or throws with or without its effect, and the request ends. *)
Calls(r, effect, next) ==
  \/ effect /\ next /\ UNCHANGED faults
  \/ /\ faults < MaxFaults
     /\ faults' = faults + 1
     /\ effect \/ UNCHANGED stores
     /\ Ends(r)

-----------------------------------------------------------------------------
(* decision.ts and audit/review.ts: what a request may say. *)

DECISIONS == {"APPROVED", "REJECTED", "RETURNED"}
AUDIT_RESULTS == {"UPHELD", "CONCERNS", "FAILED"}

nothingBlocking(outcome) ==
  outcome \in {"CLEAR", "CLEAR_CONFIRM_FLAGGED", "CLEAR_CONFIRM_POLICY"}

(* The decision differs from what the check suggested. *)
isDisagreement(decision, outcome) ==
  IF decision = "APPROVED" THEN ~nothingBlocking(outcome) ELSE nothingBlocking(outcome)

(* Mutant: the reason for a disagreement is not asked for. *)
MayDecide_Unexplained(b, outcome) == b.by \in ComplianceAgents /\ b.what \in DECISIONS

(* A decision names a registered compliance agent, and a disagreement says why. *)
MayDecide(b, outcome) ==
  /\ b.by \in ComplianceAgents
  /\ b.what \in DECISIONS
  /\ isDisagreement(b.what, outcome) => b.noted

(* checkAudit: the agent is always the human the request names. *)
MayAudit(b) ==
  /\ b.by \in ComplianceAgents \cup Administrators
  /\ b.what \in AUDIT_RESULTS

Bodies == [by : Names, what : Words, noted : BOOLEAN]

-----------------------------------------------------------------------------
(* The worker stores a verdict. *)
Judge ==
  /\ Len(verdicts) < MaxVerdicts
  /\ \E o \in Recommendations : verdicts' = Append(verdicts, o)
  /\ UNCHANGED <<decisions, reviews, history, pc, locals, consumer, faults>>

(* loadSubmissionDetail and the SELECT of /audit/record: the newest verdict. *)
ReadVerdict(r) ==
  /\ pc[r] = "load"
  /\ Calls(r, UNCHANGED stores,
       IF verdicts = <<>> THEN Ends(r)
       ELSE /\ read' = [read EXCEPT ![r] = Len(verdicts)]
            /\ Go(r, IF r \in Deciders THEN "decided" ELSE "insertReview")
            /\ UNCHANGED <<body, seen>>)
  /\ UNCHANGED consumer

(* Mutant: only a rejection counts as a decision. *)
alreadyDecided_Rejected(verdict) ==
  \E n \in DOMAIN decisions : decisions[n].verdict = verdict /\ decisions[n].what = "REJECTED"

alreadyDecided(verdict) == \E n \in DOMAIN decisions : decisions[n].verdict = verdict

(* alreadyDecided, then what the request carries. *)
CheckDecided(r) ==
  /\ pc[r] = "decided"
  /\ Calls(r, UNCHANGED stores,
       IF alreadyDecided(read[r]) THEN Ends(r)
       ELSE \E b \in Bodies :
              IF MayDecide(b, verdicts[read[r]])
              THEN /\ body' = [body EXCEPT ![r] = b]
                   /\ seen' = [seen EXCEPT ![r] = Len(decisions)]
                   /\ Go(r, "insertDecision")
                   /\ UNCHANGED read
              ELSE Ends(r))
  /\ UNCHANGED consumer

InsertDecision(r) ==
  /\ pc[r] = "insertDecision"
  /\ Calls(r,
       /\ decisions' = Append(decisions,
            [verdict |-> read[r], by |-> body[r].by, what |-> body[r].what,
             recommended |-> verdicts[read[r]], noted |-> body[r].noted, seen |-> seen[r]])
       /\ UNCHANGED <<verdicts, reviews, history>>,
       Go(r, "append") /\ seen' = [seen EXCEPT ![r] = 0] /\ UNCHANGED <<read, body>>)
  /\ UNCHANGED consumer

(* Who asks and what they conclude are checked before anything is read. The page offers     *)
(* what somebody has decided (GET /audit/records); the request does not ask for a decision. *)
BeginAudit(r) ==
  /\ r \in Auditors /\ pc[r] = "idle"
  /\ \E b \in Bodies :
       IF MayAudit(b) THEN Go(r, "load") /\ body' = [body EXCEPT ![r] = [b EXCEPT !.noted = FALSE]]
       ELSE Go(r, "over") /\ UNCHANGED body
  /\ UNCHANGED <<stores, read, seen, consumer, faults>>

BeginDecision(r) ==
  /\ r \in Deciders /\ pc[r] = "idle"
  /\ Go(r, "load")
  /\ UNCHANGED <<stores, locals, consumer, faults>>

(* Mutant: the table is unique by verdict, not by verdict and person. *)
InsertReview_OnePerVerdict(r) ==
  /\ pc[r] = "insertReview"
  /\ Calls(r,
       /\ reviews' = IF \E v \in reviews : v.verdict = read[r] THEN reviews
                     ELSE reviews \cup {[id |-> r, verdict |-> read[r], by |-> body[r].by,
                                         result |-> body[r].what]}
       /\ UNCHANGED <<verdicts, decisions, history>>,
       Go(r, "append") /\ UNCHANGED locals)
  /\ UNCHANGED consumer

(* ON CONFLICT (verdict_id, audited_by) DO NOTHING. *)
InsertReview(r) ==
  /\ pc[r] = "insertReview"
  /\ Calls(r,
       /\ reviews' =
            IF \E v \in reviews : v.verdict = read[r] /\ v.by = body[r].by THEN reviews
            ELSE reviews \cup {[id |-> r, verdict |-> read[r], by |-> body[r].by,
                                result |-> body[r].what]}
       /\ UNCHANGED <<verdicts, decisions, history>>,
       Go(r, "append") /\ UNCHANGED locals)
  /\ UNCHANGED consumer

(* appendAudit: it appends, throws, or gives up after its attempts, which no caller looks   *)
(* at; then the request is answered.                                                        *)
AppendEvent(r) ==
  /\ pc[r] = "append"
  /\ LET event == [action |-> IF r \in Deciders THEN "decision.recorded" ELSE "audit.recorded",
                   verdict |-> read[r], by |-> body[r].by, what |-> body[r].what]
         answered == IF r \in Deciders THEN Ends(r) ELSE Go(r, "recorded") /\ UNCHANGED locals
     IN \/ Calls(r, /\ history' = Append(history, event)
                    /\ UNCHANGED <<verdicts, decisions, reviews>>,
                 answered)
        \/ /\ faults < MaxFaults
           /\ faults' = faults + 1
           /\ answered
           /\ UNCHANGED stores
  /\ UNCHANGED consumer

-----------------------------------------------------------------------------
(* GET /events, asked for the decisions: pages after a cursor, until the cursor is null. *)

(* ORDER BY seq ASC. *)
InOrder(S) ==
  CHOOSE rows \in [1..Cardinality(S) -> S] :
    \A i, j \in 1..Cardinality(S) : i < j => rows[i] < rows[j]

(* eventSql: the first Limit events after the cursor that match, in order. *)
Matching(after) ==
  InOrder({n \in DOMAIN history : n > after /\ history[n].action = "decision.recorded"})

Page(after) ==
  LET rows == Matching(after)
  IN SubSeq(rows, 1, IF Len(rows) < Limit THEN Len(rows) ELSE Limit)

(* Mutant: a page that is exactly full is taken for the last. *)
nextCursor_AtBoundary(rows) == IF Len(rows) <= Limit THEN 0 ELSE rows[Len(rows)]

(* nextCursor: 0 stands for null, which no event's seq is. A limit of 0, which              *)
(* parseEventQuery accepts, is an empty page with a null cursor: such a consumer asks for   *)
(* nothing and is told it has everything, so RecordAssumption leaves it out.                *)
nextCursor(rows) == IF Len(rows) < Limit THEN 0 ELSE rows[Len(rows)]

Poll ==
  /\ consumer.step # "over"
  /\ LET rows == Page(consumer.after) IN
       consumer' = [step |-> IF nextCursor(rows) = 0 THEN "over" ELSE "polling",
                    after |-> nextCursor(rows),
                    got |-> consumer.got \o rows]
  /\ UNCHANGED <<stores, pc, locals, faults>>

-----------------------------------------------------------------------------
Init ==
  /\ verdicts = <<>> /\ decisions = <<>> /\ reviews = {} /\ history = <<>>
  /\ pc = [r \in Requests |-> "idle"]
  /\ read = [r \in Requests |-> 0]
  /\ body = [r \in Requests |-> NoBody]
  /\ seen = [r \in Requests |-> 0]
  /\ consumer = [step |-> "polling", after |-> 0, got |-> <<>>]
  /\ faults = 0

Request(r) ==
  \/ ReadVerdict(r) \/ CheckDecided(r) \/ InsertDecision(r) \/ InsertReview(r) \/ AppendEvent(r)

Next ==
  \/ Judge \/ Poll
  \/ \E r \in Requests : BeginDecision(r) \/ BeginAudit(r) \/ Request(r)

Spec == Init /\ [][Next]_vars

-----------------------------------------------------------------------------
(* Properties. *)

(* Every row refers to a verdict by its place and carries what the schema's columns hold.   *)
TypeOK ==
  /\ verdicts \in Seq(Outcomes)
  /\ decisions \in Seq(Decision)
  /\ reviews \subseteq Review
  /\ history \in Seq(Event)
  /\ pc \in [Requests -> Steps]
  /\ read \in [Requests -> Nat]
  /\ body \in [Requests -> Body]
  /\ seen \in [Requests -> Nat]
  /\ faults \in Nat

(* What the check does achieve: a second decision of a verdict is stored only by a request  *)
(* that had looked before the first one was there.                                          *)
SecondDecisionWasBlind ==
  \A m, n \in DOMAIN decisions :
    m < n /\ decisions[m].verdict = decisions[n].verdict => decisions[n].seen < m

(* A decision stands against what its own verdict recommended, and a departure from that    *)
(* carries its reason, whatever verdict arrived while the request ran (checkDecision, and   *)
(* the recommendation read from the verdict).                                               *)
DeparturesExplained ==
  \A n \in DOMAIN decisions :
    LET d == decisions[n] IN
      /\ d.recommended = verdicts[d.verdict]
      /\ isDisagreement(d.what, verdicts[d.verdict]) => d.noted

(* The history claims no act that the tables do not hold: a chained decision was stored,    *)
(* and a chained audit has a review by that person of that verdict (the INSERTs precede the *)
(* appends, in recordDecision and in the audit route).                                      *)
ChainedActsStored ==
  \A n \in DOMAIN history :
    LET e == history[n] IN
      IF e.action = "decision.recorded"
      THEN \E m \in DOMAIN decisions :
             decisions[m].verdict = e.verdict /\ decisions[m].by = e.by
               /\ decisions[m].what = e.what
      ELSE \E v \in reviews : v.verdict = e.verdict /\ v.by = e.by

(* An audit the person was told is recorded is stored under the id in the answer with the   *)
(* conclusion they gave, unless they had concluded on that verdict before (ON CONFLICT DO   *)
(* NOTHING in the audit route).                                                             *)
AnsweredAuditStored ==
  \A r \in Auditors :
    pc[r] = "recorded" =>
      \/ \E v \in reviews : v.id = r /\ v.verdict = read[r] /\ v.result = body[r].what
      \/ \E v \in reviews : v.id # r /\ v.verdict = read[r] /\ v.by = body[r].by

(* A consumer that follows the cursors until none is left has every matching event there is *)
(* at that moment, each once and in order, although the history grew between its pages      *)
(* (nextCursor: "how a consumer silently stops at a page boundary").                        *)
ConsumerComplete ==
  [][consumer'.step = "over" /\ consumer.step # "over" => consumer'.got = Matching(0)]_vars

=============================================================================
