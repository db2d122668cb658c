------------------------------ MODULE Verification ------------------------------
(***************************************************************************)
(* One submission through verifySubmission (src/src/domain/verify.ts): two *)
(* readings asked for together and blind to each other, one judgement, the *)
(* rows it is stored as (src/src/batch/persist.ts), and the replay that    *)
(* re-derives the verdict from those rows and from nothing else (src/src/  *)
(* batch/replay.ts, replay-load.ts).  Before the replay runs, a hand may   *)
(* edit the rows, the deployment may move to other reference data, and a   *)
(* redelivered message may store a second verdict (ItemWorker).            *)
(***************************************************************************)
EXTENDS Verdict

CONSTANTS
  LabelResponses, RecordResponses,   \* what a model may answer for each region
  Rereadings,                        \* bound: the responses a second invocation may get
  Declared,                          \* applications filed as data, with no record to read
  Edited,                            \* bound: the responses whose rows are edited
  Forgeries,                         \* readings of the label an edit may put in place of one
  ForgedRecords,                     \* readings of the record an edit may put in place of one
  ForgedTexts,                       \* values an edit may write of each field, read or applied for
  RuleSets,                          \* what the archive may hold in force on the filing date
  MaxEdits,                          \* bound: edits of stored rows by hand
  MaxVerdicts                        \* bound: verdicts stored for the submission

ASSUME VerificationAssumption ==
  /\ {MaxEdits, MaxVerdicts} \subseteq Nat
  /\ \A response \in Forgeries : parseExtractionResponse(response, "label") # None
  /\ None \notin {"capitals", "colon", "missing", "wording"}

(* What validateRule (policy.ts) lets into the archive. *)
ASSUME RulesAssumption ==
  \A rules \in RuleSets :
    /\ IsFiniteSet(rules)
    /\ \A r \in rules :
         /\ r.severity \in {"blocking", "advisory"} /\ None \notin r.types
         /\ r.check.kind \in {"field-present", "format-matches", "value-in-set",
                              "numeric-consistency", "statutory-text", "numeric-bound"}

VARIABLES
  phase,      \* "reading", "judged", "stored", "replayed", or "failed"
  filing,     \* what is given: the rules in force, whether the warning is legible, whether it
              \* is checked alone (POST /review), and the declared application or None
  raw,        \* the response of each region, None until it is there
  result,     \* VerifyResult
  stored,     \* the rows of the newest verdict, and the submission's oldest row of readings
  chained,    \* the digests in the newest verdict's verdict.recorded event
  kept,       \* the readings of each verdict as they were stored, oldest first (history)
  configVersion,   \* the reference data of the deployment that is running
  edits, replay

vars == <<phase, filing, raw, result, stored, chained, kept, configVersion, edits, replay>>

needsRecordExtraction == filing.declared = None

toApplicationData(extraction) ==
  [f \in FIELDS \cup {"productType"} |->
     IF f = "productType" THEN extraction.productType ELSE extraction.fields[f].raw]

(* The judgement, from the readings to the outcome. *)
Judgement(application, extraction, legible, rules) ==
  LET fields == compareFields(application, extraction)
      warning == verifyWarning(extraction.warningStatement, legible)
      assessment == assessPolicy(application, extraction, warning, rules)
  IN [application |-> application, fields |-> fields, warning |-> warning,
      findings |-> assessment.findings, selected |-> assessment.selected,
      outcome |-> aggregate(fields, warning, assessment.findings)]

(* A response of either region that breaks the contract rejects both (Promise.all).         *)
Answer(region, responses) ==
  /\ phase = "reading" /\ raw[region] = None
  /\ \E response \in IF kept = <<>> THEN responses ELSE responses \cap Rereadings :
       /\ raw' = [raw EXCEPT ![region] = response]
       /\ phase' = IF parseExtractionResponse(response, region) = None THEN "failed" ELSE phase
  /\ UNCHANGED <<filing, result, stored, chained, kept, configVersion, edits, replay>>

ReadLabel == Answer("label", LabelResponses)
ReadRecord == needsRecordExtraction /\ Answer("record", RecordResponses)

Judge ==
  /\ phase = "reading" /\ raw.label # None /\ (needsRecordExtraction => raw.record # None)
  /\ result' = Judgement(IF needsRecordExtraction
                         THEN toApplicationData(parseExtractionResponse(raw.record, "record"))
                         ELSE filing.declared,
                         parseExtractionResponse(raw.label, "label"), filing.legible, filing.rules)
  /\ phase' = "judged"
  /\ UNCHANGED <<filing, raw, stored, chained, kept, configVersion, edits, replay>>

-----------------------------------------------------------------------------
(* buildPersistPlan and persistResult. What selection used is bound only if it chose a rule; *)
(* "rules" is what the verdict's two dates say was in force.                                 *)
(* Rows of readings belong to the submission: replay takes the oldest of each region.        *)

OldestReading(region) ==
  IF kept # <<>> /\ stored.extractions[region] # None THEN stored.extractions[region]
  ELSE raw[region]

buildPersistPlan ==
  [outcome |-> result.outcome,
   fields |-> result.fields,
   segments |-> result.warning.segments,
   warningLegible |-> result.warning.legible,
   selectionInputs |-> IF result.selected = {} THEN None ELSE result.application.productType,
   rules |-> filing.rules,
   findings |-> result.findings,
   referenceDataVersion |-> configVersion,
   extractions |-> [region \in {"label", "record"} |-> OldestReading(region)]]

(* The event verdict.recorded. A digest stands for the reading it is of; a submission       *)
(* checked alone has its record's reading stored and only its label's digest chained.       *)
Digests == IF filing.single THEN [raw EXCEPT !["record"] = None] ELSE raw

Persist ==
  /\ phase = "judged" /\ phase' = "stored"
  /\ stored' = buildPersistPlan
  /\ chained' = Digests
  /\ kept' = Append(kept, raw)
  /\ UNCHANGED <<filing, raw, result, configVersion, edits, replay>>

(* A message delivered twice, both times before there was a verdict: the second invocation  *)
(* stores its own. What matters of the two is the order of their INSERTs; they are minutes  *)
(* apart, and an edit by hand comes later.                                                  *)
Redelivered ==
  /\ phase = "stored" /\ ~filing.single /\ Len(kept) < MaxVerdicts /\ edits = 0
  /\ phase' = "reading"
  /\ raw' = [region \in {"label", "record"} |-> None] /\ result' = None
  /\ UNCHANGED <<filing, stored, chained, kept, configVersion, edits, replay>>

-----------------------------------------------------------------------------
(* Time passes: the rows are edited by hand, or another version is deployed. *)

(* Any column of the rows, those the replay reads back as its input among them: expected,    *)
(* selection_inputs, warning_legible and the dates. The findings are read by nobody here.   *)
(* A version is only ever made one that was never deployed: what another statutory text     *)
(* would find is not modelled. The digests are in the chain (AuditChain).                   *)
Edit ==
  /\ phase = "stored" /\ edits < MaxEdits /\ edits' = edits + 1
  /\ \A i \in DOMAIN kept : {kept[i].label, kept[i].record} \subseteq Edited \cup {None}
  /\ \/ \E response \in Forgeries : stored' = [stored EXCEPT !.extractions.label = response]
     \/ \E response \in ForgedRecords :
          /\ stored.extractions.record # None
          /\ stored' = [stored EXCEPT !.extractions.record = response]
     \/ \E outcome \in {"CLEAR", "DISCREPANCIES_FOUND"} : stored' = [stored EXCEPT !.outcome = outcome]
     \/ \E f \in FIELDS :
          \/ \E state \in {"MATCH", "NOT_SUPPLIED"} : stored' = [stored EXCEPT !.fields[f].state = state]
          \/ \E t \in ForgedTexts[f] : \/ stored' = [stored EXCEPT !.fields[f].expected = t]
                                      \/ stored' = [stored EXCEPT !.fields[f].observed = t]
     \/ stored' = [stored EXCEPT !.segments = <<None, None, None>>]
     \/ stored' = [stored EXCEPT !.warningLegible = ~stored.warningLegible]
     \/ \E type \in FORM_PRODUCT_TYPES \cup {None} : stored' = [stored EXCEPT !.selectionInputs = type]
     \/ \E rules \in RuleSets : stored' = [stored EXCEPT !.rules = rules]
     \/ stored' = [stored EXCEPT !.findings = {}]
     \/ stored' = [stored EXCEPT !.referenceDataVersion = 0]
  /\ stored' # stored
  /\ UNCHANGED <<phase, filing, raw, result, chained, kept, configVersion, replay>>

Redeploy ==
  /\ phase = "stored" /\ configVersion = 1
  /\ configVersion' = 2
  /\ UNCHANGED <<phase, filing, raw, result, stored, chained, kept, edits, replay>>

-----------------------------------------------------------------------------
(* loadStoredVerdict and replayVerdict. *)

(* Mutant: the observed column stands for the application. *)
applicationFrom_Observed ==
  [f \in FIELDS \cup {"productType"} |->
     IF f = "productType" THEN stored.selectionInputs ELSE stored.fields[f].observed]

(* The application as the verdict saw it: the expected column, and the bound product type.  *)
applicationFrom ==
  [f \in FIELDS \cup {"productType"} |->
     IF f = "productType" THEN stored.selectionInputs ELSE stored.fields[f].expected]

(* Mutant: only the record's reading is checked against its digest. *)
checkIntegrity_RecordOnly ==
  IF chained["record"] # None => stored.extractions["record"] = chained["record"]
  THEN "verified" ELSE "altered"

checkIntegrity ==
  IF \A region \in {"label", "record"} :
       chained[region] # None => stored.extractions[region] = chained[region]
  THEN "verified" ELSE "altered"

versionDrift == stored.referenceDataVersion # configVersion

Differences(again) ==
  \/ again.outcome # stored.outcome
  \/ \E f \in FIELDS : \/ again.fields[f].state # stored.fields[f].state
                       \/ again.fields[f].observed # stored.fields[f].observed
  \/ again.warning.segments # stored.segments

(* The rules the row's two dates rebuild: those it was judged by, while the dates are those *)
(* of the verdict (PolicyArchive).                                                          *)
rulesForReplay == stored.rules

Rederived ==
  Judgement(applicationFrom, parseExtractionResponse(stored.extractions.label, "label"),
            stored.warningLegible, rulesForReplay)

replayVerdict ==
  IF checkIntegrity = "altered" THEN "record-altered"
  ELSE IF versionDrift THEN "not-comparable"
  ELSE IF Differences(Rederived) THEN "differs" ELSE "identical"

Replay ==
  /\ phase = "stored" /\ phase' = "replayed"
  /\ replay' = replayVerdict
  /\ UNCHANGED <<filing, raw, result, stored, chained, kept, configVersion, edits>>

(* GET /audit/replay: what makes the check of the newest verdicts fail.                     *)
FailsTheCheck(status) == status \in {"differs", "record-altered"}

-----------------------------------------------------------------------------
(* POST /audit/reread: each stored reading is put to the model again. Nothing is written.   *)

(* Mutant: the warning's transcription is not compared. *)
compareReadings_FieldsOnly(recorded, fresh) ==
  \A f \in FIELDS : recorded.fields[f].raw = fresh.fields[f].raw

(* Texts are compared: not how sure a reading was, nor why one is missing, nor a product    *)
(* type.                                                                                    *)
compareReadings(recorded, fresh) ==
  /\ \A f \in FIELDS : recorded.fields[f].raw = fresh.fields[f].raw
  /\ recorded.warningStatement = fresh.warningStatement

Reread(region, response) ==
  LET recorded == parseExtractionResponse(stored.extractions[region], region)
      fresh == parseExtractionResponse(response, region)
  IN IF recorded = None \/ fresh = None THEN "failed"
     ELSE IF compareReadings(recorded, fresh) THEN "identical" ELSE "different"

-----------------------------------------------------------------------------

Init ==
  /\ phase = "reading"
  /\ filing \in [rules : RuleSets, legible : BOOLEAN, single : BOOLEAN,
                 declared : Declared \cup {None}]
  /\ filing.declared # None => filing.single
  /\ raw = [region \in {"label", "record"} |-> None]
  /\ result = None /\ stored = None /\ replay = None
  /\ chained = raw /\ kept = <<>>
  /\ configVersion = 1 /\ edits = 0

Next == ReadLabel \/ ReadRecord \/ Judge \/ Persist \/ Redelivered \/ Edit \/ Redeploy \/ Replay

Spec == Init /\ [][Next]_vars

-----------------------------------------------------------------------------
(* Properties. *)

Approvable == {"CLEAR", "CLEAR_CONFIRM_FLAGGED"}

SameVolume(e, o) ==
  LET apart == AbsDiff(e.milliliters, o.milliliters)
      converted == ~e.unitAssumed /\ ~o.unitAssumed /\ e.unit # o.unit
  IN ~(apart > 50 /\ (converted => 200 * apart > Larger(e.milliliters, o.milliliters)))

SaysTheSame(f, expected, observed) ==
  CASE f = "alcoholContent" -> parseAbv(expected).value = parseAbv(observed).value
    [] f = "netContents" -> SameVolume(parseQuantity(expected), parseQuantity(observed))
    [] OTHER -> expected.letters = observed.letters

(* An outcome that asks for nothing but an approval was earned: every field the application *)
(* states is on the label and says the same (a volume to half a millilitre, or to half a    *)
(* per cent if the two state different units), the warning is legible and verbatim, clause  *)
(* by clause, and some rule was applied and none is left broken or undecided (D5, D40:      *)
(* silence is never compliance).                                                            *)
ClearMeansChecked ==
  result # None /\ result.outcome \in Approvable =>
    LET label == parseExtractionResponse(raw.label, "label")
    IN /\ \A f \in FIELDS : result.application[f] # None =>
            /\ ~label.fields[f].unreadable /\ label.fields[f].raw # None
            /\ SaysTheSame(f, result.application[f], label.fields[f].raw)
       /\ filing.legible
       /\ {"HEADER", "1", "2"} \subseteq Pieces(label.warningStatement)
       /\ result.selected # {}
       /\ \A r \in result.selected : \A v \in result.findings :
            v.ruleId = r.id => v.state \in {"SATISFIED", "NOT_APPLICABLE"}

(* The record chooses the rules and the label answers them, never crossed (findings.ts): no *)
(* other answer on the label would have chosen other rules, and no other application of the *)
(* same product type would have changed a finding.                                          *)
NeverCrossed ==
  phase = "judged" =>
    LET label == parseExtractionResponse(raw.label, "label")
        blank == [f \in FIELDS \cup {"productType"} |->
                    IF f = "productType" THEN result.application.productType ELSE None]
    IN /\ assessPolicy(blank, label, result.warning, filing.rules).findings = result.findings
       /\ \A response \in LabelResponses :
            LET other == parseExtractionResponse(response, "label")
            IN other # None =>
                 assessPolicy(result.application, other, result.warning, filing.rules).selected
                   = result.selected

(* What the worklist counts is what was found: a row that says there are problems has one,  *)
(* one that is clear has none, and one that asks for judgement has a rule to judge.         *)
CountsAgree ==
  result # None =>
    LET problems == problemCount(result.fields, result.warning, result.findings)
        judgements == judgementCount(result.findings)
    IN /\ result.outcome = "DISCREPANCIES_FOUND" => problems > 0
       /\ result.outcome = "CLEAR_CONFIRM_POLICY" => problems = 0 /\ judgements > 0
       /\ result.outcome \in Approvable => problems = 0 /\ judgements = 0
       /\ result.outcome # "INCOMPLETE" =>
            LET line == summarise(result.fields, result.warning, result.findings)
            IN line.says \in {"field", "warning", "rule"} <=> problems > 0

(* NFR-13: a verdict whose rows were left alone is re-derived from them exactly, under the  *)
(* reference data it was reached with, unless a second verdict read something else. The     *)
(* rows are enough: what they leave out (whether a record was read, the product type where  *)
(* no rule was chosen) was not needed.                                                      *)
ReplayReproduces ==
  replay # None /\ edits = 0 /\ kept[1] = kept[Len(kept)] =>
    replay = IF stored.referenceDataVersion = configVersion THEN "identical" ELSE "not-comparable"

(* What the replay takes from the rows without asking anybody else.                         *)
Inputs(row) ==
  <<[f \in FIELDS |-> row.fields[f].expected], row.warningLegible, row.selectionInputs, row.rules>>

(* What an edit of the rows can hide, and what it cannot (replay-load.ts: the replay is     *)
(* "partly circular by construction"). A reading is called altered only if it was, or if a  *)
(* second verdict has read something else, and always if it was: all but the record's       *)
(* reading of a submission checked alone. Whatever the edits, a verdict whose check passes  *)
(* shows what the label was read to say, field by field and clause by clause, and is not to *)
(* approve unless the warning was in order: that reading is in the chain. It is the verdict *)
(* that was reached, state by state, only while the replay's inputs were left alone: an     *)
(* edit of those fails the check only where a state or the outcome turns on it, and an edit *)
(* of the findings never does, for replayVerdict compares no finding.                       *)
EditsAreSeen ==
  replay # None =>
    LET regions == {"label", "record"}
        altered == {region \in regions : stored.extractions[region] # kept[1][region]}
        reread == {region \in regions : kept[1][region] # kept[Len(kept)][region]}
        unchained == IF filing.single THEN {"record"} ELSE {}
    IN /\ replay = "record-altered" => altered \cup reread # {}
       /\ altered \ (reread \cup unchained) # {} => replay = "record-altered"
       /\ ~FailsTheCheck(replay) /\ replay # "not-comparable" =>
            /\ \A f \in FIELDS : stored.fields[f].observed = result.fields[f].observed
            /\ stored.segments = result.warning.segments
            /\ stored.outcome \in Approvable => result.warning.ok
            /\ Inputs(stored) = Inputs(buildPersistPlan) =>
                 /\ stored.outcome = result.outcome
                 /\ \A f \in FIELDS : stored.fields[f].state = result.fields[f].state

(* An auditor told that the model reads the artwork as it did is told something about the   *)
(* verdict (audit/reread.ts): the same label read so never tells a verdict to approve from  *)
(* one with problems, and the same record read so is the same application, unless its       *)
(* product type was read differently, which the comparison leaves out.                      *)
RereadBearsOnTheVerdict ==
  phase = "stored" /\ edits = 0 /\ Len(kept) = 1 /\ configVersion = 1 =>
    /\ \A response \in LabelResponses :
         Reread("label", response) = "identical" =>
           LET again == Judgement(result.application, parseExtractionResponse(response, "label"),
                                  filing.legible, filing.rules)
               both == {result.outcome, again.outcome}
           IN "DISCREPANCIES_FOUND" \in both => both \cap Approvable = {}
    /\ needsRecordExtraction =>
         \A response \in RecordResponses :
           Reread("record", response) = "identical" =>
             LET again == toApplicationData(parseExtractionResponse(response, "record"))
             IN again.productType = result.application.productType => again = result.application

(* A field that could not be read never aggregates into a clear result (aggregate.ts:10).   *)
UnreadNeverClear ==
  result # None /\ needsRecordExtraction =>
    \A region \in {"label", "record"} :
      (\E f \in FIELDS : raw[region].fields[f].unreadable) =>
        result.outcome \notin {"CLEAR", "CLEAR_CONFIRM_FLAGGED", "CLEAR_CONFIRM_POLICY"}
=============================================================================
