--------------------------- MODULE VerificationProofs ---------------------------
(***************************************************************************)
(* What holds of one submission's judgement, its stored rows and their     *)
(* replay, for any responses a model may give, any rules in force, any     *)
(* number of edits and of verdicts.                                        *)
(***************************************************************************)
EXTENDS Verification, FiniteSetTheorems, TLAPS

Regions == {"label", "record"}
Given == LabelResponses \cup RecordResponses \cup {None}
Past == {"judged", "stored", "replayed"}
Held == {"stored", "replayed"}

(* What the judgement was made from. *)
Label == parseExtractionResponse(raw.label, "label")
Application ==
  IF needsRecordExtraction THEN toApplicationData(parseExtractionResponse(raw.record, "record"))
  ELSE filing.declared

Filed ==
  /\ filing \in [rules : RuleSets, legible : BOOLEAN, single : BOOLEAN,
                 declared : Declared \cup {None}]
  /\ filing.declared # None => filing.single
  /\ raw \in [Regions -> Given] /\ kept \in Seq([Regions -> Given]) /\ edits \in Nat

(* There is a result from the judgement on, and it is what these readings come to. *)
Resulted ==
  /\ phase \in Past \cup {"reading"} /\ raw.label # None => Label # None
  /\ IF phase \in Past
     THEN /\ result = Judgement(Application, Label, filing.legible, filing.rules)
          /\ raw.label # None /\ (needsRecordExtraction => raw.record # None)
     ELSE result = None

(* A second verdict comes of a message delivered twice, before there was an edit. *)
Earlier ==
  /\ kept = <<>> => edits = 0
  /\ phase \notin Held /\ kept # <<>> => edits = 0 /\ ~filing.single
  /\ kept # <<>> =>
       /\ kept[1]["label"] # None /\ (~filing.single => kept[1]["record"] # None)
       /\ edits = 0 => stored.extractions = kept[1]

(* The rows of the newest verdict, until there is an edit. *)
Rows ==
  phase \in Held =>
    /\ kept # <<>> /\ raw = kept[Len(kept)] /\ chained = Digests
    /\ edits = 0 => /\ stored.outcome = result.outcome /\ stored.fields = result.fields
                    /\ stored.segments = result.warning.segments
                    /\ Inputs(stored) = Inputs(buildPersistPlan)

Replayed == replay = IF phase = "replayed" THEN replayVerdict ELSE None

(* The inductive invariant. *)
IInv == Filed /\ Resulted /\ Earlier /\ Rows /\ Replayed

-----------------------------------------------------------------------------
(* The comparison of fields and the warning. *)

FieldStates ==
  {"NOT_SUPPLIED", "UNREADABLE", "MISSING_ON_LABEL", "MATCH", "MISMATCH", "LOW_CONFIDENCE"}

(* What is compared is kept, and every comparison ends in one of the states. *)
LEMMA FieldCompared ==
  ASSUME NEW f, NEW expected, NEW observed
  PROVE /\ compareField(f, expected, observed)
             \in [state : FieldStates, expected : {expected, None}, observed : {observed.raw, None}]
        /\ compareField(f, expected, observed).expected = expected
<1>1. CASE expected = None
  BY <1>1 DEF compareField, FieldVerdict, FieldStates
<1>2. CASE expected # None /\ observed.unreadable
  BY <1>2 DEF compareField, FieldVerdict, FieldStates
<1>3. CASE expected # None /\ ~observed.unreadable /\ observed.raw = None
  BY <1>3 DEF compareField, FieldVerdict, FieldStates
<1>4. CASE expected # None /\ ~observed.unreadable /\ observed.raw # None
  <2> DEFINE Compared == [state : {"MATCH", "MISMATCH", "LOW_CONFIDENCE", "UNREADABLE"},
                          expected : {expected}, observed : {observed.raw}]
  <2>1. compareNumeric(expected, observed.raw) \in Compared
    BY DEF compareNumeric, FieldVerdict
  <2>2. compareQuantity(expected, observed.raw) \in Compared
    BY DEF compareQuantity, FieldVerdict
  <2>3. compareTolerantText(expected, observed.raw) \in Compared
    BY DEF compareTolerantText, FieldVerdict
  <2>4. ASSUME NEW v \in Compared PROVE applyConfidence(v, observed.confidence) \in Compared
    BY DEF applyConfidence
  <2>5. PICK v \in Compared :
          compareField(f, expected, observed) = applyConfidence(v, observed.confidence)
    <3> HIDE DEF Compared
    <3>1. CASE f = "alcoholContent"
      BY <1>4, <2>1, <3>1 DEF compareField
    <3>2. CASE f = "netContents"
      BY <1>4, <2>2, <3>2 DEF compareField
    <3>3. CASE f \notin {"alcoholContent", "netContents"}
      BY <1>4, <2>3, <3>3 DEF compareField
    <3> QED BY <3>1, <3>2, <3>3
  <2>6. compareField(f, expected, observed) \in Compared
    BY <2>4, <2>5
  <2> QED BY <2>6 DEF FieldStates
<1> QED BY <1>1, <1>2, <1>3, <1>4

LEMMA FieldsCompared ==
  ASSUME NEW application, NEW extraction, NEW f \in FIELDS
  PROVE LET v == compareFields(application, extraction)[f]
        IN /\ v.state \in FieldStates /\ v.expected = application[f]
           /\ v = [state |-> v.state, expected |-> v.expected, observed |-> v.observed]
<1>1. compareFields(application, extraction)[f] = compareField(f, application[f], extraction.fields[f])
  BY DEF compareFields
<1> QED BY <1>1, FieldCompared

(* What is shown as observed is what was read, whatever it was compared with. *)
LEMMA FieldObserved ==
  ASSUME NEW f, NEW expected, NEW observed, observed.unreadable => observed.raw = None
  PROVE compareField(f, expected, observed).observed = observed.raw
<1>1. CASE expected = None \/ observed.unreadable \/ observed.raw = None
  BY <1>1 DEF compareField, FieldVerdict
<1>2. CASE expected # None /\ ~observed.unreadable /\ observed.raw # None
  <2> DEFINE Compared == [state : {"MATCH", "MISMATCH", "LOW_CONFIDENCE", "UNREADABLE"},
                          expected : {expected}, observed : {observed.raw}]
  <2>1. /\ compareNumeric(expected, observed.raw) \in Compared
        /\ compareTolerantText(expected, observed.raw) \in Compared
    BY DEF compareNumeric, compareTolerantText, FieldVerdict
  <2>2. compareQuantity(expected, observed.raw) \in Compared
    BY DEF compareQuantity, FieldVerdict
  <2>3. ASSUME NEW v \in Compared PROVE applyConfidence(v, observed.confidence).observed = observed.raw
    BY DEF applyConfidence
  <2>4. PICK v \in Compared :
          compareField(f, expected, observed) = applyConfidence(v, observed.confidence)
    <3> HIDE DEF Compared
    <3>1. CASE f = "alcoholContent"
      BY <1>2, <2>1, <3>1 DEF compareField
    <3>2. CASE f = "netContents"
      BY <1>2, <2>2, <3>2 DEF compareField
    <3>3. CASE f \notin {"alcoholContent", "netContents"}
      BY <1>2, <2>1, <3>3 DEF compareField
    <3> QED BY <3>1, <3>2, <3>3
  <2> QED BY <2>3, <2>4
<1> QED BY <1>1, <1>2

(* The judgement, part by part. *)
LEMMA JudgementParts ==
  ASSUME NEW application, NEW extraction, NEW legible, NEW rules, NEW j,
         j = Judgement(application, extraction, legible, rules)
  PROVE /\ j.application = application /\ j.fields = compareFields(application, extraction)
        /\ j.warning = verifyWarning(extraction.warningStatement, legible)
        /\ j.findings = assessPolicy(application, extraction, j.warning, rules).findings
        /\ j.selected = governedBy(rules, application.productType)
        /\ j.outcome = aggregate(j.fields, j.warning, j.findings)
BY DEF Judgement, assessPolicy

LEMMA WarningParts ==
  ASSUME NEW statement, NEW legible \in BOOLEAN
  PROVE /\ verifyWarning(statement, legible).legible = legible
        /\ verifyWarning(statement, legible).ok \in BOOLEAN
<1>1. verifyWarning(statement, legible).legible = legible
  BY DEF verifyWarning
<1>2. CASE statement = None
  BY <1>2 DEF verifyWarning
<1>3. CASE statement # None
  <2> DEFINE deviations == <<HeaderDeviation(statement), ClauseDeviation(statement, "1", "1~"),
                             ClauseDeviation(statement, "2", "2~")>>
             right == deviations = <<None, None, None>> /\ clausesInOrder(statement)
             segments == IF deviations = <<None, None, None>> /\ ~clausesInOrder(statement)
                         THEN [deviations EXCEPT ![3] = "order"] ELSE deviations
  <2>1. verifyWarning(statement, legible)
          = [legible |-> legible, present |-> TRUE, ok |-> right, segments |-> segments]
    BY <1>3, Zenon DEF verifyWarning
  <2>2. right \in BOOLEAN
    BY Zenon
  <2> HIDE DEF right, segments
  <2>3. PICK w : w = right
    OBVIOUS
  <2>4. verifyWarning(statement, legible)
          = [legible |-> legible, present |-> TRUE, ok |-> w, segments |-> segments]
    BY <2>1, <2>3, Zenon
  <2>5. verifyWarning(statement, legible).ok = w
    BY <2>4
  <2> QED BY <1>1, <2>2, <2>3, <2>5, Zenon
<1> QED BY <1>1, <1>2, <1>3

(* The words of a warning are judged the same whether or not it is legible. *)
LEMMA SameWarning ==
  ASSUME NEW statement, NEW one, NEW two
  PROVE /\ verifyWarning(statement, one).segments = verifyWarning(statement, two).segments
        /\ verifyWarning(statement, one).ok = verifyWarning(statement, two).ok
<1>1. CASE statement = None
  BY <1>1 DEF verifyWarning
<1>2. CASE statement # None
  <2>1. PICK d : d = <<HeaderDeviation(statement), ClauseDeviation(statement, "1", "1~"),
                       ClauseDeviation(statement, "2", "2~")>>
    OBVIOUS
  <2> DEFINE right == d = <<None, None, None>> /\ clausesInOrder(statement)
             segments == IF d = <<None, None, None>> /\ ~clausesInOrder(statement)
                         THEN [d EXCEPT ![3] = "order"] ELSE d
  <2>2. ASSUME NEW legible
        PROVE verifyWarning(statement, legible)
                = [legible |-> legible, present |-> TRUE, ok |-> right, segments |-> segments]
    BY <1>2, <2>1, Zenon DEF verifyWarning
  <2> HIDE DEF right, segments
  <2>3. PICK w : w = right
    OBVIOUS
  <2>4. ASSUME NEW legible
        PROVE verifyWarning(statement, legible)
                = [legible |-> legible, present |-> TRUE, ok |-> w, segments |-> segments]
    BY <2>2, <2>3, Zenon
  <2>5. /\ verifyWarning(statement, one) = [legible |-> one, present |-> TRUE, ok |-> w, segments |-> segments]
        /\ verifyWarning(statement, two) = [legible |-> two, present |-> TRUE, ok |-> w, segments |-> segments]
    BY <2>4
  <2> QED BY <2>5
<1> QED BY <1>1, <1>2

(* What the rules find hangs on the application by the rules it chooses alone. *)
LEMMA SameFindings ==
  ASSUME NEW a, NEW b, NEW extraction, NEW warning, NEW rules,
         governedBy(rules, a.productType) = governedBy(rules, b.productType)
  PROVE assessPolicy(a, extraction, warning, rules) = assessPolicy(b, extraction, warning, rules)
<1>1. contextFor(a, extraction, warning) = contextFor(b, extraction, warning)
  BY DEF contextFor
<1>2. PICK s : s = governedBy(rules, a.productType) /\ s = governedBy(rules, b.productType)
  OBVIOUS
<1>3. PICK ctx : ctx = contextFor(a, extraction, warning) /\ ctx = contextFor(b, extraction, warning)
  BY <1>1
<1> QED BY <1>2, <1>3 DEF assessPolicy

-----------------------------------------------------------------------------
LEMMA InitInv == Init => IInv
<1> SUFFICES ASSUME Init PROVE IInv
  OBVIOUS
<1>1. Filed
  BY DEF Init, Filed, Regions, Given
<1>2. Resulted /\ Earlier /\ Rows /\ Replayed
  BY DEF Init, Resulted, Earlier, Rows, Replayed, Past, Held
<1> QED BY <1>1, <1>2 DEF IInv

(* Each step in turn. *)

LEMMA AnswerStep ==
  ASSUME IInv, NEW region \in Regions, NEW responses \in SUBSET Given, Answer(region, responses)
  PROVE IInv'
<1>1. phase = "reading" /\ phase' \in {"reading", "failed"}
  BY DEF Answer
<1>2. PICK response \in Given : raw' = [raw EXCEPT ![region] = response]
  BY DEF Answer
<1>3. UNCHANGED <<filing, result, stored, chained, kept, configVersion, edits, replay>>
  BY DEF Answer
<1>4. Filed'
  BY <1>2, <1>3 DEF IInv, Filed
<1>5. Resulted'
  <2>1. result' = None /\ phase' \notin Past
    BY <1>1, <1>3 DEF IInv, Resulted, Past
  <2>2. ASSUME phase' = "reading", raw'.label # None PROVE Label' # None
    <3>1. parseExtractionResponse(raw'[region], region) # None
      BY <1>2, <2>2 DEF Answer, IInv, Filed
    <3>2. region # "label" => raw'.label = raw.label
      BY <1>2 DEF IInv, Filed, Regions
    <3> QED BY <1>1, <2>2, <3>1, <3>2 DEF IInv, Resulted, Label
  <2> QED BY <2>1, <2>2 DEF Resulted
<1>6. Earlier' /\ Rows' /\ Replayed'
  BY <1>1, <1>3 DEF IInv, Earlier, Rows, Replayed, Held
<1> QED BY <1>4, <1>5, <1>6 DEF IInv

LEMMA JudgeStep ==
  ASSUME IInv, Judge PROVE IInv'
<1>1. /\ phase = "reading" /\ phase' = "judged"
      /\ UNCHANGED <<filing, raw, stored, chained, kept, configVersion, edits, replay>>
  BY DEF Judge
<1>2. Filed'
  BY <1>1 DEF IInv, Filed
<1>3. Resulted'
  <2>1. /\ needsRecordExtraction' = needsRecordExtraction
        /\ Application' = Application /\ Label' = Label
    BY <1>1 DEF needsRecordExtraction, Application, Label
  <2>2. result' = Judgement(Application, Label, filing.legible, filing.rules)
    BY DEF Judge, Application, Label
  <2>3. raw.label # None /\ (needsRecordExtraction => raw.record # None)
    BY DEF Judge
  <2>4. Label # None
    BY <1>1, <2>3 DEF IInv, Resulted
  <2> QED BY <1>1, <2>1, <2>2, <2>3, <2>4 DEF Resulted, Past
<1>4. Earlier' /\ Rows' /\ Replayed'
  BY <1>1 DEF IInv, Earlier, Rows, Replayed, Held
<1> QED BY <1>2, <1>3, <1>4 DEF IInv

LEMMA PersistStep ==
  ASSUME IInv, Persist PROVE IInv'
<1>1. /\ phase = "judged" /\ phase' = "stored" /\ stored' = buildPersistPlan
      /\ chained' = Digests /\ kept' = Append(kept, raw)
      /\ UNCHANGED <<filing, raw, result, configVersion, edits, replay>>
  BY DEF Persist
<1>2. raw \in [Regions -> Given] /\ kept \in Seq([Regions -> Given]) /\ edits = 0
  BY <1>1 DEF IInv, Filed, Earlier, Held
<1>3. /\ kept' \in Seq([Regions -> Given]) /\ kept' # <<>> /\ kept'[Len(kept')] = raw
      /\ kept'[1] = IF kept = <<>> THEN raw ELSE kept[1]
  BY <1>1, <1>2
<1>4. Filed'
  BY <1>1, <1>3 DEF IInv, Filed
<1>5. result = Judgement(Application, Label, filing.legible, filing.rules)
      /\ raw.label # None /\ Label # None /\ (needsRecordExtraction => raw.record # None)
  BY <1>1 DEF IInv, Resulted, Past
<1>6. Resulted'
  <2>1. /\ needsRecordExtraction' = needsRecordExtraction
        /\ Application' = Application /\ Label' = Label
    BY <1>1 DEF needsRecordExtraction, Application, Label
  <2> QED BY <1>1, <1>5, <2>1 DEF Resulted, Past
<1>7. kept'[1]["label"] # None /\ (~filing.single => kept'[1]["record"] # None)
  <2>1. ~filing.single => needsRecordExtraction
    BY DEF IInv, Filed, needsRecordExtraction
  <2> QED BY <1>3, <1>5, <2>1 DEF IInv, Earlier
<1>8. \A region \in Regions : OldestReading(region) = kept'[1][region]
  <2>1. CASE kept = <<>>
    BY <1>3, <2>1 DEF OldestReading
  <2>2. CASE kept # <<>>
    <3>1. stored.extractions = kept[1] /\ ~filing.single
      BY <1>1, <1>2, <2>2 DEF IInv, Earlier, Held
    <3>2. \A region \in Regions : kept[1][region] # None
      BY <2>2, <3>1 DEF IInv, Earlier, Regions
    <3> QED BY <1>3, <2>2, <3>1, <3>2 DEF OldestReading
  <2> QED BY <2>1, <2>2
<1>9. stored'.extractions = kept'[1]
  <2>1. stored'.extractions = [region \in Regions |-> OldestReading(region)]
    BY <1>1 DEF buildPersistPlan, Regions
  <2>2. kept'[1] \in [Regions -> Given]
    BY <1>2, <1>3
  <2> QED BY <1>8, <2>1, <2>2
<1>10. Earlier'
  BY <1>1, <1>2, <1>3, <1>7, <1>9 DEF Earlier, Held
<1>11. Rows'
  <2>1. Digests' = Digests
    BY <1>1 DEF Digests
  <2>2. /\ stored'.outcome = result.outcome /\ stored'.fields = result.fields
        /\ stored'.segments = result.warning.segments
    BY <1>1 DEF buildPersistPlan
  <2>3. Inputs(stored)' = Inputs(buildPersistPlan)'
    BY <1>1 DEF Inputs, buildPersistPlan
  <2> QED BY <1>1, <1>3, <2>1, <2>2, <2>3 DEF Rows
<1>12. Replayed'
  BY <1>1 DEF IInv, Replayed
<1> QED BY <1>4, <1>6, <1>10, <1>11, <1>12 DEF IInv
(* An edit leaves everything but the rows alone. *)
LEMMA EditStep ==
  ASSUME IInv, Edit PROVE IInv'
<1>1. /\ phase = "stored" /\ edits' = edits + 1
      /\ UNCHANGED <<phase, filing, raw, result, chained, kept, configVersion, replay>>
  BY DEF Edit
<1>2. edits \in Nat /\ edits' \in Nat /\ edits' # 0
  BY <1>1 DEF IInv, Filed
<1>3. Filed'
  BY <1>1, <1>2 DEF IInv, Filed
<1>4. Resulted'
  <2>1. /\ needsRecordExtraction' = needsRecordExtraction
        /\ Application' = Application /\ Label' = Label
    BY <1>1 DEF needsRecordExtraction, Application, Label
  <2> QED BY <1>1, <2>1 DEF IInv, Resulted
<1>5. kept # <<>>
  BY <1>1 DEF IInv, Rows, Held
<1>6. Earlier'
  BY <1>1, <1>2, <1>5 DEF IInv, Earlier, Held
<1>7. Rows'
  BY <1>1, <1>2, <1>5 DEF IInv, Rows, Held, Digests
<1>8. Replayed'
  BY <1>1 DEF IInv, Replayed
<1> QED BY <1>3, <1>4, <1>6, <1>7, <1>8 DEF IInv
LEMMA OtherSteps ==
  ASSUME IInv, Redelivered \/ Redeploy \/ Replay \/ UNCHANGED vars PROVE IInv'
<1>1. CASE Redelivered
  <2>1. /\ phase = "stored" /\ phase' = "reading" /\ ~filing.single /\ edits = 0
        /\ raw' = [region \in Regions |-> None] /\ result' = None
        /\ UNCHANGED <<filing, stored, chained, kept, configVersion, edits, replay>>
    BY <1>1 DEF Redelivered, Regions
  <2>2. Filed'
    BY <2>1 DEF IInv, Filed, Given
  <2>3. Resulted' /\ Rows' /\ Replayed'
    <3>1. raw'.label = None
      BY <2>1 DEF Regions
    <3> QED BY <2>1, <3>1 DEF IInv, Resulted, Rows, Replayed, Past, Held
  <2>4. Earlier'
    BY <2>1 DEF IInv, Earlier
  <2> QED BY <2>2, <2>3, <2>4 DEF IInv
<1>2. CASE Redeploy
  <2>1. /\ phase = "stored" /\ phase' = phase
        /\ UNCHANGED <<filing, raw, result, stored, chained, kept, edits, replay>>
    BY <1>2 DEF Redeploy
  <2>2. Filed'
    BY <2>1 DEF IInv, Filed
  <2>3. /\ needsRecordExtraction' = needsRecordExtraction
        /\ Application' = Application /\ Label' = Label /\ Digests' = Digests
    BY <2>1 DEF needsRecordExtraction, Application, Label, Digests
  <2>4. Resulted' /\ Earlier'
    BY <2>1, <2>3 DEF IInv, Resulted, Earlier
  <2>5. Rows'
    <3>1. Inputs(stored)' = Inputs(stored) /\ Inputs(buildPersistPlan)' = Inputs(buildPersistPlan)
      BY <2>1 DEF Inputs, buildPersistPlan
    <3> QED BY <2>1, <2>3, <3>1 DEF IInv, Rows
  <2>6. Replayed'
    BY <2>1 DEF IInv, Replayed
  <2> QED BY <2>2, <2>4, <2>5, <2>6 DEF IInv
<1>3. CASE Replay \/ UNCHANGED vars
  <2>1. /\ UNCHANGED <<filing, raw, result, stored, chained, kept, configVersion, edits>>
        /\ \/ phase = "stored" /\ phase' = "replayed" /\ replay' = replayVerdict
           \/ UNCHANGED <<phase, replay>>
    BY <1>3 DEF Replay, vars
  <2>2. Filed'
    BY <2>1 DEF IInv, Filed
  <2>3. /\ needsRecordExtraction' = needsRecordExtraction
        /\ Application' = Application /\ Label' = Label /\ Digests' = Digests
    BY <2>1 DEF needsRecordExtraction, Application, Label, Digests
  <2>4. Resulted'
    BY <2>1, <2>3 DEF IInv, Resulted, Past
  <2>5. Earlier'
    BY <2>1 DEF IInv, Earlier, Held
  <2>6. Rows'
    <3>1. Inputs(stored)' = Inputs(stored) /\ Inputs(buildPersistPlan)' = Inputs(buildPersistPlan)
      BY <2>1 DEF Inputs, buildPersistPlan
    <3> QED BY <2>1, <2>3, <3>1 DEF IInv, Rows, Held
  <2>7. replayVerdict' = replayVerdict
    BY <2>1 DEF replayVerdict, checkIntegrity, versionDrift, Differences, Rederived,
                applicationFrom, rulesForReplay
  <2>8. Replayed'
    BY <2>1, <2>7 DEF IInv, Replayed
  <2> QED BY <2>2, <2>4, <2>5, <2>6, <2>8 DEF IInv
<1> QED BY <1>1, <1>2, <1>3

LEMMA Invariance == Spec => []IInv
<1>1. ASSUME IInv, [Next]_vars PROVE IInv'
  <2>1. LabelResponses \in SUBSET Given /\ RecordResponses \in SUBSET Given
    BY DEF Given
  <2>2. CASE ReadLabel \/ ReadRecord
    BY <1>1, <2>1, <2>2, AnswerStep DEF ReadLabel, ReadRecord, Regions
  <2>3. CASE Judge \/ Persist \/ Edit
    BY <1>1, <2>3, JudgeStep, PersistStep, EditStep
  <2>4. CASE Redelivered \/ Redeploy \/ Replay \/ UNCHANGED vars
    BY <1>1, <2>4, OtherSteps
  <2> QED BY <1>1, <2>2, <2>3, <2>4 DEF Next
<1> QED BY <1>1, InitInv, PTL DEF Spec

-----------------------------------------------------------------------------
(* Deriving a verdict again from its rows. *)

(* Whatever else was edited, the label's reading alone decides what is shown of it, field   *)
(* by field and clause by clause, and an outcome to approve needs the warning in order.     *)
LEMMA LabelStands ==
  ASSUME IInv, phase \in Held, stored.extractions["label"] = raw["label"]
  PROVE /\ \A f \in FIELDS : Rederived.fields[f].observed = result.fields[f].observed
        /\ Rederived.warning.segments = result.warning.segments
        /\ Rederived.outcome \in Approvable => result.warning.ok
<1>1. /\ result.fields = compareFields(Application, Label)
      /\ result.warning = verifyWarning(Label.warningStatement, filing.legible)
  BY JudgementParts DEF IInv, Resulted, Past, Held
<1>2. PICK again : again = Judgement(applicationFrom, Label, stored.warningLegible, stored.rules)
  OBVIOUS
<1>3. Rederived = again
  BY <1>2 DEF Rederived, Label, rulesForReplay
<1>4. /\ again.fields = compareFields(applicationFrom, Label)
      /\ again.warning = verifyWarning(Label.warningStatement, stored.warningLegible)
      /\ again.outcome = aggregate(again.fields, again.warning, again.findings)
  BY <1>2, JudgementParts
<1>5. ASSUME NEW f \in FIELDS PROVE Label.fields[f].unreadable => Label.fields[f].raw = None
  <2>1. Label # None
    BY DEF IInv, Resulted, Past, Held
  <2>2. Label.fields[f] = readField(raw.label.fields[f])
    BY <2>1 DEF Label, parseExtractionResponse
  <2> QED BY <2>2 DEF readField
<1>6. ASSUME NEW f \in FIELDS, NEW application
      PROVE compareFields(application, Label)[f].observed = Label.fields[f].raw
  <2>1. compareFields(application, Label)[f] = compareField(f, application[f], Label.fields[f])
    BY DEF compareFields
  <2> QED BY <1>5, <2>1, FieldObserved
<1>7. /\ again.warning.segments = result.warning.segments
      /\ again.warning.ok = result.warning.ok
  BY <1>1, <1>4, SameWarning
<1>8. again.outcome \in Approvable => again.warning.ok
  BY <1>4 DEF aggregate, Approvable
<1> QED BY <1>1, <1>3, <1>4, <1>6, <1>7, <1>8

(* Where what it takes from the rows is as it was judged by, the judgement comes out as it  *)
(* did: the rows hold all of the application that it used.                                  *)
LEMMA Rederives ==
  ASSUME IInv, phase \in Held, stored.extractions["label"] = raw["label"],
         Inputs(stored) = Inputs(buildPersistPlan)
  PROVE /\ Rederived.fields = result.fields /\ Rederived.warning = result.warning
        /\ Rederived.outcome = result.outcome
<1>1. /\ result.application = Application
      /\ result.fields = compareFields(Application, Label)
      /\ result.warning = verifyWarning(Label.warningStatement, filing.legible)
      /\ result.findings = assessPolicy(Application, Label, result.warning, filing.rules).findings
      /\ result.selected = governedBy(filing.rules, Application.productType)
      /\ result.outcome = aggregate(result.fields, result.warning, result.findings)
  BY JudgementParts DEF IInv, Resulted, Past, Held
<1>2. /\ stored.warningLegible = filing.legible /\ stored.rules = filing.rules
      /\ stored.selectionInputs = IF result.selected = {} THEN None ELSE Application.productType
      /\ \A f \in FIELDS : stored.fields[f].expected = result.fields[f].expected
  <2>1. PICK plan : plan = buildPersistPlan
    OBVIOUS
  <2>2. /\ plan.warningLegible = result.warning.legible /\ plan.rules = filing.rules
        /\ plan.selectionInputs = IF result.selected = {} THEN None ELSE Application.productType
        /\ plan.fields = result.fields
    BY <1>1, <2>1 DEF buildPersistPlan
  <2>3. plan.warningLegible = filing.legible
    BY <1>1, <2>2, WarningParts DEF IInv, Filed
  <2>4. /\ stored.warningLegible = plan.warningLegible /\ stored.rules = plan.rules
        /\ stored.selectionInputs = plan.selectionInputs
        /\ [f \in FIELDS |-> stored.fields[f].expected] = [f \in FIELDS |-> plan.fields[f].expected]
    BY <2>1 DEF Inputs
  <2>5. ASSUME NEW f \in FIELDS PROVE stored.fields[f].expected = plan.fields[f].expected
    <3>1. [g \in FIELDS |-> stored.fields[g].expected][f] = [g \in FIELDS |-> plan.fields[g].expected][f]
      BY <2>4
    <3> QED BY <3>1
  <2> QED BY <2>2, <2>3, <2>4, <2>5
<1>3. PICK again : again = Judgement(applicationFrom, Label, filing.legible, filing.rules)
  OBVIOUS
<1>4. Rederived = again
  BY <1>2, <1>3 DEF Rederived, Label, rulesForReplay
<1>5. /\ again.fields = compareFields(applicationFrom, Label)
      /\ again.warning = verifyWarning(Label.warningStatement, filing.legible)
      /\ again.findings = assessPolicy(applicationFrom, Label, again.warning, filing.rules).findings
      /\ again.outcome = aggregate(again.fields, again.warning, again.findings)
  BY <1>3, JudgementParts
<1>6. \A f \in FIELDS : applicationFrom[f] = Application[f]
  <2>1. ASSUME NEW f \in FIELDS PROVE result.fields[f].expected = Application[f]
    <3>1. compareFields(Application, Label)[f].expected = Application[f]
      BY FieldsCompared
    <3> QED BY <1>1, <3>1
  <2> QED BY <1>2, <2>1 DEF applicationFrom, FIELDS
<1>7. again.fields = result.fields
  BY <1>1, <1>5, <1>6 DEF compareFields
<1>8. again.warning = result.warning
  BY <1>1, <1>5
<1>9. again.findings = result.findings
  <2>1. applicationFrom.productType = stored.selectionInputs
    BY DEF applicationFrom
  <2>2. governedBy(filing.rules, stored.selectionInputs) = result.selected
    <3>1. CASE result.selected # {}
      BY <1>1, <1>2, <3>1
    <3>2. CASE result.selected = {}
      <4>1. \A r \in filing.rules : None \notin r.types
        BY RulesAssumption DEF IInv, Filed
      <4> QED BY <1>1, <1>2, <3>2, <4>1 DEF governedBy
    <3> QED BY <3>1, <3>2
  <2>3. governedBy(filing.rules, applicationFrom.productType)
          = governedBy(filing.rules, Application.productType)
    BY <1>1, <2>1, <2>2
  <2>4. assessPolicy(applicationFrom, Label, result.warning, filing.rules)
          = assessPolicy(Application, Label, result.warning, filing.rules)
    BY <2>3, SameFindings
  <2> QED BY <1>1, <1>5, <1>8, <2>4
<1> QED BY <1>1, <1>4, <1>5, <1>7, <1>8, <1>9
(* The check of the digests says whether the readings are those of the newest verdict.      *)
LEMMA Integrity ==
  ASSUME IInv, phase \in Held
  PROVE /\ checkIntegrity \in {"verified", "altered"}
        /\ checkIntegrity = "verified" <=>
             /\ stored.extractions["label"] = raw["label"]
             /\ ~filing.single => stored.extractions["record"] = raw["record"]
<1>1. chained = Digests /\ raw \in [Regions -> Given]
  BY DEF IInv, Rows, Filed
<1>2. raw["label"] # None /\ (~filing.single => raw["record"] # None)
  BY DEF IInv, Resulted, Filed, Held, Past, needsRecordExtraction
<1>3. Digests["label"] = raw["label"]
      /\ Digests["record"] = IF filing.single THEN None ELSE raw["record"]
  BY <1>1 DEF Digests, Regions
<1> QED BY <1>1, <1>2, <1>3 DEF checkIntegrity

LEMMA NotCrossed == IInv => NeverCrossed
<1> SUFFICES ASSUME IInv, phase = "judged" PROVE NeverCrossed
  BY DEF NeverCrossed
<1>1. /\ result.application = Application
      /\ result.findings = assessPolicy(Application, Label, result.warning, filing.rules).findings
      /\ result.selected = governedBy(filing.rules, Application.productType)
  BY JudgementParts DEF IInv, Resulted, Past
<1>2. PICK type : type = result.application.productType
  OBVIOUS
<1>3. PICK blank : blank = [f \in FIELDS \cup {"productType"} |-> IF f = "productType" THEN type ELSE None]
  OBVIOUS
<1>4. blank.productType = Application.productType
  BY <1>1, <1>2, <1>3
<1>5. assessPolicy(blank, Label, result.warning, filing.rules).findings = result.findings
  <2>1. assessPolicy(blank, Label, result.warning, filing.rules)
          = assessPolicy(Application, Label, result.warning, filing.rules)
    BY <1>4, SameFindings
  <2> QED BY <1>1, <2>1
<1>6. ASSUME NEW other
      PROVE assessPolicy(result.application, other, result.warning, filing.rules).selected = result.selected
  BY <1>1 DEF assessPolicy
<1> QED BY <1>2, <1>3, <1>5, <1>6 DEF NeverCrossed, Label

LEMMA Reproduced == IInv => ReplayReproduces
<1> SUFFICES ASSUME IInv, replay # None, edits = 0, kept[1] = kept[Len(kept)]
             PROVE replay = IF stored.referenceDataVersion = configVersion THEN "identical"
                            ELSE "not-comparable"
  BY DEF ReplayReproduces
<1>1. phase = "replayed" /\ replay = replayVerdict
  BY DEF IInv, Replayed
<1>2. /\ stored.outcome = result.outcome /\ stored.fields = result.fields
      /\ stored.segments = result.warning.segments /\ stored.extractions = raw
      /\ Inputs(stored) = Inputs(buildPersistPlan)
  BY <1>1 DEF IInv, Rows, Earlier, Held
<1>3. checkIntegrity = "verified"
  BY <1>1, <1>2, Integrity DEF Held
<1>4. /\ Rederived.fields = result.fields /\ Rederived.warning = result.warning
      /\ Rederived.outcome = result.outcome
  BY <1>1, <1>2, Rederives DEF Held
<1>5. ~Differences(Rederived)
  BY <1>2, <1>4 DEF Differences
<1> QED BY <1>1, <1>3, <1>5 DEF replayVerdict, versionDrift

LEMMA Seen == IInv => EditsAreSeen
<1> SUFFICES ASSUME IInv, replay # None PROVE EditsAreSeen
  BY DEF EditsAreSeen
<1>1. phase = "replayed" /\ replay = replayVerdict /\ raw = kept[Len(kept)]
  BY DEF IInv, Replayed, Rows, Held
<1>2. PICK regions, altered, reread, unchained :
        /\ regions = {"label", "record"}
        /\ altered = {region \in regions : stored.extractions[region] # kept[1][region]}
        /\ reread = {region \in regions : kept[1][region] # kept[Len(kept)][region]}
        /\ unchained = IF filing.single THEN {"record"} ELSE {}
  OBVIOUS
<1>3. /\ checkIntegrity \in {"verified", "altered"}
      /\ checkIntegrity = "verified" <=>
           /\ stored.extractions["label"] = raw["label"]
           /\ ~filing.single => stored.extractions["record"] = raw["record"]
  BY <1>1, Integrity DEF Held
<1>4. replay = "record-altered" <=> checkIntegrity = "altered"
  BY <1>1, <1>3 DEF replayVerdict
<1>5. replay = "record-altered" => altered \cup reread # {}
  BY <1>1, <1>2, <1>3, <1>4
<1>6. altered \ (reread \cup unchained) # {} => replay = "record-altered"
  BY <1>1, <1>2, <1>3, <1>4
<1>7. ASSUME ~FailsTheCheck(replay), replay # "not-comparable"
      PROVE /\ stored.extractions["label"] = raw["label"]
            /\ stored.outcome = Rederived.outcome
            /\ \A f \in FIELDS : /\ stored.fields[f].state = Rederived.fields[f].state
                                /\ stored.fields[f].observed = Rederived.fields[f].observed
            /\ stored.segments = Rederived.warning.segments
  <2>1. checkIntegrity = "verified" /\ ~Differences(Rederived)
    BY <1>1, <1>3, <1>7 DEF replayVerdict, FailsTheCheck
  <2> QED BY <1>3, <2>1 DEF Differences
<1>8. ASSUME ~FailsTheCheck(replay), replay # "not-comparable"
      PROVE /\ \A f \in FIELDS : stored.fields[f].observed = result.fields[f].observed
            /\ stored.segments = result.warning.segments
            /\ stored.outcome \in Approvable => result.warning.ok
  BY <1>1, <1>7, <1>8, LabelStands DEF Held
<1>9. ASSUME ~FailsTheCheck(replay), replay # "not-comparable",
             Inputs(stored) = Inputs(buildPersistPlan)
      PROVE /\ stored.outcome = result.outcome
            /\ \A f \in FIELDS : stored.fields[f].state = result.fields[f].state
  BY <1>1, <1>7, <1>9, Rederives DEF Held
<1> QED BY <1>2, <1>5, <1>6, <1>8, <1>9 DEF EditsAreSeen
-----------------------------------------------------------------------------
(* The outcome. *)

FindingStates == {"SATISFIED", "VIOLATED", "UNDETERMINED", "NOT_APPLICABLE"}

LEMMA FindingsShape ==
  ASSUME NEW application, NEW extraction, NEW warning, NEW rules \in RuleSets,
         NEW findings, findings = assessPolicy(application, extraction, warning, rules).findings
  PROVE /\ IsFiniteSet(findings)
        /\ \A v \in findings : /\ v.state \in FindingStates
                               /\ v.severity \in {"blocking", "advisory"}
<1>1. PICK selected : selected = governedBy(rules, application.productType)
  OBVIOUS
<1>2. PICK ctx : ctx = contextFor(application, extraction, warning)
  OBVIOUS
<1>3. findings = IF selected = {} THEN SelectionUndetermined ELSE {evaluateRule(r, ctx) : r \in selected}
  BY <1>1, <1>2 DEF assessPolicy
<1>4. selected \subseteq rules /\ IsFiniteSet(selected)
  <2>1. selected \subseteq rules
    BY <1>1 DEF governedBy
  <2> QED BY <2>1, RulesAssumption, FS_Subset
<1>5. IsFiniteSet({evaluateRule(r, ctx) : r \in selected})
  <2> DEFINE found == {evaluateRule(r, ctx) : r \in selected}
             find == [r \in selected |-> evaluateRule(r, ctx)]
  <2>1. find \in Surjection(selected, found)
    BY DEF Surjection
  <2> HIDE DEF find
  <2> QED BY <1>4, <2>1, FS_Surjection
<1>6. ASSUME NEW r \in selected
      PROVE /\ evaluateRule(r, ctx).state \in FindingStates
            /\ evaluateRule(r, ctx).severity \in {"blocking", "advisory"}
  <2>1. /\ r.severity \in {"blocking", "advisory"}
        /\ r.check.kind \in {"field-present", "format-matches", "value-in-set",
                             "numeric-consistency", "statutory-text", "numeric-bound"}
    BY <1>4, RulesAssumption
  <2>2. /\ checkFieldPresent(r.check, ctx) \in FindingStates
        /\ checkFormat(r.check, ctx) \in FindingStates
    BY DEF checkFieldPresent, checkFormat, FindingStates
  <2>3. checkValueInSet(r.check, ctx) \in FindingStates
    BY DEF checkValueInSet, FindingStates
  <2>4. checkNumericConsistency(r.check, ctx) \in FindingStates
    BY DEF checkNumericConsistency, FindingStates
  <2>5. checkNumericBound(r.check, ctx) \in FindingStates
    BY DEF checkNumericBound, FindingStates
  <2>6. checkStatutoryText(ctx) \in FindingStates
    BY DEF checkStatutoryText, FindingStates
  <2>7. evaluateRule(r, ctx).state \in FindingStates
    BY <2>1, <2>2, <2>3, <2>4, <2>5, <2>6 DEF evaluateRule
  <2> QED BY <2>1, <2>7 DEF evaluateRule
<1>7. /\ IsFiniteSet(SelectionUndetermined)
      /\ \A v \in SelectionUndetermined : v.state = "UNDETERMINED" /\ v.severity = "blocking"
  <2>1. PICK v : v = [ruleId |-> "POLICY-SELECTION", severity |-> "blocking", state |-> "UNDETERMINED"]
    OBVIOUS
  <2>2. SelectionUndetermined = {v} /\ v.state = "UNDETERMINED" /\ v.severity = "blocking"
    BY <2>1 DEF SelectionUndetermined
  <2> QED BY <2>2, FS_Singleton
<1>8. \A v \in findings : v.state \in FindingStates /\ v.severity \in {"blocking", "advisory"}
  BY <1>3, <1>6, <1>7 DEF FindingStates
<1> QED BY <1>3, <1>5, <1>7, <1>8

(* The outcome as its parts decide it. *)
LEMMA OutcomeParts ==
  ASSUME NEW fields, NEW warning, NEW findings, NEW outcome,
         outcome = aggregate(fields, warning, findings),
         NEW unread \in BOOLEAN, NEW wrong \in BOOLEAN, NEW open \in BOOLEAN,
         unread <=> (unreadableFields(fields) # {} \/ ~warning.legible),
         wrong <=> (Problems(fields) # {} \/ ~warning.ok \/ \E v \in findings : isBlockingViolation(v)),
         open <=> \E v \in findings : needsJudgement(v)
  PROVE /\ outcome = "INCOMPLETE" <=> unread
        /\ outcome = "DISCREPANCIES_FOUND" <=> ~unread /\ wrong
        /\ outcome = "CLEAR_CONFIRM_POLICY" <=> ~unread /\ ~wrong /\ open
        /\ outcome \in Approvable <=> ~unread /\ ~wrong /\ ~open
        /\ outcome \in {"INCOMPLETE", "DISCREPANCIES_FOUND", "CLEAR_CONFIRM_POLICY"} \cup Approvable
BY DEF aggregate, Approvable
LEMMA CountTells ==
  ASSUME NEW S, IsFiniteSet(S)
  PROVE Cardinality(S) \in Nat /\ (Cardinality(S) > 0 <=> S # {})
BY FS_EmptySet, FS_CardinalityType

LEMMA Counted == IInv => CountsAgree
<1> SUFFICES ASSUME IInv, result # None PROVE CountsAgree
  BY DEF CountsAgree
<1>1. result = Judgement(Application, Label, filing.legible, filing.rules) /\ filing.rules \in RuleSets
  BY DEF IInv, Resulted, Filed
<1>2. PICK fields, warning, findings, outcome :
        /\ fields = result.fields /\ warning = result.warning /\ findings = result.findings
        /\ outcome = result.outcome
  OBVIOUS
<1>3. outcome = aggregate(fields, warning, findings)
      /\ findings = assessPolicy(Application, Label, warning, filing.rules).findings
  BY <1>1, <1>2, JudgementParts
<1>4. IsFiniteSet(findings)
  BY <1>1, <1>3, FindingsShape
<1>5. PICK P, B, J : P = Problems(fields) /\ B = {v \in findings : isBlockingViolation(v)}
                     /\ J = {v \in findings : needsJudgement(v)}
  OBVIOUS
<1>6. IsFiniteSet(P) /\ IsFiniteSet(B) /\ IsFiniteSet(J)
  <2>1. IsFiniteSet(FIELDS)
    <3>1. FIELDS = {"brandName", "classType"} \cup {"alcoholContent", "netContents"}
      BY DEF FIELDS
    <3>2. ASSUME NEW x, NEW y PROVE IsFiniteSet({x, y})
      <4>1. {x, y} = {x} \cup {y} /\ IsFiniteSet({x}) /\ IsFiniteSet({y})
        BY FS_Singleton
      <4> QED BY <4>1, FS_Union
    <3> QED BY <3>1, <3>2, FS_Union
  <2>2. P \subseteq FIELDS /\ B \subseteq findings /\ J \subseteq findings
    BY <1>5 DEF Problems
  <2> QED BY <1>4, <2>1, <2>2, FS_Subset
<1>7. PICK p \in Nat, b \in Nat, j \in Nat, w \in {0, 1} :
        /\ p = Cardinality(P) /\ b = Cardinality(B) /\ j = Cardinality(J)
        /\ w = IF warning.ok THEN 0 ELSE 1
        /\ (p > 0 <=> P # {}) /\ (b > 0 <=> B # {}) /\ (j > 0 <=> J # {})
  <2>1. (IF warning.ok THEN 0 ELSE 1) \in {0, 1}
    OBVIOUS
  <2> QED BY <1>6, <2>1, CountTells
<1>8. /\ problemCount(fields, warning, findings) = p + w + b
      /\ judgementCount(findings) = j
  BY <1>5, <1>7 DEF problemCount, judgementCount
<1>9. PICK unread \in BOOLEAN, wrong \in BOOLEAN, open \in BOOLEAN :
        /\ unread <=> (unreadableFields(fields) # {} \/ ~warning.legible)
        /\ wrong <=> (Problems(fields) # {} \/ ~warning.ok \/ \E v \in findings : isBlockingViolation(v))
        /\ open <=> (\E v \in findings : needsJudgement(v))
  BY Zenon
<1>10. (wrong <=> p + w + b > 0) /\ (open <=> j > 0)
  <2>1. wrong <=> p > 0 \/ w = 1 \/ b > 0
    BY <1>5, <1>7, <1>9
  <2>2. open <=> j > 0
    BY <1>5, <1>7, <1>9
  <2> QED BY <2>1, <2>2
<1>11. /\ outcome = "INCOMPLETE" <=> unread
       /\ outcome = "DISCREPANCIES_FOUND" <=> ~unread /\ wrong
       /\ outcome = "CLEAR_CONFIRM_POLICY" <=> ~unread /\ ~wrong /\ open
       /\ outcome \in Approvable <=> ~unread /\ ~wrong /\ ~open
       /\ outcome \in {"INCOMPLETE", "DISCREPANCIES_FOUND", "CLEAR_CONFIRM_POLICY"} \cup Approvable
  BY <1>3, <1>9, OutcomeParts
<1>12. PICK line : line = summarise(fields, warning, findings)
  OBVIOUS
<1>13. outcome # "INCOMPLETE" =>
         (line.says \in {"field", "warning", "rule"} <=> outcome = "DISCREPANCIES_FOUND")
  BY <1>3, <1>11, <1>12 DEF summarise, Approvable
<1>14. PICK problems, judgements :
         /\ problems = problemCount(fields, warning, findings) /\ judgements = judgementCount(findings)
         /\ (problems > 0 <=> wrong) /\ (problems = 0 <=> ~wrong)
         /\ (judgements > 0 <=> open) /\ (judgements = 0 <=> ~open)
  BY <1>8, <1>10
<1> QED BY <1>2, <1>11, <1>12, <1>13, <1>14 DEF CountsAgree
-----------------------------------------------------------------------------
(* A label read again. *)

(* A field that has a problem has the same one in a reading of the same text, unless that   *)
(* reading is marked unreadable.                                                            *)
LEMMA ProblemStays ==
  ASSUME NEW f, NEW expected, NEW one, NEW two, one.raw = two.raw,
         compareField(f, expected, one).state \in {"MISMATCH", "MISSING_ON_LABEL"}
  PROVE compareField(f, expected, two).state \in {"MISMATCH", "MISSING_ON_LABEL", "UNREADABLE"}
<1>1. expected # None /\ ~one.unreadable
  BY DEF compareField, FieldVerdict
<1>2. CASE two.unreadable
  BY <1>1, <1>2 DEF compareField, FieldVerdict
<1>3. CASE ~two.unreadable /\ two.raw = None
  BY <1>1, <1>3 DEF compareField, FieldVerdict
<1>4. CASE ~two.unreadable /\ two.raw # None
  <2>1. PICK v : /\ compareField(f, expected, one) = applyConfidence(v, one.confidence)
                 /\ compareField(f, expected, two) = applyConfidence(v, two.confidence)
    <3>1. CASE f = "alcoholContent"
      BY <1>1, <1>4, <3>1 DEF compareField
    <3>2. CASE f = "netContents"
      BY <1>1, <1>4, <3>2 DEF compareField
    <3>3. CASE f \notin {"alcoholContent", "netContents"}
      BY <1>1, <1>4, <3>3 DEF compareField
    <3> QED BY <3>1, <3>2, <3>3
  <2>2. v.state \in {"MISMATCH", "MISSING_ON_LABEL"}
    <3>1. v.state = "MATCH" => applyConfidence(v, one.confidence).state \in {"MATCH", "LOW_CONFIDENCE"}
      BY DEF applyConfidence
    <3>2. v.state # "MATCH" => applyConfidence(v, one.confidence) = v
      BY DEF applyConfidence
    <3> QED BY <2>1, <3>1, <3>2
  <2>3. applyConfidence(v, two.confidence) = v
    BY <2>2 DEF applyConfidence
  <2> QED BY <2>1, <2>2, <2>3
<1> QED BY <1>2, <1>3, <1>4

(* A rule that the one reading breaks is broken by the other, or left undecided. *)
LEMMA ViolationStays ==
  ASSUME NEW rules \in RuleSets, NEW r \in rules, NEW one, NEW two,
         one.observed = two.observed, one.warningOk = two.warningOk,
         evaluateRule(r, one).state = "VIOLATED"
  PROVE evaluateRule(r, two).state \in {"VIOLATED", "UNDETERMINED"}
<1>1. r.check.kind \in {"field-present", "format-matches", "value-in-set",
                        "numeric-consistency", "statutory-text", "numeric-bound"}
  BY RulesAssumption
<1>2. CASE r.check.kind = "field-present"
  <2>1. checkFieldPresent(r.check, one) = "VIOLATED"
    BY <1>2 DEF evaluateRule
  <2>2. checkFieldPresent(r.check, two) \in {"VIOLATED", "UNDETERMINED"}
    BY <2>1 DEF checkFieldPresent
  <2> QED BY <1>2, <2>2 DEF evaluateRule
<1>3. CASE r.check.kind # "field-present"
  <2>1. /\ checkFormat(r.check, one) = checkFormat(r.check, two)
        /\ checkValueInSet(r.check, one) = checkValueInSet(r.check, two)
        /\ checkNumericConsistency(r.check, one) = checkNumericConsistency(r.check, two)
        /\ checkNumericBound(r.check, one) = checkNumericBound(r.check, two)
        /\ checkStatutoryText(one) = checkStatutoryText(two)
    BY DEF checkFormat, checkValueInSet, checkNumericConsistency, checkNumericBound, checkStatutoryText
  <2>2. evaluateRule(r, one).state = evaluateRule(r, two).state
    BY <1>1, <1>3, <2>1 DEF evaluateRule
  <2> QED BY <2>2
<1> QED BY <1>2, <1>3

(* Two readings of the same texts never tell a verdict to approve from one with problems. *)
LEMMA SameTexts ==
  ASSUME NEW application, NEW one, NEW two, NEW legible \in BOOLEAN, NEW rules \in RuleSets,
         compareReadings(one, two),
         Judgement(application, one, legible, rules).outcome = "DISCREPANCIES_FOUND"
  PROVE Judgement(application, two, legible, rules).outcome \notin Approvable
<1>1. /\ \A f \in FIELDS : one.fields[f].raw = two.fields[f].raw
      /\ one.warningStatement = two.warningStatement
  BY DEF compareReadings
<1>2. PICK j, k : /\ j = Judgement(application, one, legible, rules)
                  /\ k = Judgement(application, two, legible, rules)
  OBVIOUS
<1>3. /\ j.fields = compareFields(application, one) /\ k.fields = compareFields(application, two)
      /\ j.warning = k.warning
      /\ j.findings = assessPolicy(application, one, j.warning, rules).findings
      /\ k.findings = assessPolicy(application, two, j.warning, rules).findings
      /\ j.outcome = aggregate(j.fields, j.warning, j.findings)
      /\ k.outcome = aggregate(k.fields, k.warning, k.findings)
  <2>1. /\ j.fields = compareFields(application, one)
        /\ j.warning = verifyWarning(one.warningStatement, legible)
        /\ j.findings = assessPolicy(application, one, j.warning, rules).findings
        /\ j.outcome = aggregate(j.fields, j.warning, j.findings)
    BY <1>2, JudgementParts
  <2>2. /\ k.fields = compareFields(application, two)
        /\ k.warning = verifyWarning(two.warningStatement, legible)
        /\ k.findings = assessPolicy(application, two, k.warning, rules).findings
        /\ k.outcome = aggregate(k.fields, k.warning, k.findings)
    BY <1>2, JudgementParts
  <2>3. j.warning = k.warning
    BY <1>1, <2>1, <2>2
  <2> QED BY <2>1, <2>2, <2>3
<1>4. j.outcome = "DISCREPANCIES_FOUND"
  BY <1>2
<1>5. Problems(j.fields) # {} \/ ~j.warning.ok \/ \E v \in j.findings : isBlockingViolation(v)
  BY <1>3, <1>4 DEF aggregate
<1> SUFFICES ASSUME k.outcome \in Approvable PROVE FALSE
  BY <1>2
<1>6. /\ unreadableFields(k.fields) = {} /\ Problems(k.fields) = {} /\ k.warning.ok
      /\ \A v \in k.findings : ~isBlockingViolation(v) /\ ~needsJudgement(v)
  BY <1>3 DEF aggregate, Approvable
<1>7. Problems(j.fields) = {}
  <2> SUFFICES ASSUME NEW f \in FIELDS, j.fields[f].state \in {"MISMATCH", "MISSING_ON_LABEL"}
               PROVE FALSE
    BY DEF Problems
  <2>1. /\ j.fields[f] = compareField(f, application[f], one.fields[f])
        /\ k.fields[f] = compareField(f, application[f], two.fields[f])
    BY <1>3 DEF compareFields
  <2>2. k.fields[f].state \in {"MISMATCH", "MISSING_ON_LABEL", "UNREADABLE"}
    BY <1>1, <2>1, ProblemStays
  <2> QED BY <1>6, <2>2 DEF Problems, unreadableFields
<1>8. PICK v \in j.findings : isBlockingViolation(v)
  BY <1>3, <1>5, <1>6, <1>7
<1>9. PICK selected, c, d : /\ selected = governedBy(rules, application.productType)
                            /\ c = contextFor(application, one, j.warning)
                            /\ d = contextFor(application, two, j.warning)
  OBVIOUS
<1>10. /\ j.findings = IF selected = {} THEN SelectionUndetermined ELSE {evaluateRule(r, c) : r \in selected}
       /\ k.findings = IF selected = {} THEN SelectionUndetermined ELSE {evaluateRule(r, d) : r \in selected}
  BY <1>3, <1>9 DEF assessPolicy
<1>11. selected # {}
  BY <1>8, <1>10 DEF SelectionUndetermined, isBlockingViolation
<1>12. PICK r \in selected : v = evaluateRule(r, c)
  BY <1>8, <1>10, <1>11
<1>13. c.observed = d.observed /\ c.warningOk = d.warningOk /\ r \in rules
  BY <1>1, <1>9, <1>12 DEF contextFor, governedBy
<1>14. evaluateRule(r, d).state \in {"VIOLATED", "UNDETERMINED"}
  BY <1>8, <1>12, <1>13, ViolationStays DEF isBlockingViolation
<1>15. evaluateRule(r, d).severity = "blocking"
  BY <1>8, <1>12 DEF isBlockingViolation, evaluateRule
<1>16. evaluateRule(r, d) \in k.findings
  BY <1>10, <1>11, <1>12
<1> QED BY <1>6, <1>14, <1>15, <1>16 DEF isBlockingViolation, needsJudgement
LEMMA Bears == IInv => RereadBearsOnTheVerdict
<1> SUFFICES ASSUME IInv, phase = "stored", edits = 0, Len(kept) = 1 PROVE RereadBearsOnTheVerdict
  BY DEF RereadBearsOnTheVerdict
<1>1. stored.extractions = raw
  BY DEF IInv, Earlier, Rows, Held
<1>2. result = Judgement(Application, Label, filing.legible, filing.rules)
      /\ filing.rules \in RuleSets /\ filing.legible \in BOOLEAN
  BY DEF IInv, Resulted, Past, Filed
<1>3. result.application = Application
  BY <1>2, JudgementParts
<1>4. ASSUME NEW response, NEW region, Reread(region, response) = "identical"
      PROVE compareReadings(parseExtractionResponse(raw[region], region),
                            parseExtractionResponse(response, region))
  BY <1>1, <1>4 DEF Reread
<1>5. ASSUME NEW response, Reread("label", response) = "identical",
             NEW both, both = {result.outcome,
                               Judgement(result.application, parseExtractionResponse(response, "label"),
                                         filing.legible, filing.rules).outcome},
             "DISCREPANCIES_FOUND" \in both
      PROVE both \cap Approvable = {}
  <2>1. PICK fresh : fresh = parseExtractionResponse(response, "label")
    OBVIOUS
  <2>2. compareReadings(Label, fresh) /\ compareReadings(fresh, Label)
    <3>1. compareReadings(Label, fresh)
      BY <1>4, <1>5, <2>1 DEF Label
    <3> QED BY <3>1 DEF compareReadings
  <2>3. PICK one, two : /\ one = Judgement(Application, Label, filing.legible, filing.rules).outcome
                        /\ two = Judgement(Application, fresh, filing.legible, filing.rules).outcome
    OBVIOUS
  <2>4. one = "DISCREPANCIES_FOUND" => two \notin Approvable
    BY <1>2, <2>2, <2>3, SameTexts
  <2>5. two = "DISCREPANCIES_FOUND" => one \notin Approvable
    BY <1>2, <2>2, <2>3, SameTexts
  <2>6. both = {one, two}
    BY <1>2, <1>3, <1>5, <2>1, <2>3
  <2> QED BY <1>5, <2>4, <2>5, <2>6 DEF Approvable
<1>6. ASSUME needsRecordExtraction, NEW response, Reread("record", response) = "identical",
             NEW again, again = toApplicationData(parseExtractionResponse(response, "record")),
             again.productType = result.application.productType
      PROVE again = result.application
  <2>1. PICK recorded, fresh : /\ recorded = parseExtractionResponse(raw["record"], "record")
                               /\ fresh = parseExtractionResponse(response, "record")
    OBVIOUS
  <2>2. \A f \in FIELDS : recorded.fields[f].raw = fresh.fields[f].raw
    BY <1>4, <1>6, <2>1 DEF compareReadings
  <2>3. result.application = toApplicationData(recorded) /\ again = toApplicationData(fresh)
    BY <1>3, <1>6, <2>1 DEF Application
  <2>4. recorded.productType = fresh.productType
    BY <1>6, <2>3 DEF toApplicationData
  <2>5. \A f \in FIELDS \cup {"productType"} :
          (IF f = "productType" THEN recorded.productType ELSE recorded.fields[f].raw)
            = (IF f = "productType" THEN fresh.productType ELSE fresh.fields[f].raw)
    BY <2>2, <2>4
  <2> QED BY <2>3, <2>5 DEF toApplicationData
<1> QED BY <1>5, <1>6 DEF RereadBearsOnTheVerdict

-----------------------------------------------------------------------------
(* An outcome to approve. *)

(* A field in order says what the application says. *)
LEMMA FieldEarned ==
  ASSUME NEW f \in FIELDS, NEW expected, NEW observed, expected # None,
         compareField(f, expected, observed).state \notin {"MISMATCH", "MISSING_ON_LABEL", "UNREADABLE"}
  PROVE /\ ~observed.unreadable /\ observed.raw # None
        /\ SaysTheSame(f, expected, observed.raw)
<1>1. ~observed.unreadable /\ observed.raw # None
  BY DEF compareField, FieldVerdict
<1>2. PICK v : /\ compareField(f, expected, observed) = applyConfidence(v, observed.confidence)
               /\ v = CASE f = "alcoholContent" -> compareNumeric(expected, observed.raw)
                        [] f = "netContents" -> compareQuantity(expected, observed.raw)
                        [] OTHER -> compareTolerantText(expected, observed.raw)
  BY <1>1 DEF compareField
<1>3. v.state \notin {"MISMATCH", "MISSING_ON_LABEL", "UNREADABLE"}
  <2>1. v.state # "MATCH" => applyConfidence(v, observed.confidence) = v
    BY DEF applyConfidence
  <2> QED BY <1>2, <2>1
<1>4. CASE f = "alcoholContent"
  <2>1. v = compareNumeric(expected, observed.raw)
    BY <1>2, <1>4
  <2>2. parseAbv(expected).value = parseAbv(observed.raw).value
    BY <1>3, <2>1 DEF compareNumeric, FieldVerdict
  <2> QED BY <1>1, <1>4, <2>2 DEF SaysTheSame
<1>5. CASE f = "netContents"
  <2>1. v = compareQuantity(expected, observed.raw)
    BY <1>2, <1>5
  <2>2. PICK eq, oq, apart : /\ eq = parseQuantity(expected) /\ oq = parseQuantity(observed.raw)
                             /\ apart = AbsDiff(eq.milliliters, oq.milliliters)
    OBVIOUS
  <2>3. oq # None /\ eq # None
        /\ ~(IF eq.unit # oq.unit /\ ~eq.unitAssumed /\ ~oq.unitAssumed
             THEN 200 * apart > Larger(eq.milliliters, oq.milliliters) ELSE apart > 50)
    BY <1>3, <2>1, <2>2 DEF compareQuantity, FieldVerdict
  <2>4. SameVolume(eq, oq)
    BY <2>2, <2>3 DEF SameVolume
  <2> QED BY <1>1, <1>5, <2>2, <2>4 DEF SaysTheSame
<1>6. CASE f \notin {"alcoholContent", "netContents"}
  <2>1. v = compareTolerantText(expected, observed.raw)
    BY <1>2, <1>6
  <2>2. expected.letters = observed.raw.letters
    BY <1>3, <2>1 DEF compareTolerantText, FieldVerdict, textEquivalent
  <2> QED BY <1>1, <1>6, <2>2 DEF SaysTheSame
<1> QED BY <1>4, <1>5, <1>6
(* A warning in order has its header and both its clauses verbatim. *)
LEMMA WarningEarned ==
  ASSUME NEW statement, NEW legible, verifyWarning(statement, legible).ok
  PROVE {"HEADER", "1", "2"} \subseteq Pieces(statement)
<1>1. None \notin {"capitals", "colon", "missing", "wording"}
  BY VerificationAssumption
<1>2. statement # None
  BY DEF verifyWarning
<1>3. PICK h, one, two : /\ h = HeaderDeviation(statement) /\ one = ClauseDeviation(statement, "1", "1~")
                         /\ two = ClauseDeviation(statement, "2", "2~")
  OBVIOUS
<1>4. h = None /\ one = None /\ two = None
  <2> DEFINE deviations == <<HeaderDeviation(statement), ClauseDeviation(statement, "1", "1~"),
                             ClauseDeviation(statement, "2", "2~")>>
             right == deviations = <<None, None, None>> /\ clausesInOrder(statement)
             segments == IF deviations = <<None, None, None>> /\ ~clausesInOrder(statement)
                         THEN [deviations EXCEPT ![3] = "order"] ELSE deviations
  <2>1. verifyWarning(statement, legible)
          = [legible |-> legible, present |-> TRUE, ok |-> right, segments |-> segments]
    BY <1>2, Zenon DEF verifyWarning
  <2>2. right => deviations = <<None, None, None>>
    OBVIOUS
  <2>3. deviations = <<h, one, two>>
    BY <1>3
  <2> HIDE DEF right, segments
  <2>4. PICK w : w = right
    OBVIOUS
  <2>5. verifyWarning(statement, legible)
          = [legible |-> legible, present |-> TRUE, ok |-> w, segments |-> segments]
    BY <2>1, <2>4, Zenon
  <2>6. verifyWarning(statement, legible).ok = w
    BY <2>5
  <2>7. right
    <3>1. w
      BY <2>6, Zenon
    <3> QED BY <2>4, <3>1, Zenon
  <2>8. <<h, one, two>> = <<None, None, None>>
    BY <2>2, <2>3, <2>7, Zenon
  <2> QED BY <2>8
<1>5. "HEADER" \in Pieces(statement)
  BY <1>1, <1>3, <1>4 DEF HeaderDeviation
<1>6. "1" \in Pieces(statement) /\ "2" \in Pieces(statement)
  BY <1>1, <1>3, <1>4 DEF ClauseDeviation
<1> QED BY <1>5, <1>6

LEMMA Earned == IInv => ClearMeansChecked
<1> SUFFICES ASSUME IInv, result # None, result.outcome \in Approvable PROVE ClearMeansChecked
  BY DEF ClearMeansChecked
<1>1. result = Judgement(Application, Label, filing.legible, filing.rules)
      /\ filing.rules \in RuleSets /\ filing.legible \in BOOLEAN
  BY DEF IInv, Resulted, Filed
<1>2. /\ result.application = Application /\ result.fields = compareFields(Application, Label)
      /\ result.warning = verifyWarning(Label.warningStatement, filing.legible)
      /\ result.findings = assessPolicy(Application, Label, result.warning, filing.rules).findings
      /\ result.selected = governedBy(filing.rules, Application.productType)
      /\ result.outcome = aggregate(result.fields, result.warning, result.findings)
  BY <1>1, JudgementParts
<1>3. /\ unreadableFields(result.fields) = {} /\ result.warning.legible
      /\ Problems(result.fields) = {} /\ result.warning.ok
      /\ \A v \in result.findings : ~isBlockingViolation(v) /\ ~needsJudgement(v)
  BY <1>2 DEF aggregate, Approvable
<1>4. ASSUME NEW f \in FIELDS, result.application[f] # None
      PROVE /\ ~Label.fields[f].unreadable /\ Label.fields[f].raw # None
            /\ SaysTheSame(f, result.application[f], Label.fields[f].raw)
  <2>1. result.fields[f] = compareField(f, Application[f], Label.fields[f])
    BY <1>2 DEF compareFields
  <2>2. compareField(f, Application[f], Label.fields[f]).state
          \notin {"MISMATCH", "MISSING_ON_LABEL", "UNREADABLE"}
    BY <1>3, <2>1 DEF Problems, unreadableFields
  <2> QED BY <1>2, <1>4, <2>2, FieldEarned
<1>5. filing.legible
  BY <1>1, <1>2, <1>3, WarningParts
<1>6. {"HEADER", "1", "2"} \subseteq Pieces(Label.warningStatement)
  BY <1>2, <1>3, WarningEarned
<1>7. result.selected # {}
  <2>1. ASSUME result.selected = {} PROVE FALSE
    <3>1. result.findings = SelectionUndetermined
      BY <1>2, <2>1 DEF assessPolicy
    <3>2. PICK v \in result.findings : v.state = "UNDETERMINED"
      BY <3>1 DEF SelectionUndetermined
    <3> QED BY <1>3, <3>2 DEF needsJudgement
  <2> QED BY <2>1
<1>8. \A v \in result.findings : v.state \in {"SATISFIED", "NOT_APPLICABLE"}
  <2>1. \A v \in result.findings : v.state \in FindingStates /\ v.severity \in {"blocking", "advisory"}
    BY <1>1, <1>2, FindingsShape
  <2> QED BY <1>3, <2>1 DEF FindingStates, isBlockingViolation, needsJudgement
<1> QED BY <1>4, <1>5, <1>6, <1>7, <1>8 DEF ClearMeansChecked, Label

-----------------------------------------------------------------------------
(* An outcome that asks for nothing but an approval was earned, whatever the model answers  *)
(* and whatever rules are in force: every field the application states is on the label and  *)
(* says the same, the warning is legible and verbatim, and some rule was applied and none   *)
(* is left broken or undecided (aggregate.ts, D5, D40).                                     *)
THEOREM ClearEarned == Spec => []ClearMeansChecked
BY Invariance, Earned, PTL

(* The record chooses the rules and the label answers them, never crossed, for any readings *)
(* and any rules (findings.ts).                                                             *)
THEOREM Uncrossed == Spec => []NeverCrossed
BY Invariance, NotCrossed, PTL

(* What the worklist counts is what was found (aggregate.ts), for any finite set of rules.  *)
THEOREM CountsTrue == Spec => []CountsAgree
BY Invariance, Counted, PTL

(* NFR-13: a verdict whose rows were left alone is re-derived from them exactly, under the  *)
(* reference data it was reached with, unless a second verdict read something else.         *)
THEOREM Reproduces == Spec => []ReplayReproduces
BY Invariance, Reproduced, PTL

(* However many edits are made, and whatever columns they meet: a chained reading that was  *)
(* altered is called so, and nothing else is; a verdict that passes the check shows what    *)
(* the label was read to say, and is not to approve over a warning that was wrong; and if   *)
(* what the replay reads back as its input was left alone, the outcome and the states are   *)
(* those that were reached (checkIntegrity, replayVerdict).                                 *)
THEOREM EditsSeen == Spec => []EditsAreSeen
BY Invariance, Seen, PTL

(* The same label read so again never tells a verdict to approve from one with problems,    *)
(* and the same record read so is the same application up to its product type (reread.ts).  *)
THEOREM RereadBears == Spec => []RereadBearsOnTheVerdict
BY Invariance, Bears, PTL
=============================================================================
