-------------------------------- MODULE Verdict --------------------------------
(***************************************************************************)
(* The rules that turn two readings into an outcome, with no model and no  *)
(* clock: field comparison (src/src/domain/compare.ts), the health warning *)
(* (warning.ts), the check vocabulary of the policy set (evaluate.ts), the *)
(* selection of rules (findings.ts, policy.ts) and the aggregation         *)
(* (aggregate.ts).                                                         *)
(***************************************************************************)
EXTENDS Reading, Sequences

AbsDiff(a, b) == IF a < b THEN b - a ELSE a - b
Larger(a, b) == IF a < b THEN b ELSE a

-----------------------------------------------------------------------------
(* compare.ts: one field of the application against what was read. *)

LOW_CONFIDENCE_THRESHOLD == 70

FieldVerdict(state, expected, observed) ==
  [state |-> state, expected |-> expected, observed |-> observed]

compareTolerantText(e, o) == FieldVerdict(IF textEquivalent(e, o) THEN "MATCH" ELSE "MISMATCH", e, o)

compareNumeric(e, o) ==
  FieldVerdict(CASE parseAbv(o) = None -> "UNREADABLE"
                 [] parseAbv(o) # None /\ parseAbv(e) = None -> "MISMATCH"
                 [] OTHER -> IF parseAbv(e).value = parseAbv(o).value THEN "MATCH" ELSE "MISMATCH",
               e, o)

(* Mutant: the tolerance of a conversion where nothing was converted. *)
compareQuantity_Tolerant(e, o) ==
  LET eq == parseQuantity(e)
      oq == parseQuantity(o)
      beyond == 200 * AbsDiff(eq.milliliters, oq.milliliters) > Larger(eq.milliliters, oq.milliliters)
  IN FieldVerdict(CASE oq = None -> "UNREADABLE"
                    [] oq # None /\ eq = None -> "MISMATCH"
                    [] OTHER -> IF beyond THEN "MISMATCH"
                                ELSE IF oq.unitAssumed THEN "LOW_CONFIDENCE" ELSE "MATCH",
                  e, o)

(* Half a millilitre, or half a per cent where the units really were converted. *)
compareQuantity(e, o) ==
  LET eq == parseQuantity(e)
      oq == parseQuantity(o)
      converted == eq.unit # oq.unit /\ ~eq.unitAssumed /\ ~oq.unitAssumed
      apart == AbsDiff(eq.milliliters, oq.milliliters)
      beyond == IF converted THEN 200 * apart > Larger(eq.milliliters, oq.milliliters)
                ELSE apart > 50
  IN FieldVerdict(CASE oq = None -> "UNREADABLE"
                    [] oq # None /\ eq = None -> "MISMATCH"
                    [] OTHER -> IF beyond THEN "MISMATCH"
                                ELSE IF oq.unitAssumed THEN "LOW_CONFIDENCE" ELSE "MATCH",
                  e, o)

applyConfidence(v, confidence) ==
  IF v.state = "MATCH" /\ confidence < LOW_CONFIDENCE_THRESHOLD
  THEN [v EXCEPT !.state = "LOW_CONFIDENCE"] ELSE v

(* preCompare first, in its order: not supplied, unreadable, missing. *)
compareField(f, expected, observed) ==
  CASE expected = None -> FieldVerdict("NOT_SUPPLIED", None, observed.raw)
    [] expected # None /\ observed.unreadable -> FieldVerdict("UNREADABLE", expected, None)
    [] expected # None /\ ~observed.unreadable /\ observed.raw = None ->
         FieldVerdict("MISSING_ON_LABEL", expected, None)
    [] OTHER ->
         applyConfidence(CASE f = "alcoholContent" -> compareNumeric(expected, observed.raw)
                           [] f = "netContents" -> compareQuantity(expected, observed.raw)
                           [] OTHER -> compareTolerantText(expected, observed.raw),
                         observed.confidence)

compareFields(application, extraction) ==
  [f \in FIELDS |-> compareField(f, application[f], extraction.fields[f])]

-----------------------------------------------------------------------------
(* warning.ts. A statement is a sequence of pieces: the header as prescribed ("HEADER"), in *)
(* other letters ("Header"), without its colon ("HEADER-"), a clause verbatim or with its   *)
(* marker and other words ("1", "1~", "2", "2~"), and any other text.                       *)

Pieces(statement) == {statement[i] : i \in DOMAIN statement}

HeaderDeviation(statement) ==
  CASE "HEADER" \in Pieces(statement) -> None
    [] {"HEADER", "Header"} \cap Pieces(statement) = {"Header"} -> "capitals"
    [] {"HEADER", "Header", "HEADER-"} \cap Pieces(statement) = {"HEADER-"} -> "colon"
    [] OTHER -> "missing"

ClauseDeviation(statement, verbatim, altered) ==
  CASE verbatim \in Pieces(statement) -> None
    [] {verbatim, altered} \cap Pieces(statement) = {altered} -> "wording"
    [] OTHER -> "missing"

(* clausesInOrder: the first place each marker is found; a missing one says nothing. *)
clausesInOrder(statement) ==
  LET at(c) == {i \in DOMAIN statement : statement[i] \in c}
      first(c) == CHOOSE i \in at(c) : \A j \in at(c) : i <= j
  IN at({"1", "1~"}) # {} /\ at({"2", "2~"}) # {} => first({"1", "1~"}) < first({"2", "2~"})

verifyWarning(statement, legible) ==
  LET deviations == <<HeaderDeviation(statement), ClauseDeviation(statement, "1", "1~"),
                      ClauseDeviation(statement, "2", "2~")>>
      allOk == deviations = <<None, None, None>>
  IN IF statement = None
     THEN [legible |-> legible, present |-> FALSE, ok |-> FALSE,
           segments |-> <<"missing", "missing", "missing">>]
     ELSE [legible |-> legible, present |-> TRUE,
           ok |-> allOk /\ clausesInOrder(statement),
           segments |-> IF allOk /\ ~clausesInOrder(statement)
                        THEN [deviations EXCEPT ![3] = "order"] ELSE deviations]

-----------------------------------------------------------------------------
(* evaluate.ts: what one rule says about a label. A rule is [id, status, severity, types,   *)
(* check]; ctx is [observed, unreadable, warningOk].                                        *)

checkFieldPresent(check, ctx) ==
  CASE check.field \in ctx.unreadable -> "UNDETERMINED"
    [] check.field \notin ctx.unreadable /\ ctx.observed[check.field] # None -> "SATISFIED"
    [] OTHER -> IF check.whenAbsentUndetermined THEN "UNDETERMINED" ELSE "VIOLATED"

FORMATS == {"abv-statement", "wine-abv-statement"}

checkFormat(check, ctx) ==
  LET t == ctx.observed[check.field]
  IN CASE t = None -> "NOT_APPLICABLE"
       [] t # None /\ check.format \notin FORMATS -> "UNDETERMINED"
       [] OTHER -> IF check.format \in t.forms THEN "SATISFIED" ELSE "VIOLATED"

checkValueInSet(check, ctx) ==
  LET t == ctx.observed[check.field]
      ml == parseQuantity(t).milliliters
  IN CASE t = None -> "NOT_APPLICABLE"
       [] t # None /\ parseQuantity(t) = None -> "UNDETERMINED"
       [] OTHER -> IF ml > check.notApplicableAbove THEN "NOT_APPLICABLE"
                   ELSE IF \E p \in check.permitted : AbsDiff(p, ml) < 50
                        THEN "SATISFIED" ELSE "VIOLATED"

(* The proof is twice the stated strength; a proof on its own, or none, decides nothing. *)
checkNumericConsistency(check, ctx) ==
  LET t == ctx.observed[check.field]
  IN CASE t = None -> "NOT_APPLICABLE"
       [] t # None /\ check.relation # "proof-is-twice-abv" -> "UNDETERMINED"
       [] OTHER -> IF parseProof(t) = None THEN "NOT_APPLICABLE"
                   ELSE IF statedAbv(t) = None THEN "UNDETERMINED"
                   ELSE IF statedAbv(t) = parseProof(t) THEN "SATISFIED" ELSE "VIOLATED"

(* determinedBy is the class type where the rule does not say. *)
checkNumericBound(check, ctx) ==
  LET designation == ctx.observed[check.determinedBy]
      class == resolveDesignation(designation)
      t == ctx.observed[check.field]
  IN CASE designation = None -> "UNDETERMINED"
       [] designation # None /\ class = None -> "UNDETERMINED"
       [] OTHER -> CASE MinimumAbv[class] = None -> "UNDETERMINED"
                     [] MinimumAbv[class] # None /\ t = None -> "NOT_APPLICABLE"
                     [] OTHER -> IF parseAbv(t) = None THEN "UNDETERMINED"
                                 ELSE IF parseAbv(t).value >= 2 * MinimumAbv[class]
                                      THEN "SATISFIED" ELSE "VIOLATED"

checkStatutoryText(ctx) ==
  IF ctx.warningOk = None THEN "UNDETERMINED"
  ELSE IF ctx.warningOk = TRUE THEN "SATISFIED" ELSE "VIOLATED"

evaluateRule(rule, ctx) ==
  [ruleId |-> rule.id, severity |-> rule.severity,
   state |-> CASE rule.check.kind = "field-present" -> checkFieldPresent(rule.check, ctx)
               [] rule.check.kind = "format-matches" -> checkFormat(rule.check, ctx)
               [] rule.check.kind = "value-in-set" -> checkValueInSet(rule.check, ctx)
               [] rule.check.kind = "numeric-consistency" -> checkNumericConsistency(rule.check, ctx)
               [] rule.check.kind = "numeric-bound" -> checkNumericBound(rule.check, ctx)
               [] rule.check.kind = "statutory-text" -> checkStatutoryText(ctx)]

-----------------------------------------------------------------------------
(* findings.ts. The record chooses the rules; the label is what they are asked about. *)

(* Mutant: the rules are asked about the application. *)
contextFor_Application(application, extraction, warning) ==
  [observed |-> [f \in FIELDS |-> application[f]],
   unreadable |-> {f \in FIELDS : extraction.fields[f].unreadable},
   warningOk |-> IF warning.legible THEN warning.ok ELSE None]

contextFor(application, extraction, warning) ==
  [observed |-> [f \in FIELDS |-> extraction.fields[f].raw],
   unreadable |-> {f \in FIELDS : extraction.fields[f].unreadable},
   warningOk |-> IF warning.legible THEN warning.ok ELSE None]

governedBy(rules, productType) ==
  {r \in rules : r.status = "active" /\ (r.types = {} \/ productType \in r.types)}

SelectionUndetermined ==
  {[ruleId |-> "POLICY-SELECTION", severity |-> "blocking", state |-> "UNDETERMINED"]}

(* The findings, and the rules they come from. *)
assessPolicy(application, extraction, warning, rules) ==
  LET selected == governedBy(rules, application.productType)
      ctx == contextFor(application, extraction, warning)
  IN [selected |-> selected,
      findings |-> IF selected = {} THEN SelectionUndetermined
                   ELSE {evaluateRule(r, ctx) : r \in selected}]

-----------------------------------------------------------------------------
(* aggregate.ts. *)

isBlockingViolation(finding) == finding.state = "VIOLATED" /\ finding.severity = "blocking"

needsJudgement(finding) ==
  finding.state = "UNDETERMINED" \/ (finding.state = "VIOLATED" /\ finding.severity = "advisory")

Problems(fields) == {f \in FIELDS : fields[f].state \in {"MISMATCH", "MISSING_ON_LABEL"}}
unreadableFields(fields) == {f \in FIELDS : fields[f].state = "UNREADABLE"}

aggregate(fields, warning, findings) ==
  CASE unreadableFields(fields) # {} \/ ~warning.legible -> "INCOMPLETE"
    [] unreadableFields(fields) = {} /\ warning.legible ->
         IF Problems(fields) # {} \/ ~warning.ok \/ \E v \in findings : isBlockingViolation(v)
         THEN "DISCREPANCIES_FOUND"
         ELSE IF \E v \in findings : needsJudgement(v) THEN "CLEAR_CONFIRM_POLICY"
         ELSE IF \E f \in FIELDS : fields[f].state = "LOW_CONFIDENCE" THEN "CLEAR_CONFIRM_FLAGGED"
         ELSE "CLEAR"

(* Mutant: the warning is not counted. *)
problemCount_NoWarning(fields, warning, findings) ==
  Cardinality(Problems(fields)) + Cardinality({v \in findings : isBlockingViolation(v)})

problemCount(fields, warning, findings) ==
  Cardinality(Problems(fields)) + (IF warning.ok THEN 0 ELSE 1)
    + Cardinality({v \in findings : isBlockingViolation(v)})

judgementCount(findings) == Cardinality({v \in findings : needsJudgement(v)})

(* What the worklist row says: the kind of line, and the number or the name in it. *)
summarise(fields, warning, findings) ==
  LET outcome == aggregate(fields, warning, findings)
  IN CASE outcome \in {"CLEAR", "CLEAR_CONFIRM_FLAGGED"} -> [says |-> outcome, of |-> 0]
       [] outcome = "CLEAR_CONFIRM_POLICY" -> [says |-> outcome, of |-> judgementCount(findings)]
       [] outcome = "INCOMPLETE" -> [says |-> outcome, of |-> Cardinality(unreadableFields(fields))]
       [] OTHER -> [says |-> IF Problems(fields) # {} THEN "field"
                             ELSE IF ~warning.ok THEN "warning" ELSE "rule",
                    of |-> problemCount(fields, warning, findings)]
=============================================================================
