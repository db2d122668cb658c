-------------------------------- MODULE Reading --------------------------------
(***************************************************************************)
(* What the model's answer is turned into before any rule looks at it: the *)
(* extraction contract (src/src/domain/extraction.ts), the parsers of      *)
(* strengths and volumes (parse.ts), the text normalisation (normalize.ts) *)
(* and the resolution of a class designation (designation.ts).             *)
(*                                                                         *)
(* A printed text is a record of what those functions can tell about it:   *)
(* the letters normalizeText keeps, the way they are printed, the numbers  *)
(* each regular expression finds, the statement forms it satisfies and the *)
(* classes it mentions.  Whitespace is trimmed and a blank is None.        *)
(***************************************************************************)
EXTENDS Integers, FiniteSets, TLC

CONSTANTS
  None,              \* null: not printed, not read, not stated
  Echo,              \* a value that is the prompt's own placeholder
  Malformed,         \* a value of the wrong JSON type, or out of its range
  MinimumAbv         \* class taxonomy: class -> minimum bottling ABV, or None

FIELDS == {"brandName", "classType", "alcoholContent", "netContents"}

FORM_PRODUCT_TYPES == {"Wine", "Distilled spirits", "Malt beverages"}

(* The keys of a text. A number is None where the expression does not match. *)
Unprinted == [letters |-> None, print |-> 0, percent |-> None, percentWord |-> None,
              bare |-> None, proof |-> None, amount |-> None, unit |-> None,
              forms |-> {}, classes |-> {}]

-----------------------------------------------------------------------------
(* parse.ts and normalize.ts. Strengths are counted in half per cents, so that a proof is   *)
(* a whole number of them, and volumes in hundredths of a millilitre.                       *)

textEquivalent(a, b) == a.letters = b.letters

parseAbv(t) ==
  CASE t.percent # None -> [value |-> 2 * t.percent, source |-> "percent"]
    [] t.percent = None /\ t.bare # None -> [value |-> 2 * t.bare, source |-> "bare-number"]
    [] t.percent = None /\ t.bare = None /\ t.proof # None ->
         [value |-> t.proof, source |-> "proof"]
    [] OTHER -> None

parseProof(t) == t.proof

VOLUME_UNITS == ("mL" :> 100) @@ ("cL" :> 1000) @@ ("dL" :> 10000) @@ ("L" :> 100000)
                  @@ ("fl oz" :> 2957)

(* A unit that is stated but not known is not guessed at. *)
parseQuantity(t) ==
  CASE t.unit \in DOMAIN VOLUME_UNITS ->
         [milliliters |-> t.amount * VOLUME_UNITS[t.unit], unit |-> t.unit, unitAssumed |-> FALSE]
    [] t.unit = None /\ t.bare # None ->
         [milliliters |-> t.bare * 100, unit |-> None, unitAssumed |-> TRUE]
    [] OTHER -> None

(* The strength a statement gives in per cent, never one derived from its proof. *)
statedAbv(t) ==
  CASE t.percent # None -> 2 * t.percent
    [] t.percent = None /\ t.percentWord # None -> 2 * t.percentWord
    [] t.percent = None /\ t.percentWord = None /\ t.bare # None -> 2 * t.bare
    [] OTHER -> None

(* Exactly one class, or none: an ambiguity is for a person to settle. *)
resolveDesignation(t) ==
  IF Cardinality(t.classes) = 1 THEN CHOOSE c \in t.classes : TRUE ELSE None

-----------------------------------------------------------------------------
(* extraction.ts. A response is [fields, warningStatement, productType, labelReduction]; a  *)
(* field is [value, present, unreadable, confidence] and confidence a percentage.           *)

FieldAccepted(raw) ==
  /\ raw # Malformed
  /\ raw.value \notin {Echo, Malformed}
  /\ raw.confidence # Malformed

readField(raw) ==
  [raw |-> IF raw.unreadable \/ ~raw.present THEN None ELSE raw.value,
   confidence |-> IF raw.confidence = None THEN 100 ELSE raw.confidence,
   unreadable |-> raw.unreadable]

(* Folded to the form's own spelling; the nearest match is not taken. *)
readProductType(raw) == IF raw \in FORM_PRODUCT_TYPES THEN raw ELSE None

(* A response that breaks the contract gives nothing (ExtractionContractError). What was    *)
(* not asked for is absent: the label is not asked its product type, nor the record its     *)
(* warning. The reduction of item 19 is refused like the rest and used by no rule.          *)
parseExtractionResponse(response, region) ==
  LET asked == IF region = "label" THEN {response.warningStatement}
               ELSE {response.productType, response.labelReduction}
  IN IF (\E f \in FIELDS : ~FieldAccepted(response.fields[f])) \/ asked \cap {Echo, Malformed} # {}
     THEN None
     ELSE [fields |-> [f \in FIELDS |-> readField(response.fields[f])],
           warningStatement |-> IF region = "label" THEN response.warningStatement ELSE None,
           productType |-> IF region = "record" THEN readProductType(response.productType)
                           ELSE None]
=============================================================================
