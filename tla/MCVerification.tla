---------------------------- MODULE MCVerification ----------------------------
(* Model-checking instances of Verification: texts, responses and rule sets in which every  *)
(* branch of the comparison, the warning and the checks is taken.                           *)
EXTENDS Verification

Word(letters, print) == [Unprinted EXCEPT !.letters = letters, !.print = print]
Class(classes) == [Word("whisky", 0) EXCEPT !.classes = classes]
Abv(percent, proof) == [Word("abv", 0) EXCEPT !.percent = percent, !.proof = proof,
                                              !.forms = IF percent = None THEN {} ELSE {"abv-statement"}]
InWords == [Word("abv", 0) EXCEPT !.percentWord = 45, !.forms = {"abv-statement"}]
Volume(amount, unit) == [Word("net", 0) EXCEPT !.amount = amount, !.unit = unit]
Bare(n) == [Word("net", 0) EXCEPT !.bare = n]

Printed(t) == [value |-> t, present |-> TRUE, unreadable |-> FALSE, confidence |-> None]
Absent == [Printed(None) EXCEPT !.present = FALSE]
Guess(t) == [Printed(t) EXCEPT !.unreadable = TRUE]
Faint(t) == [Printed(t) EXCEPT !.confidence = 40]

Base == [brandName |-> Printed(Word("stone", 0)), classType |-> Printed(Class({"whisky"})),
         alcoholContent |-> Printed(Abv(45, 90)), netContents |-> Printed(Volume(750, "mL"))]

Variants ==
  [brandName |-> {Printed(Word("stone", 1)), Printed(Word("ridge", 0)), Absent,
                  Guess(Word("ridge", 0)), Faint(Word("stone", 0)), Printed(Echo)},
   classType |-> {Printed(Class({"whisky", "gin"})), Printed(Class({"brandy"})), Absent},
   alcoholContent |-> {Printed(Abv(45, 80)), Printed(Abv(None, 90)), Printed(Abv(20, None)),
                       Printed(InWords), Absent},
   netContents |-> {Printed(Volume(75, "cL")), Printed(Volume(943, "mL")), Printed(Volume(946, "mL")),
                    Printed(Volume(753, "mL")), Printed(Bare(753)), Printed(Bare(750)),
                    Printed(Volume(3, "gill")), Guess(Volume(750, "mL")), Absent}]

Statement == <<"HEADER", "1", "2">>
Statements == {<<"Header", "1", "2">>, <<"HEADER-", "1", "2">>, <<"HEADER", "1~", "2">>,
               <<"HEADER", "2", "1">>, <<"1", "text", "2", "HEADER">>, <<"text">>, None}

Answering(fields, warning, type) ==
  [fields |-> fields, warningStatement |-> warning, productType |-> type, labelReduction |-> None]

OneChanged(base) == {base} \cup UNION {{[base EXCEPT ![f] = v] : v \in Variants[f]} : f \in FIELDS}
TwoChanged == UNION {OneChanged([Base EXCEPT !.netContents = v]) :
                       v \in {Printed(Bare(750)), Absent}}

Labels ==
  {Answering(fields, Statement, None) : fields \in OneChanged(Base) \cup TwoChanged}
    \cup {Answering(Base, s, None) : s \in Statements}

Filed(brand, alcohol, net) ==
  [Base EXCEPT !.brandName = brand, !.alcoholContent = alcohol, !.netContents = net]

Records ==
  LET spirits == "Distilled spirits"
      brand == Printed(Word("stone", 0))
      abv == Printed(Abv(45, 90))
      net == Printed(Volume(750, "mL"))
  IN {Answering(Filed(b, abv, net), None, spirits) : b \in {brand, Absent, Guess(Word("stone", 0))}}
       \cup {Answering(Filed(brand, a, net), None, spirits) :
               a \in {Printed(Abv(None, 90)), Printed(Word("strong", 0)), Absent}}
       \cup {Answering(Filed(brand, abv, n), None, spirits) :
               n \in {Printed(Volume(32, "fl oz")), Printed(Bare(750)), Absent}}
       \cup {Answering(Filed(brand, abv, net), None, t) : t \in {"Wine", "Beer", None, Malformed}}
       \cup {[Answering(Base, None, spirits) EXCEPT !.labelReduction = Malformed]}

DeclaredApplications ==
  {[f \in FIELDS \cup {"productType"} |->
      IF f = "productType" THEN "Distilled spirits" ELSE Base[f].value]}

Rule(id, status, severity, types, check) ==
  [id |-> id, status |-> status, severity |-> severity, types |-> types, check |-> check]
Spirits == {"Distilled spirits"}
Net == [kind |-> "field-present", field |-> "netContents", whenAbsentUndetermined |-> TRUE]
Brand == [kind |-> "field-present", field |-> "brandName", whenAbsentUndetermined |-> FALSE]
Fill == [kind |-> "value-in-set", field |-> "netContents", permitted |-> {75000, 94600},
         notApplicableAbove |-> 375000]
Form == [kind |-> "format-matches", field |-> "alcoholContent", format |-> "abv-statement"]
Sonnet == [Form EXCEPT !.format = "sonnet"]
Proof == [kind |-> "numeric-consistency", field |-> "alcoholContent", relation |-> "proof-is-twice-abv"]
Golden == [Proof EXCEPT !.relation = "golden"]
Floor == [kind |-> "numeric-bound", field |-> "alcoholContent", determinedBy |-> "classType"]
Statutory == [kind |-> "statutory-text"]

Sets ==
  {{Rule("net", "active", "blocking", Spirits, Net), Rule("brand", "active", "blocking", Spirits, Brand),
    Rule("fill", "active", "blocking", Spirits, Fill), Rule("proof", "active", "advisory", Spirits, Proof)},
   {Rule("form", "active", "advisory", Spirits, Form), Rule("floor", "active", "blocking", Spirits, Floor),
    Rule("warning", "active", "blocking", {}, Statutory), Rule("fill", "draft", "blocking", {}, Fill),
    Rule("sonnet", "active", "advisory", {"Wine"}, Sonnet), Rule("golden", "active", "advisory", {"Wine"}, Golden)}}

Floors == [c \in {"whisky", "gin", "brandy"} |-> IF c = "brandy" THEN None ELSE 40]

Forged == {Answering([Base EXCEPT !.brandName = Printed(Word("ridge", 0))], Statement, None)}

ForgedRecs == {Answering([Base EXCEPT !.brandName = Printed(Word("ridge", 0))], None, "Wine")}

ForgedTextsOf ==
  [brandName |-> {Word("stone", 1), Word("ridge", 0), None}, classType |-> {None},
   alcoholContent |-> {Abv(45, 80), None}, netContents |-> {Bare(750), None}]

Again == {Answering(Base, Statement, None), Answering(Base, <<"Header", "1", "2">>, None),
          Answering(Base, None, "Distilled spirits"), Answering(Base, None, "Wine")}

(* A label of another brand, a label whose warning is not in capitals, and their record. *)
EditedResponses ==
  Forged \cup {Answering(Base, <<"Header", "1", "2">>, None), Answering(Base, None, "Distilled spirits")}

(* A readable label, and a record that may not be. *)
ReadableLabels == {Answering(Base, Statement, None)}
=============================================================================
