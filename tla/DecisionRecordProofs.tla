-------------------------- MODULE DecisionRecordProofs --------------------------
(***************************************************************************)
(* What holds of decisions, reviews and their history for any number of    *)
(* requests, people, verdicts and failures.                                *)
(***************************************************************************)
EXTENDS DecisionRecord, FiniteSetTheorems, SequenceTheorems, TLAPS

(* t is s with rows added at its end. *)
Extends(s, t) == Len(s) <= Len(t) /\ \A i \in 1..Len(s) : t[i] = s[i]

(* The act a request is about to chain is in its table. *)
Stored(r) ==
  IF r \in Deciders
  THEN \E m \in 1..Len(decisions) :
         decisions[m].verdict = read[r] /\ decisions[m].by = body[r].by
           /\ decisions[m].what = body[r].what
  ELSE \E v \in reviews : v.verdict = read[r] /\ v.by = body[r].by

(* What a request's locals promise about the tables, at each of its steps: the verdict it   *)
(* read exists; no decision it could have seen was about that verdict, and what it carries  *)
(* was accepted against that verdict's outcome; what it is about to chain is stored.        *)
Promises(r) ==
  /\ read[r] <= Len(verdicts)
  /\ pc[r] \in {"decided", "insertDecision", "insertReview", "append"} => read[r] # 0
  /\ pc[r] \in {"decided", "insertDecision"} => r \in Deciders
  /\ pc[r] = "insertReview" => r \in Auditors
  /\ pc[r] = "insertDecision" =>
       /\ seen[r] <= Len(decisions)
       /\ \A m \in 1..Len(decisions) : decisions[m].verdict = read[r] => seen[r] < m
       /\ MayDecide(body[r], verdicts[read[r]])
  /\ pc[r] = "append" => Stored(r)

(* Every decision is of a verdict there is. *)
OfAVerdict == \A n \in 1..Len(decisions) : decisions[n].verdict \in 1..Len(verdicts)

Tables == OfAVerdict /\ SecondDecisionWasBlind /\ DeparturesExplained /\ ChainedActsStored

(* The inductive invariant. *)
IInv == TypeOK /\ Tables /\ \A r \in Requests : Promises(r)

(* The tables only grow. *)
Grows == Extends(verdicts, verdicts') /\ Extends(decisions, decisions') /\ reviews \subseteq reviews'

LEMMA InitInv == ASSUME RecordAssumption PROVE Init => IInv
<1> SUFFICES ASSUME Init PROVE IInv
  OBVIOUS
<1>1. TypeOK
  <2>1. NoBody \in Body
    BY DEF NoBody, Body
  <2>2. /\ verdicts \in Seq(Outcomes) /\ decisions \in Seq(Decision)
        /\ reviews \subseteq Review /\ history \in Seq(Event)
    BY DEF Init
  <2>3. /\ pc \in [Requests -> Steps] /\ read \in [Requests -> Nat]
        /\ body \in [Requests -> Body] /\ seen \in [Requests -> Nat] /\ faults \in Nat
    BY <2>1 DEF Init, Steps
  <2> QED BY <2>2, <2>3 DEF TypeOK
<1>2. Tables
  BY DEF Init, Tables, OfAVerdict, SecondDecisionWasBlind, DeparturesExplained, ChainedActsStored
<1>3. \A r \in Requests : Promises(r)
  BY DEF Init, Promises
<1> QED BY <1>1, <1>2, <1>3 DEF IInv

(* A request that does not move keeps its promises while the tables grow. *)
LEMMA OthersKeep ==
  ASSUME TypeOK, TypeOK', Grows, OfAVerdict, NEW r \in Requests, Promises(r),
         pc'[r] = pc[r], read'[r] = read[r], body'[r] = body[r], seen'[r] = seen[r]
  PROVE  Promises(r)'
<1> USE DEF Grows, Extends
<1>0. /\ Len(verdicts) \in Nat /\ Len(decisions) \in Nat
      /\ Len(verdicts') \in Nat /\ Len(decisions') \in Nat
      /\ read[r] \in Nat /\ seen[r] \in Nat
  BY DEF TypeOK
<1>1. /\ read'[r] <= Len(verdicts')
      /\ pc'[r] \in {"decided", "insertDecision", "insertReview", "append"} => read'[r] # 0
      /\ pc'[r] \in {"decided", "insertDecision"} => r \in Deciders
      /\ pc'[r] = "insertReview" => r \in Auditors
  BY <1>0 DEF Promises
<1>2. ASSUME pc[r] = "insertDecision"
      PROVE  /\ seen[r] <= Len(decisions')
             /\ \A m \in 1..Len(decisions') : decisions'[m].verdict = read[r] => seen[r] < m
             /\ MayDecide(body[r], verdicts'[read[r]])
  <2>1. seen[r] <= Len(decisions) /\ MayDecide(body[r], verdicts[read[r]])
        /\ \A m \in 1..Len(decisions) : decisions[m].verdict = read[r] => seen[r] < m
    BY <1>2 DEF Promises
  <2>2. verdicts'[read[r]] = verdicts[read[r]]
    BY <1>0, <1>2 DEF Promises
  <2>3. ASSUME NEW m \in 1..Len(decisions'), decisions'[m].verdict = read[r]
        PROVE  seen[r] < m
    <3>1. CASE m \in 1..Len(decisions)
      BY <2>1, <2>3, <3>1
    <3>2. CASE m \notin 1..Len(decisions)
      BY <1>0, <2>1, <3>2
    <3> QED BY <3>1, <3>2
  <2> QED BY <1>0, <2>1, <2>2, <2>3
<1>3. ASSUME pc[r] = "append"
      PROVE  Stored(r)'
  <2>1. Stored(r)
    BY <1>3 DEF Promises
  <2>2. CASE r \in Deciders
    <3>1. PICK m \in 1..Len(decisions) :
            decisions[m].verdict = read[r] /\ decisions[m].by = body[r].by
              /\ decisions[m].what = body[r].what
      BY <2>1, <2>2 DEF Stored
    <3>2. m \in 1..Len(decisions') /\ decisions'[m] = decisions[m]
      BY <1>0, <3>1
    <3> QED BY <2>2, <3>1, <3>2 DEF Stored
  <2>3. CASE r \notin Deciders
    BY <2>1, <2>3 DEF Stored
  <2> QED BY <2>2, <2>3
<1> QED BY <1>1, <1>2, <1>3 DEF Promises

(* A step of one request that adds to the tables what may be added, and leaves the locals   *)
(* of the others alone.                                                                     *)
LEMMA OneMoves ==
  ASSUME IInv, NEW r \in Requests, TypeOK', Tables', Grows, Promises(r)',
         \A q \in Requests \ {r} : /\ pc'[q] = pc[q] /\ read'[q] = read[q]
                                  /\ body'[q] = body[q] /\ seen'[q] = seen[q]
  PROVE  IInv'
<1>1. ASSUME NEW q \in Requests PROVE Promises(q)'
  <2>1. CASE q = r
    BY <2>1
  <2>2. CASE q # r
    BY <2>2, OthersKeep DEF IInv, Tables
  <2> QED BY <2>1, <2>2
<1> QED BY <1>1 DEF IInv

LEMMA SameTables ==
  ASSUME TypeOK, Tables, UNCHANGED stores
  PROVE  Tables' /\ Grows
  BY DEF stores, TypeOK, Tables, Grows, Extends, OfAVerdict, SecondDecisionWasBlind,
         DeparturesExplained, ChainedActsStored

(* A request that ends has no locals left to promise anything about. *)
LEMMA Ended ==
  ASSUME TypeOK, NEW r \in Requests, Ends(r), verdicts' \in Seq(Outcomes)
  PROVE  /\ pc' \in [Requests -> Steps] /\ read' \in [Requests -> Nat]
         /\ body' \in [Requests -> Body] /\ seen' \in [Requests -> Nat]
         /\ Promises(r)'
         /\ \A q \in Requests \ {r} : /\ pc'[q] = pc[q] /\ read'[q] = read[q]
                                     /\ body'[q] = body[q] /\ seen'[q] = seen[q]
<1>1. NoBody \in Body
  BY DEF NoBody, Body
<1>2. /\ pc' = [pc EXCEPT ![r] = "over"] /\ read' = [read EXCEPT ![r] = 0]
      /\ body' = [body EXCEPT ![r] = NoBody] /\ seen' = [seen EXCEPT ![r] = 0]
  BY DEF Ends, Go
<1>3. pc'[r] = "over" /\ read'[r] = 0
  BY <1>2 DEF TypeOK
<1>4. /\ pc' \in [Requests -> Steps] /\ read' \in [Requests -> Nat]
      /\ body' \in [Requests -> Body] /\ seen' \in [Requests -> Nat]
  BY <1>1, <1>2 DEF TypeOK, Steps
<1>5. Promises(r)'
  BY <1>3 DEF Promises
<1> QED BY <1>2, <1>4, <1>5 DEF TypeOK

(* The INSERT of a decision: the check it was given against the verdict's own outcome, and  *)
(* what it had seen, become facts about the new row.                                        *)
LEMMA DecisionAdded ==
  ASSUME IInv, NEW r \in Requests, pc[r] = "insertDecision",
         decisions' = Append(decisions,
            [verdict |-> read[r], by |-> body[r].by, what |-> body[r].what,
             recommended |-> verdicts[read[r]], noted |-> body[r].noted, seen |-> seen[r]]),
         UNCHANGED <<verdicts, reviews, history>>
  PROVE  /\ Tables' /\ Grows
         /\ decisions' \in Seq(Decision)
         /\ \E m \in 1..Len(decisions') :
              decisions'[m].verdict = read[r] /\ decisions'[m].by = body[r].by
                /\ decisions'[m].what = body[r].what
<1> DEFINE d == [verdict |-> read[r], by |-> body[r].by, what |-> body[r].what,
                 recommended |-> verdicts[read[r]], noted |-> body[r].noted, seen |-> seen[r]]
<1>0. TypeOK /\ Tables /\ Promises(r)
  BY DEF IInv
<1>1. read[r] \in 1..Len(verdicts) /\ body[r] \in Body /\ seen[r] \in Nat
  BY <1>0 DEF TypeOK, Promises
<1>2. verdicts[read[r]] \in Outcomes
  BY <1>0, <1>1 DEF TypeOK
<1>3. d \in Decision
  <2>1. body[r].by \in Names \cup {""} /\ body[r].what \in Words \cup {""} /\ body[r].noted \in BOOLEAN
    BY <1>1 DEF Body
  <2>2. read[r] \in Nat
    BY <1>0 DEF TypeOK
  <2> QED BY <2>1, <2>2, <1>1, <1>2 DEF Decision
<1>4. decisions \in Seq(Decision) /\ Len(decisions) \in Nat
  BY <1>0 DEF TypeOK
<1> HIDE DEF d
<1>5. /\ decisions' \in Seq(Decision)
      /\ Len(decisions') = Len(decisions) + 1
      /\ \A i \in 1..Len(decisions) : decisions'[i] = decisions[i]
      /\ decisions'[Len(decisions) + 1] = d
  <2>1. decisions' = Append(decisions, d)
    BY DEF d
  <2> QED BY <1>3, <1>4, <2>1, AppendProperties
<1>6. Grows
  BY <1>4, <1>5, <1>0 DEF Grows, Extends, TypeOK
<1>7. OfAVerdict'
  <2> SUFFICES ASSUME NEW n \in 1..Len(decisions') PROVE decisions'[n].verdict \in 1..Len(verdicts)
    BY DEF OfAVerdict
  <2>1. CASE n \in 1..Len(decisions)
    BY <2>1, <1>5, <1>0 DEF Tables, OfAVerdict
  <2>2. CASE n = Len(decisions) + 1
    BY <2>2, <1>5, <1>1 DEF d
  <2> QED BY <2>1, <2>2, <1>4, <1>5
<1>8. SecondDecisionWasBlind'
  <2> SUFFICES ASSUME NEW m \in 1..Len(decisions'), NEW n \in 1..Len(decisions'), m < n,
                      decisions'[m].verdict = decisions'[n].verdict
               PROVE  decisions'[n].seen < m
    BY <1>4, <1>5 DEF SecondDecisionWasBlind
  <2>1. m \in 1..Len(decisions)
    BY <1>4, <1>5
  <2>2. CASE n \in 1..Len(decisions)
    BY <2>1, <2>2, <1>0, <1>4, <1>5 DEF Tables, SecondDecisionWasBlind
  <2>3. CASE n = Len(decisions) + 1
    <3>1. decisions[m].verdict = read[r]
      BY <2>1, <2>3, <1>5 DEF d
    <3>2. seen[r] < m
      BY <2>1, <3>1, <1>0 DEF Promises
    <3> QED BY <2>3, <3>2, <1>5 DEF d
  <2> QED BY <2>2, <2>3, <1>4, <1>5
<1>9. DeparturesExplained'
  <2> SUFFICES ASSUME NEW n \in 1..Len(decisions')
               PROVE  /\ decisions'[n].recommended = verdicts[decisions'[n].verdict]
                      /\ isDisagreement(decisions'[n].what, verdicts[decisions'[n].verdict])
                           => decisions'[n].noted
    BY <1>4, <1>5 DEF DeparturesExplained
  <2>1. CASE n \in 1..Len(decisions)
    BY <2>1, <1>0, <1>4, <1>5 DEF Tables, DeparturesExplained
  <2>2. CASE n = Len(decisions) + 1
    <3>1. MayDecide(body[r], verdicts[read[r]])
      BY <1>0 DEF Promises
    <3>2. isDisagreement(body[r].what, verdicts[read[r]]) => body[r].noted
      BY <3>1 DEF MayDecide
    <3> QED BY <2>2, <3>2, <1>5 DEF d
  <2> QED BY <2>1, <2>2, <1>4, <1>5
<1>10. ChainedActsStored'
  <2> SUFFICES ASSUME NEW n \in DOMAIN history, history[n].action = "decision.recorded"
               PROVE  \E m \in DOMAIN decisions' :
                        decisions'[m].verdict = history[n].verdict
                          /\ decisions'[m].by = history[n].by
                          /\ decisions'[m].what = history[n].what
    BY <1>0 DEF Tables, ChainedActsStored
  <2>1. PICK m \in 1..Len(decisions) :
          decisions[m].verdict = history[n].verdict /\ decisions[m].by = history[n].by
            /\ decisions[m].what = history[n].what
    BY <1>0, <1>4 DEF Tables, ChainedActsStored
  <2>2. m \in DOMAIN decisions' /\ decisions'[m] = decisions[m]
    BY <1>4, <1>5
  <2> QED BY <2>1, <2>2
<1>11. Len(decisions') \in 1..Len(decisions') /\ decisions'[Len(decisions')] = d
  BY <1>4, <1>5
<1>12. \E m \in 1..Len(decisions') :
         decisions'[m].verdict = read[r] /\ decisions'[m].by = body[r].by
           /\ decisions'[m].what = body[r].what
  BY <1>11 DEF d
<1> QED BY <1>5, <1>6, <1>7, <1>8, <1>9, <1>10, <1>12 DEF Tables

LEMMA ReviewAdded ==
  ASSUME IInv, NEW r \in Requests, pc[r] = "insertReview",
         reviews' = (IF \E v \in reviews : v.verdict = read[r] /\ v.by = body[r].by THEN reviews
                     ELSE reviews \cup {[id |-> r, verdict |-> read[r], by |-> body[r].by,
                                        result |-> body[r].what]}),
         UNCHANGED <<verdicts, decisions, history>>
  PROVE  /\ Tables' /\ Grows
         /\ reviews' \subseteq Review
         /\ \E v \in reviews' : v.verdict = read[r] /\ v.by = body[r].by
<1>0. TypeOK /\ Tables /\ Promises(r)
  BY DEF IInv
<1>1. r \in Auditors /\ read[r] \in Nat /\ body[r] \in Body
  BY <1>0 DEF Promises, TypeOK
<1> DEFINE new == [id |-> r, verdict |-> read[r], by |-> body[r].by, result |-> body[r].what]
<1>2. new \in Review
  <2>1. body[r].by \in Names \cup {""} /\ body[r].what \in Words \cup {""}
    BY <1>1 DEF Body
  <2> QED BY <1>1, <2>1 DEF Review
<1>3. new.verdict = read[r] /\ new.by = body[r].by
  OBVIOUS
<1> HIDE DEF new
<1>4. /\ reviews \subseteq reviews' /\ reviews' \subseteq Review
      /\ \E v \in reviews' : v.verdict = read[r] /\ v.by = body[r].by
  <2>1. CASE \E v \in reviews : v.verdict = read[r] /\ v.by = body[r].by
    BY <2>1, <1>0 DEF TypeOK
  <2>2. CASE ~\E v \in reviews : v.verdict = read[r] /\ v.by = body[r].by
    <3>1. reviews' = reviews \cup {new}
      BY <2>2 DEF new
    <3> QED BY <3>1, <1>0, <1>2, <1>3 DEF TypeOK
  <2> QED BY <2>1, <2>2
<1>9. Grows
  BY <1>0, <1>4 DEF Grows, Extends, TypeOK
<1>5. OfAVerdict' /\ SecondDecisionWasBlind' /\ DeparturesExplained'
  BY <1>0 DEF Tables, OfAVerdict, SecondDecisionWasBlind, DeparturesExplained
<1>6. ChainedActsStored'
  BY <1>0, <1>4 DEF Tables, ChainedActsStored
<1> QED BY <1>4, <1>5, <1>6, <1>9 DEF Tables

(* An entry in the history: what it tells is stored already. *)
LEMMA EventAdded ==
  ASSUME IInv, NEW r \in Requests, pc[r] = "append",
         history' = Append(history,
           [action |-> IF r \in Deciders THEN "decision.recorded" ELSE "audit.recorded",
            verdict |-> read[r], by |-> body[r].by, what |-> body[r].what]),
         UNCHANGED <<verdicts, decisions, reviews>>
  PROVE  Tables' /\ Grows /\ history' \in Seq(Event)
<1> DEFINE e == [action |-> IF r \in Deciders THEN "decision.recorded" ELSE "audit.recorded",
                 verdict |-> read[r], by |-> body[r].by, what |-> body[r].what]
<1>0. TypeOK /\ Tables /\ Promises(r)
  BY DEF IInv
<1>1. read[r] \in Nat /\ body[r] \in Body
  BY <1>0 DEF TypeOK
<1>2. e \in Event
  BY <1>1 DEF Event, Body
<1>3. history' = Append(history, e)
  OBVIOUS
<1>4. /\ e.action = (IF r \in Deciders THEN "decision.recorded" ELSE "audit.recorded")
      /\ e.verdict = read[r] /\ e.by = body[r].by /\ e.what = body[r].what
  OBVIOUS
<1> HIDE DEF e
<1>5. history \in Seq(Event) /\ Len(history) \in Nat
  BY <1>0 DEF TypeOK
<1>6. /\ history' \in Seq(Event)
      /\ Len(history') = Len(history) + 1
      /\ \A i \in 1..Len(history) : history'[i] = history[i]
      /\ history'[Len(history) + 1] = e
  BY <1>2, <1>3, <1>5, AppendProperties
<1>7. Grows
  BY <1>0 DEF Grows, Extends, TypeOK
<1>8. OfAVerdict' /\ SecondDecisionWasBlind' /\ DeparturesExplained'
  BY <1>0 DEF Tables, OfAVerdict, SecondDecisionWasBlind, DeparturesExplained
<1>9. ChainedActsStored'
  <2> SUFFICES ASSUME NEW n \in 1..Len(history')
               PROVE  IF history'[n].action = "decision.recorded"
                      THEN \E m \in DOMAIN decisions :
                             decisions[m].verdict = history'[n].verdict
                               /\ decisions[m].by = history'[n].by
                               /\ decisions[m].what = history'[n].what
                      ELSE \E v \in reviews :
                             v.verdict = history'[n].verdict /\ v.by = history'[n].by
    BY <1>5, <1>6 DEF ChainedActsStored
  <2>1. CASE n \in 1..Len(history)
    BY <2>1, <1>0, <1>5, <1>6 DEF Tables, ChainedActsStored
  <2>2. CASE n = Len(history) + 1
    <3>1. Stored(r) /\ DOMAIN decisions = 1..Len(decisions)
      BY <1>0 DEF Promises, TypeOK
    <3>2. CASE r \in Deciders
      BY <3>1, <3>2, <2>2, <1>4, <1>6 DEF Stored
    <3>3. CASE r \notin Deciders
      BY <3>1, <3>3, <2>2, <1>4, <1>6 DEF Stored
    <3> QED BY <3>2, <3>3
  <2> QED BY <2>1, <2>2, <1>5, <1>6
<1> QED BY <1>6, <1>7, <1>8, <1>9 DEF Tables

(* A verdict arrives. *)
LEMMA Judged ==
  ASSUME IInv, Judge
  PROVE  IInv'
<1>0. TypeOK /\ Tables
  BY DEF IInv
<1>1. PICK o \in Outcomes : verdicts' = Append(verdicts, o)
  BY RecordAssumption DEF Judge, RecordAssumption
<1>2. verdicts \in Seq(Outcomes) /\ Len(verdicts) \in Nat
  BY <1>0 DEF TypeOK
<1>3. /\ verdicts' \in Seq(Outcomes)
      /\ Len(verdicts') = Len(verdicts) + 1
      /\ \A i \in 1..Len(verdicts) : verdicts'[i] = verdicts[i]
  BY <1>1, <1>2, AppendProperties
<1>4. UNCHANGED <<decisions, reviews, history, pc, read, body, seen, faults>>
  BY DEF Judge, locals
<1>5. TypeOK'
  BY <1>0, <1>3, <1>4 DEF TypeOK
<1>6. Grows
  BY <1>0, <1>2, <1>3, <1>4 DEF Grows, Extends, TypeOK
<1>7. DOMAIN decisions = 1..Len(decisions)
  BY <1>0 DEF TypeOK
<1>8. Tables'
  <2>1. OfAVerdict'
    BY <1>0, <1>2, <1>3, <1>4 DEF Tables, OfAVerdict
  <2>2. SecondDecisionWasBlind' /\ ChainedActsStored'
    BY <1>0, <1>4 DEF Tables, SecondDecisionWasBlind, ChainedActsStored
  <2>3. DeparturesExplained'
    BY <1>0, <1>3, <1>4, <1>7 DEF Tables, OfAVerdict, DeparturesExplained
  <2> QED BY <2>1, <2>2, <2>3 DEF Tables
<1>9. ASSUME NEW r \in Requests PROVE Promises(r)'
  BY <1>0, <1>4, <1>5, <1>6, OthersKeep DEF IInv, Tables
<1> QED BY <1>5, <1>8, <1>9 DEF IInv

(* The tables' part of the type invariant. *)
TablesTyped ==
  /\ verdicts \in Seq(Outcomes) /\ decisions \in Seq(Decision)
  /\ reviews \subseteq Review /\ history \in Seq(Event)

(* What every call does to the tables, whether the request goes on or ends. *)
Sound == Tables' /\ Grows /\ TablesTyped'

LEMMA NothingDone ==
  ASSUME IInv, UNCHANGED stores
  PROVE  Sound
<1>1. TypeOK /\ Tables
  BY DEF IInv
<1>2. Tables' /\ Grows
  BY <1>1, SameTables
<1>3. TablesTyped'
  BY <1>1 DEF TablesTyped, TypeOK, stores
<1> QED BY <1>2, <1>3 DEF Sound

(* A call that throws ends the request. *)
LEMMA Thrown ==
  ASSUME IInv, NEW r \in Requests, Sound, faults' \in Nat, Ends(r)
  PROVE  IInv'
<1>0. TypeOK
  BY DEF IInv
<1>1. verdicts' \in Seq(Outcomes)
  BY DEF Sound, TablesTyped
<1>2. /\ pc' \in [Requests -> Steps] /\ read' \in [Requests -> Nat]
      /\ body' \in [Requests -> Body] /\ seen' \in [Requests -> Nat]
      /\ Promises(r)'
      /\ \A q \in Requests \ {r} : /\ pc'[q] = pc[q] /\ read'[q] = read[q]
                                  /\ body'[q] = body[q] /\ seen'[q] = seen[q]
  BY <1>0, <1>1, Ended
<1>3. TypeOK'
  BY <1>2 DEF Sound, TablesTyped, TypeOK
<1> QED BY <1>2, <1>3, OneMoves DEF Sound

(* A request that goes on, with what its locals then promise. *)
LEMMA Goes ==
  ASSUME IInv, NEW r \in Requests, Sound, faults' \in Nat,
         NEW step \in Steps, pc' = [pc EXCEPT ![r] = step],
         NEW n \in Nat, read' = [read EXCEPT ![r] = n],
         NEW b \in Body, body' = [body EXCEPT ![r] = b],
         NEW k \in Nat, seen' = [seen EXCEPT ![r] = k],
         Promises(r)'
  PROVE  IInv'
<1>0. TypeOK
  BY DEF IInv
<1>1. TypeOK'
  <2>1. /\ pc' \in [Requests -> Steps] /\ read' \in [Requests -> Nat]
        /\ body' \in [Requests -> Body] /\ seen' \in [Requests -> Nat]
    BY <1>0 DEF TypeOK
  <2> QED BY <2>1 DEF Sound, TablesTyped, TypeOK
<1>2. \A q \in Requests \ {r} : /\ pc'[q] = pc[q] /\ read'[q] = read[q]
                               /\ body'[q] = body[q] /\ seen'[q] = seen[q]
  BY <1>0 DEF TypeOK
<1> QED BY <1>1, <1>2, OneMoves DEF Sound

(* What is left alone, seen as an update of one request's local by itself. *)
LEMMA Same ==
  ASSUME TypeOK, NEW r \in Requests
  PROVE  /\ read = [read EXCEPT ![r] = read[r]] /\ read[r] \in Nat
         /\ body = [body EXCEPT ![r] = body[r]] /\ body[r] \in Body
         /\ seen = [seen EXCEPT ![r] = seen[r]] /\ seen[r] \in Nat
  BY DEF TypeOK

(* The two endings of a call, from what it does to the tables. *)
LEMMA Called ==
  ASSUME IInv, NEW r \in Requests, NEW effect, NEW next, Calls(r, effect, next),
         effect => Sound, effect /\ next /\ UNCHANGED faults => IInv'
  PROVE  IInv'
<1>0. faults \in Nat
  BY DEF IInv, TypeOK
<1>1. CASE effect /\ next /\ UNCHANGED faults
  BY <1>1
<1>2. CASE /\ faults' = faults + 1 /\ (effect \/ UNCHANGED stores) /\ Ends(r)
  <2>1. Sound
    BY <1>2, NothingDone
  <2>2. faults' \in Nat
    BY <1>0, <1>2
  <2> QED BY <1>2, <2>1, <2>2, Thrown
<1> QED BY <1>1, <1>2 DEF Calls

(* A request that goes on without touching a table, to a step at which nothing but the      *)
(* verdict it read is promised.                                                             *)
LEMMA Begins ==
  ASSUME IInv, NEW r \in Requests, NEW step \in {"load", "over", "recorded"}, NEW b \in Body,
         pc' = [pc EXCEPT ![r] = step], body' = [body EXCEPT ![r] = b],
         UNCHANGED <<read, seen>>, Sound, faults' \in Nat
  PROVE  IInv'
<1>0. TypeOK /\ Promises(r)
  BY DEF IInv
<1>1. /\ read = [read EXCEPT ![r] = read[r]] /\ read[r] \in Nat
      /\ seen = [seen EXCEPT ![r] = seen[r]] /\ seen[r] \in Nat
  BY <1>0, Same
<1>2. pc'[r] = step /\ read'[r] = read[r] /\ step \in Steps
  BY <1>0 DEF TypeOK, Steps
<1>3. read[r] <= Len(verdicts')
  BY <1>0, <1>1 DEF Sound, Grows, Extends, TablesTyped, TypeOK, Promises
<1>4. Promises(r)'
  BY <1>2, <1>3 DEF Promises
<1>5. read' = [read EXCEPT ![r] = read[r]] /\ seen' = [seen EXCEPT ![r] = seen[r]]
  BY <1>1
<1> QED BY <1>1, <1>2, <1>4, <1>5, Goes

LEMMA BeginStep ==
  ASSUME IInv, NEW r \in Requests, BeginDecision(r) \/ BeginAudit(r)
  PROVE  IInv'
<1>0. TypeOK
  BY DEF IInv
<1>1. UNCHANGED <<stores, read, seen, faults>>
  BY DEF BeginDecision, BeginAudit, locals
<1>2. Sound /\ faults' \in Nat
  BY <1>0, <1>1, NothingDone DEF TypeOK
<1>3. body = [body EXCEPT ![r] = body[r]] /\ body[r] \in Body
  BY <1>0, Same
<1>4. CASE BeginDecision(r)
  <2>1. pc' = [pc EXCEPT ![r] = "load"] /\ body' = [body EXCEPT ![r] = body[r]]
    BY <1>3, <1>4 DEF BeginDecision, Go, locals
  <2> QED BY <2>1, <1>1, <1>2, <1>3, Begins
<1>5. CASE BeginAudit(r)
  <2>1. PICK b \in Bodies :
          IF MayAudit(b) THEN Go(r, "load") /\ body' = [body EXCEPT ![r] = [b EXCEPT !.noted = FALSE]]
          ELSE Go(r, "over") /\ UNCHANGED body
    BY <1>5 DEF BeginAudit
  <2>2. [b EXCEPT !.noted = FALSE] \in Body
    BY DEF Bodies, Body
  <2>3. CASE MayAudit(b)
    <3>1. pc' = [pc EXCEPT ![r] = "load"] /\ body' = [body EXCEPT ![r] = [b EXCEPT !.noted = FALSE]]
      BY <2>1, <2>3 DEF Go
    <3> QED BY <3>1, <2>2, <1>1, <1>2, Begins
  <2>4. CASE ~MayAudit(b)
    <3>1. pc' = [pc EXCEPT ![r] = "over"] /\ body' = [body EXCEPT ![r] = body[r]]
      BY <2>1, <2>4, <1>3 DEF Go
    <3> QED BY <3>1, <1>1, <1>2, <1>3, Begins
  <2> QED BY <2>3, <2>4
<1> QED BY <1>4, <1>5

LEMMA ReadVerdictStep ==
  ASSUME IInv, NEW r \in Requests, ReadVerdict(r)
  PROVE  IInv'
<1> DEFINE effect == UNCHANGED stores
           next == IF verdicts = <<>> THEN Ends(r)
                   ELSE /\ read' = [read EXCEPT ![r] = Len(verdicts)]
                        /\ Go(r, IF r \in Deciders THEN "decided" ELSE "insertReview")
                        /\ UNCHANGED <<body, seen>>
<1>0. TypeOK
  BY DEF IInv
<1>1. Calls(r, effect, next)
  BY DEF ReadVerdict
<1>2. effect => Sound
  BY NothingDone
<1>3. ASSUME effect, next, UNCHANGED faults PROVE IInv'
  <2>1. Sound /\ faults' \in Nat
    BY <1>0, <1>2, <1>3 DEF TypeOK
  <2>2. CASE verdicts = <<>>
    BY <2>1, <2>2, <1>3, Thrown
  <2>3. CASE verdicts # <<>>
    <3> DEFINE step == IF r \in Deciders THEN "decided" ELSE "insertReview"
    <3>1. /\ read' = [read EXCEPT ![r] = Len(verdicts)]
          /\ pc' = [pc EXCEPT ![r] = step]
          /\ UNCHANGED <<body, seen>>
      BY <1>3, <2>3 DEF Go
    <3>2. /\ body' = [body EXCEPT ![r] = body[r]] /\ body[r] \in Body
          /\ seen' = [seen EXCEPT ![r] = seen[r]] /\ seen[r] \in Nat
      BY <3>1, <1>0, Same
    <3>3. Len(verdicts) \in Nat /\ Len(verdicts) # 0 /\ step \in Steps
      BY <1>0, <2>3, EmptySeq DEF TypeOK, Steps
    <3>4. pc'[r] = step /\ read'[r] = Len(verdicts) /\ verdicts' = verdicts
      BY <1>0, <1>3, <3>1 DEF TypeOK, stores
    <3>5. r \notin Deciders => r \in Auditors
      BY DEF Requests
    <3>6. Promises(r)'
      BY <3>3, <3>4, <3>5 DEF Promises
    <3> HIDE DEF step
    <3> QED BY <2>1, <3>1, <3>2, <3>3, <3>6, Goes
  <2> QED BY <2>2, <2>3
<1> HIDE DEF effect, next
<1> QED BY <1>1, <1>2, <1>3, Called

LEMMA CheckDecidedStep ==
  ASSUME IInv, NEW r \in Requests, CheckDecided(r)
  PROVE  IInv'
<1> DEFINE effect == UNCHANGED stores
           carry(b) == IF MayDecide(b, verdicts[read[r]])
                       THEN /\ body' = [body EXCEPT ![r] = b]
                            /\ seen' = [seen EXCEPT ![r] = Len(decisions)]
                            /\ Go(r, "insertDecision")
                            /\ UNCHANGED read
                       ELSE Ends(r)
           next == IF alreadyDecided(read[r]) THEN Ends(r) ELSE \E b \in Bodies : carry(b)
<1>0. TypeOK /\ Promises(r) /\ pc[r] = "decided"
  BY DEF IInv, CheckDecided
<1>1. Calls(r, effect, next)
  BY DEF CheckDecided
<1>2. effect => Sound
  BY NothingDone
<1>3. ASSUME effect, next, UNCHANGED faults PROVE IInv'
  <2>1. Sound /\ faults' \in Nat
    BY <1>0, <1>2, <1>3 DEF TypeOK
  <2>2. CASE Ends(r)
    BY <2>1, <2>2, Thrown
  <2>3. CASE ~alreadyDecided(read[r]) /\ ~Ends(r)
    <3>1. PICK b \in Bodies : carry(b)
      BY <1>3, <2>3
    <3>2. MayDecide(b, verdicts[read[r]])
      BY <3>1, <2>3
    <3>3. /\ body' = [body EXCEPT ![r] = b] /\ b \in Body
          /\ seen' = [seen EXCEPT ![r] = Len(decisions)] /\ Len(decisions) \in Nat
          /\ pc' = [pc EXCEPT ![r] = "insertDecision"] /\ "insertDecision" \in Steps
          /\ read' = [read EXCEPT ![r] = read[r]] /\ read[r] \in Nat
      <4>1. b \in Body /\ Len(decisions) \in Nat /\ "insertDecision" \in Steps
        <5>1. b \in Body
          BY DEF Bodies, Body
        <5>2. Len(decisions) \in Nat
          BY <1>0 DEF TypeOK
        <5> QED BY <5>1, <5>2 DEF Steps
      <4>2. read = [read EXCEPT ![r] = read[r]] /\ read[r] \in Nat
        BY <1>0, Same
      <4>3. /\ body' = [body EXCEPT ![r] = b] /\ seen' = [seen EXCEPT ![r] = Len(decisions)]
            /\ Go(r, "insertDecision") /\ UNCHANGED read
        BY <3>1, <3>2
      <4> HIDE DEF carry
      <4> QED BY <4>1, <4>2, <4>3 DEF Go
    <3>4. /\ pc'[r] = "insertDecision" /\ read'[r] = read[r] /\ body'[r] = b
          /\ seen'[r] = Len(decisions) /\ verdicts' = verdicts /\ decisions' = decisions
      BY <1>0, <1>3, <3>3 DEF TypeOK, stores
    <3>5. \A m \in 1..Len(decisions) : decisions[m].verdict # read[r]
      BY <1>0, <2>3 DEF alreadyDecided, TypeOK
    <3>6. Promises(r)'
      BY <1>0, <3>2, <3>3, <3>4, <3>5 DEF Promises
    <3> QED BY <2>1, <3>3, <3>6, Goes
  <2> QED BY <1>3, <2>2, <2>3
<1> HIDE DEF effect, next
<1> QED BY <1>1, <1>2, <1>3, Called

LEMMA InsertDecisionStep ==
  ASSUME IInv, NEW r \in Requests, InsertDecision(r)
  PROVE  IInv'
<1> DEFINE effect ==
             /\ decisions' = Append(decisions,
                  [verdict |-> read[r], by |-> body[r].by, what |-> body[r].what,
                   recommended |-> verdicts[read[r]], noted |-> body[r].noted, seen |-> seen[r]])
             /\ UNCHANGED <<verdicts, reviews, history>>
           next == Go(r, "append") /\ seen' = [seen EXCEPT ![r] = 0] /\ UNCHANGED <<read, body>>
<1>0. TypeOK /\ Promises(r) /\ pc[r] = "insertDecision"
  BY DEF IInv, InsertDecision
<1>1. Calls(r, effect, next)
  BY DEF InsertDecision
<1>2. ASSUME effect
      PROVE  /\ Sound
             /\ \E m \in 1..Len(decisions') :
                  decisions'[m].verdict = read[r] /\ decisions'[m].by = body[r].by
                    /\ decisions'[m].what = body[r].what
  <2>1. /\ Tables' /\ Grows /\ decisions' \in Seq(Decision)
        /\ \E m \in 1..Len(decisions') :
             decisions'[m].verdict = read[r] /\ decisions'[m].by = body[r].by
               /\ decisions'[m].what = body[r].what
    BY <1>0, <1>2, DecisionAdded
  <2>2. TablesTyped'
    BY <1>0, <1>2, <2>1 DEF TablesTyped, TypeOK
  <2> QED BY <2>1, <2>2 DEF Sound
<1>3. ASSUME effect, next, UNCHANGED faults PROVE IInv'
  <2>1. Sound /\ faults' \in Nat /\ verdicts' = verdicts
    BY <1>0, <1>2, <1>3 DEF TypeOK
  <2>2. /\ pc' = [pc EXCEPT ![r] = "append"] /\ "append" \in Steps
        /\ seen' = [seen EXCEPT ![r] = 0]
        /\ read' = [read EXCEPT ![r] = read[r]] /\ read[r] \in Nat
        /\ body' = [body EXCEPT ![r] = body[r]] /\ body[r] \in Body
    BY <1>0, <1>3, Same DEF Go, Steps
  <2>3. pc'[r] = "append" /\ read'[r] = read[r] /\ body'[r] = body[r]
    BY <1>0, <2>2 DEF TypeOK
  <2>4. r \in Deciders /\ read[r] # 0 /\ read[r] <= Len(verdicts)
    BY <1>0 DEF Promises
  <2>5. Stored(r)'
    BY <1>2, <1>3, <2>3, <2>4 DEF Stored
  <2>6. Promises(r)'
    BY <2>1, <2>3, <2>4, <2>5 DEF Promises
  <2> QED BY <2>1, <2>2, <2>6, Goes
<1>4. effect => Sound
  BY <1>2
<1> HIDE DEF effect, next
<1> QED BY <1>1, <1>3, <1>4, Called

LEMMA InsertReviewStep ==
  ASSUME IInv, NEW r \in Requests, InsertReview(r)
  PROVE  IInv'
<1> DEFINE effect ==
             /\ reviews' =
                  (IF \E v \in reviews : v.verdict = read[r] /\ v.by = body[r].by THEN reviews
                   ELSE reviews \cup {[id |-> r, verdict |-> read[r], by |-> body[r].by,
                                       result |-> body[r].what]})
             /\ UNCHANGED <<verdicts, decisions, history>>
           next == Go(r, "append") /\ UNCHANGED locals
<1>0. TypeOK /\ Promises(r) /\ pc[r] = "insertReview"
  BY DEF IInv, InsertReview
<1>1. Calls(r, effect, next)
  BY DEF InsertReview
<1>2. ASSUME effect
      PROVE  Sound /\ \E v \in reviews' : v.verdict = read[r] /\ v.by = body[r].by
  <2>1. /\ Tables' /\ Grows /\ reviews' \subseteq Review
        /\ \E v \in reviews' : v.verdict = read[r] /\ v.by = body[r].by
    BY <1>0, <1>2, ReviewAdded
  <2>2. TablesTyped'
    BY <1>0, <1>2, <2>1 DEF TablesTyped, TypeOK
  <2> QED BY <2>1, <2>2 DEF Sound
<1>3. ASSUME effect, next, UNCHANGED faults PROVE IInv'
  <2>1. Sound /\ faults' \in Nat /\ verdicts' = verdicts /\ decisions' = decisions
    BY <1>0, <1>2, <1>3 DEF TypeOK
  <2>2. /\ pc' = [pc EXCEPT ![r] = "append"] /\ "append" \in Steps
        /\ seen' = [seen EXCEPT ![r] = seen[r]] /\ seen[r] \in Nat
        /\ read' = [read EXCEPT ![r] = read[r]] /\ read[r] \in Nat
        /\ body' = [body EXCEPT ![r] = body[r]] /\ body[r] \in Body
    BY <1>0, <1>3, Same DEF Go, Steps, locals
  <2>3. pc'[r] = "append" /\ read'[r] = read[r] /\ body'[r] = body[r]
    BY <1>0, <2>2 DEF TypeOK
  <2>4. r \notin Deciders /\ read[r] # 0 /\ read[r] <= Len(verdicts)
    BY <1>0, RecordAssumption DEF Promises, RecordAssumption
  <2>5. Stored(r)'
    BY <1>2, <1>3, <2>3, <2>4 DEF Stored
  <2>6. Promises(r)'
    BY <2>1, <2>3, <2>4, <2>5 DEF Promises
  <2> QED BY <2>1, <2>2, <2>6, Goes
<1>4. effect => Sound
  BY <1>2
<1> HIDE DEF effect, next
<1> QED BY <1>1, <1>3, <1>4, Called

(* The answer to a request: of what it carries, only what an audit's answer names is kept.  *)
LEMMA Answered ==
  ASSUME IInv, NEW r \in Requests, Sound, faults' \in Nat,
         IF r \in Deciders THEN Ends(r) ELSE Go(r, "recorded") /\ UNCHANGED locals
  PROVE  IInv'
<1>1. CASE r \in Deciders
  BY <1>1, Thrown
<1>2. CASE r \notin Deciders
  <2>1. pc' = [pc EXCEPT ![r] = "recorded"] /\ UNCHANGED <<read, seen, body>>
    BY <1>2 DEF Go, locals
  <2>2. body' = [body EXCEPT ![r] = body[r]] /\ body[r] \in Body
    BY <2>1, Same DEF IInv
  <2> QED BY <2>1, <2>2, Begins
<1> QED BY <1>1, <1>2

LEMMA AppendEventStep ==
  ASSUME IInv, NEW r \in Requests, AppendEvent(r)
  PROVE  IInv'
<1> DEFINE effect ==
             /\ history' = Append(history,
                  [action |-> IF r \in Deciders THEN "decision.recorded" ELSE "audit.recorded",
                   verdict |-> read[r], by |-> body[r].by, what |-> body[r].what])
             /\ UNCHANGED <<verdicts, decisions, reviews>>
           next == IF r \in Deciders THEN Ends(r) ELSE Go(r, "recorded") /\ UNCHANGED locals
<1>0. TypeOK /\ pc[r] = "append"
  BY DEF IInv, AppendEvent
<1>1. \/ Calls(r, effect, next)
      \/ faults' = faults + 1 /\ next /\ UNCHANGED stores
  BY DEF AppendEvent
<1>2. ASSUME effect PROVE Sound
  <2>1. Tables' /\ Grows /\ history' \in Seq(Event)
    BY <1>0, <1>2, EventAdded
  <2>2. TablesTyped'
    BY <1>0, <1>2, <2>1 DEF TablesTyped, TypeOK
  <2> QED BY <2>1, <2>2 DEF Sound
<1>3. ASSUME effect, next, UNCHANGED faults PROVE IInv'
  <2>1. faults' \in Nat
    BY <1>0, <1>3 DEF TypeOK
  <2> QED BY <1>2, <1>3, <2>1, Answered
<1>4. CASE faults' = faults + 1 /\ next /\ UNCHANGED stores
  <2>1. Sound /\ faults' \in Nat
    BY <1>0, <1>4, NothingDone DEF TypeOK
  <2> QED BY <1>4, <2>1, Answered
<1>5. effect => Sound
  BY <1>2
<1> HIDE DEF effect, next
<1>6. CASE Calls(r, effect, next)
  BY <1>3, <1>5, <1>6, Called
<1> QED BY <1>1, <1>4, <1>6

(* A step that leaves the tables and the requests alone. *)
LEMMA Idle ==
  ASSUME IInv, UNCHANGED <<stores, pc, locals, faults>>
  PROVE  IInv'
<1>0. TypeOK /\ Tables
  BY DEF IInv
<1>1. Tables' /\ Grows
  BY <1>0, SameTables
<1>2. TypeOK'
  BY <1>0 DEF TypeOK, stores, locals
<1>3. ASSUME NEW r \in Requests PROVE Promises(r)'
  BY <1>0, <1>1, <1>2, OthersKeep DEF IInv, Tables, locals
<1> QED BY <1>1, <1>2, <1>3 DEF IInv

LEMMA StepInv == IInv /\ [Next]_vars => IInv'
<1> SUFFICES ASSUME IInv, [Next]_vars PROVE IInv'
  OBVIOUS
<1>1. CASE Judge
  BY <1>1, Judged
<1>2. CASE Poll
  BY <1>2, Idle DEF Poll
<1>3. ASSUME NEW r \in Requests, BeginDecision(r) \/ BeginAudit(r) PROVE IInv'
  BY <1>3, BeginStep
<1>4. ASSUME NEW r \in Requests, Request(r) PROVE IInv'
  BY <1>4, ReadVerdictStep, CheckDecidedStep, InsertDecisionStep, InsertReviewStep,
     AppendEventStep DEF Request
<1>5. CASE UNCHANGED vars
  BY <1>5, Idle DEF vars
<1> QED BY <1>1, <1>2, <1>3, <1>4, <1>5 DEF Next

(* Every reachable state satisfies the inductive invariant. *)
LEMMA Invariance == Spec => []IInv
BY InitInv, StepInv, RecordAssumption, PTL DEF Spec

(* Type correctness of the tables, the history and the requests. *)
THEOREM TypeCorrect == Spec => []TypeOK
<1>1. IInv => TypeOK
  BY DEF IInv
<1> QED BY <1>1, Invariance, PTL

(* A second decision of one verdict comes only from a request that looked before the first  *)
(* was stored, whatever the number of people, verdicts and failures (alreadyDecided).       *)
THEOREM SecondWasBlind == Spec => []SecondDecisionWasBlind
<1>1. IInv => SecondDecisionWasBlind
  BY DEF IInv, Tables
<1> QED BY <1>1, Invariance, PTL

(* A stored decision carries its verdict's own recommendation, and its reason where it      *)
(* departs from it (checkDecision, recordDecision).                                         *)
THEOREM Explained == Spec => []DeparturesExplained
<1>1. IInv => DeparturesExplained
  BY DEF IInv, Tables
<1> QED BY <1>1, Invariance, PTL

(* Every chained decision and audit has its row (the INSERTs come before the appends).      *)
THEOREM ActsStored == Spec => []ChainedActsStored
<1>1. IInv => ChainedActsStored
  BY DEF IInv, Tables
<1> QED BY <1>1, Invariance, PTL

-----------------------------------------------------------------------------
(* What an auditor was told. *)

(* The two ways an audit may have been concluded. *)
Concluded(r) ==
  \/ \E v \in reviews : v.id = r /\ v.verdict = read[r] /\ v.result = body[r].what
  \/ \E v \in reviews : v.id # r /\ v.verdict = read[r] /\ v.by = body[r].by

(* Before its INSERT an audit has no row; after it, what it was asked to store is there.    *)
Asking(r) ==
  /\ pc[r] \in {"idle", "load", "insertReview"} => \A v \in reviews : v.id # r
  /\ pc[r] \in {"append", "recorded"} => Concluded(r)

Asked == \A r \in Auditors : Asking(r)

(* A step touches the locals of nobody but the request that takes it. *)
LEMMA RequestFrame ==
  ASSUME IInv, NEW r \in Requests, BeginDecision(r) \/ BeginAudit(r) \/ Request(r)
  PROVE  \A q \in Requests \ {r} :
           pc'[q] = pc[q] /\ read'[q] = read[q] /\ body'[q] = body[q]
<1>0. TypeOK
  BY DEF IInv
<1>1. Ends(r) => \A q \in Requests \ {r} :
        pc'[q] = pc[q] /\ read'[q] = read[q] /\ body'[q] = body[q]
  BY <1>0 DEF Ends, Go, TypeOK
<1>2. CASE BeginDecision(r) \/ BeginAudit(r)
  BY <1>0, <1>2 DEF BeginDecision, BeginAudit, Go, TypeOK, locals
<1>3. CASE ReadVerdict(r)
  BY <1>0, <1>1, <1>3 DEF ReadVerdict, Calls, Go, TypeOK
<1>4. CASE CheckDecided(r)
  <2>1. CASE Ends(r)
    BY <1>1, <2>1
  <2>2. CASE ~Ends(r)
    <3>1. PICK b \in Bodies : /\ body' = [body EXCEPT ![r] = b] /\ UNCHANGED read
                              /\ Go(r, "insertDecision")
      BY <1>4, <2>2 DEF CheckDecided, Calls
    <3> QED BY <1>0, <3>1 DEF Go, TypeOK
  <2> QED BY <2>1, <2>2
<1>5. CASE InsertDecision(r) \/ InsertReview(r)
  BY <1>0, <1>1, <1>5 DEF InsertDecision, InsertReview, Calls, Go, TypeOK, locals
<1>6. CASE AppendEvent(r)
  BY <1>0, <1>1, <1>6 DEF AppendEvent, Calls, Go, TypeOK, locals
<1> QED BY <1>2, <1>3, <1>4, <1>5, <1>6 DEF Request

(* Rows of another request change nothing for an audit that does not move. *)
LEMMA OthersAsk ==
  ASSUME NEW q \in Auditors, Asking(q), reviews \subseteq reviews',
         \A v \in reviews' : v \in reviews \/ v.id # q,
         pc'[q] = pc[q], read'[q] = read[q], body'[q] = body[q]
  PROVE  Asking(q)'
BY DEF Asking, Concluded

LEMMA AskedAfter ==
  ASSUME IInv, Asked, NEW r \in Requests, BeginDecision(r) \/ BeginAudit(r) \/ Request(r),
         reviews \subseteq reviews', \A v \in reviews' : v \in reviews \/ v.id = r,
         r \in Auditors => Asking(r)'
  PROVE  Asked'
<1> SUFFICES ASSUME NEW q \in Auditors PROVE Asking(q)'
  BY DEF Asked
<1>1. CASE q = r
  BY <1>1
<1>2. CASE q # r
  <2>1. pc'[q] = pc[q] /\ read'[q] = read[q] /\ body'[q] = body[q]
    BY <1>2, RequestFrame DEF Requests
  <2> QED BY <1>2, <2>1, OthersAsk DEF Asked
<1> QED BY <1>1, <1>2

(* A request that has ended has nothing left to ask. *)
LEMMA EndedAsks ==
  ASSUME TypeOK, NEW r \in Requests, Ends(r)
  PROVE  Asking(r)'
<1>1. pc'[r] = "over"
  BY DEF TypeOK, Ends, Go
<1> QED BY <1>1 DEF Asking

(* The INSERT of a review: either this audit's row is there, or one this person gave before.*)
LEMMA InsertReviewAsks ==
  ASSUME IInv, Asked, NEW r \in Requests, InsertReview(r)
  PROVE  Asked'
<1> DEFINE row == [id |-> r, verdict |-> read[r], by |-> body[r].by, result |-> body[r].what]
<1>0. TypeOK /\ Promises(r) /\ pc[r] = "insertReview"
  BY DEF IInv, InsertReview
<1>1. r \in Auditors /\ Asking(r)
  BY <1>0 DEF Promises, Asked
<1>2. \/ reviews' = reviews /\ \E v \in reviews : v.verdict = read[r] /\ v.by = body[r].by
      \/ reviews' = reviews \cup {row}
      \/ reviews' = reviews /\ Ends(r)
  BY DEF InsertReview, Calls, stores
<1>3. reviews \subseteq reviews' /\ \A v \in reviews' : v \in reviews \/ v.id = r
  BY <1>2
<1>4. Asking(r)'
  <2>1. CASE Ends(r)
    BY <1>0, <2>1, EndedAsks
  <2>2. CASE ~Ends(r)
    <3>1. pc'[r] = "append" /\ read'[r] = read[r] /\ body'[r] = body[r]
      BY <1>0, <2>2 DEF InsertReview, Calls, Go, locals, TypeOK
    <3>2. \A v \in reviews : v.id # r
      BY <1>0, <1>1 DEF Asking
    <3>3. CASE reviews' = reviews /\ \E v \in reviews : v.verdict = read[r] /\ v.by = body[r].by
      BY <3>1, <3>2, <3>3 DEF Asking, Concluded
    <3>4. CASE reviews' = reviews \cup {row}
      <4>1. row \in reviews' /\ row.id = r /\ row.verdict = read[r] /\ row.result = body[r].what
        BY <3>4
      <4> HIDE DEF row
      <4> QED BY <3>1, <4>1 DEF Asking, Concluded
    <3> QED BY <1>2, <2>2, <3>3, <3>4
  <2> QED BY <2>1, <2>2
<1> HIDE DEF row
<1> QED BY <1>3, <1>4, AskedAfter DEF Request

LEMMA AskedStep ==
  ASSUME IInv, Asked, [Next]_vars PROVE Asked'
<1>0. TypeOK
  BY DEF IInv
<1>1. CASE Judge \/ Poll \/ UNCHANGED vars
  <2>1. pc' = pc /\ read' = read /\ body' = body /\ reviews' = reviews
    BY <1>1 DEF Judge, Poll, vars, stores, locals
  <2> QED BY <2>1 DEF Asked, Asking, Concluded
<1>2. ASSUME NEW r \in Requests, InsertReview(r) PROVE Asked'
  BY <1>2, InsertReviewAsks
<1>3. ASSUME NEW r \in Requests,
             \/ BeginDecision(r) \/ BeginAudit(r) \/ ReadVerdict(r)
             \/ CheckDecided(r) \/ InsertDecision(r) \/ AppendEvent(r)
      PROVE  Asked'
  <2>1. reviews' = reviews
    BY <1>3 DEF BeginDecision, BeginAudit, ReadVerdict, CheckDecided, InsertDecision, AppendEvent,
                Calls, stores
  <2>2. ASSUME r \in Auditors, ~Ends(r) PROVE Asking(r)'
    <3>1. r \notin Deciders /\ Promises(r) /\ Asking(r)
      BY <2>2, RecordAssumption DEF RecordAssumption, IInv, Asked
    <3>2. CASE BeginDecision(r) \/ CheckDecided(r) \/ InsertDecision(r)
      BY <3>1, <3>2 DEF BeginDecision, CheckDecided, InsertDecision, Promises
    <3>3. CASE BeginAudit(r)
      BY <1>0, <2>1, <3>1, <3>3 DEF BeginAudit, Go, TypeOK, Asking
    <3>4. CASE ReadVerdict(r)
      BY <1>0, <2>1, <2>2, <3>1, <3>4 DEF ReadVerdict, Calls, Go, TypeOK, Asking
    <3>5. CASE AppendEvent(r)
      <4>1. pc[r] = "append" /\ pc'[r] = "recorded" /\ read'[r] = read[r] /\ body'[r] = body[r]
        BY <1>0, <2>2, <3>1, <3>5 DEF AppendEvent, Calls, Go, TypeOK, locals
      <4> QED BY <2>1, <3>1, <4>1 DEF Asking, Concluded
    <3> QED BY <1>3, <3>2, <3>3, <3>4, <3>5
  <2>3. r \in Auditors => Asking(r)'
    BY <1>0, <2>2, EndedAsks
  <2> QED BY <1>3, <2>1, <2>3, AskedAfter DEF Request
<1> QED BY <1>1, <1>2, <1>3 DEF Next, Request

(* An audit that was answered is stored under its own id, or this person had concluded on   *)
(* that verdict before (the audit route's ON CONFLICT DO NOTHING).                          *)
THEOREM AnswersStored == Spec => []AnsweredAuditStored
<1>1. Init => Asked
  BY DEF Init, Asked, Asking, Requests
<1>2. IInv /\ Asked /\ [Next]_vars => Asked'
  BY AskedStep
<1>3. Asked => AnsweredAuditStored
  BY DEF Asked, Asking, Concluded, AnsweredAuditStored
<1> QED BY <1>1, <1>2, <1>3, Invariance, PTL DEF Spec

-----------------------------------------------------------------------------
(* Rows in order: there is one way to list a finite set of numbers upwards, and InOrder is  *)
(* it.  A row's place in the list is its rank in the set.                                   *)

Rank(S, n) == Cardinality({m \in S : m <= n})

Lists(rows, S) ==
  /\ rows \in Seq(S)
  /\ \A i, j \in 1..Len(rows) : i < j => rows[i] < rows[j]
  /\ \A n \in S : \E i \in 1..Len(rows) : rows[i] = n

LEMMA RankBounds ==
  ASSUME NEW S \in SUBSET Nat, IsFiniteSet(S), NEW n \in S
  PROVE  Cardinality(S) \in Nat /\ Rank(S, n) \in 1..Cardinality(S)
<1> DEFINE A == {m \in S : m <= n}
<1>1. Cardinality(S) \in Nat
  BY FS_CardinalityType
<1>2. IsFiniteSet(A) /\ Cardinality(A) <= Cardinality(S)
  BY FS_Subset
<1>3. Cardinality(A) \in Nat
  BY <1>2, FS_CardinalityType
<1>4. n \in A
  OBVIOUS
<1> HIDE DEF A
<1>5. Cardinality(A) # 0
  BY <1>2, <1>4, FS_EmptySet
<1> QED BY <1>1, <1>2, <1>3, <1>5 DEF Rank, A

LEMMA RankGrows ==
  ASSUME NEW S \in SUBSET Nat, IsFiniteSet(S), NEW m \in S, NEW n \in S, m < n
  PROVE  Rank(S, m) < Rank(S, n)
<1> DEFINE A == {k \in S : k <= m}
           B == {k \in S : k <= n}
<1>0. m \in Nat /\ n \in Nat
  OBVIOUS
<1>1. IsFiniteSet(B)
  BY FS_Subset
<1>2. A \in SUBSET B /\ n \in B /\ n \notin A
  <2>1. \A k \in S : k \in Nat
    OBVIOUS
  <2>2. ASSUME NEW k \in A PROVE k \in B
    <3>1. k \in S /\ k \in Nat /\ k <= m
      BY <2>1
    <3>2. k <= n
      BY <1>0, <3>1
    <3> QED BY <3>1, <3>2
  <2>3. n \in B /\ n \notin A
    BY <1>0
  <2> HIDE DEF A, B
  <2> QED BY <2>2, <2>3
<1> HIDE DEF A, B
<1>3. Cardinality(A) <= Cardinality(B) /\ IsFiniteSet(A) /\ Cardinality(B) # Cardinality(A)
  BY <1>1, <1>2, FS_Subset
<1>4. Cardinality(A) \in Nat /\ Cardinality(B) \in Nat
  BY <1>1, <1>3, FS_CardinalityType
<1> QED BY <1>3, <1>4 DEF Rank, A, B

LEMMA InOrderLists ==
  ASSUME NEW S \in SUBSET Nat, IsFiniteSet(S)
  PROVE  Lists(InOrder(S), S)
<1> DEFINE c == Cardinality(S)
           rank == [n \in S |-> Rank(S, n)]
           place == [k \in 1..c |-> CHOOSE n \in S : rank[n] = k]
           Up(rows) == \A i, j \in 1..c : i < j => rows[i] < rows[j]
<1>1. c \in Nat
  BY FS_CardinalityType
<1>2. IsFiniteSet(1..c) /\ Cardinality(1..c) = c
  BY <1>1, FS_Interval
<1>3. rank \in [S -> 1..c] /\ \A m, n \in S : m < n => rank[m] < rank[n]
  BY RankBounds, RankGrows
<1>4. rank \in Injection(S, 1..c)
  <2> HIDE DEF rank
  <2>1. \A m, n \in S : rank[m] \in 1..c /\ rank[n] \in 1..c
    BY <1>3
  <2>2. \A m, n \in S : rank[m] = rank[n] => m = n
    BY <1>1, <1>3, <2>1
  <2> QED BY <1>3, <2>2 DEF Injection, IsInjective
<1>5. \A k \in 1..c : \E n \in S : rank[n] = k
  <2> HIDE DEF rank
  <2>1. rank \in Surjection(S, 1..c)
    BY <1>2, <1>4, FS_Injection
  <2> QED BY <2>1 DEF Surjection
<1>6. place \in [1..c -> S] /\ Up(place)
  <2> HIDE DEF rank
  <2>1. \A k \in 1..c : place[k] \in S /\ rank[place[k]] = k
    BY <1>5
  <2>2. place \in [1..c -> S]
    BY <2>1
  <2> HIDE DEF place
  <2>3. ASSUME NEW i \in 1..c, NEW j \in 1..c, i < j PROVE place[i] < place[j]
    <3>1. place[i] \in S /\ place[j] \in S /\ rank[place[i]] = i /\ rank[place[j]] = j
      BY <2>1
    <3>2. place[i] \in Nat /\ place[j] \in Nat /\ i \in Nat /\ j \in Nat
      <4>1. \A n \in S : n \in Nat
        OBVIOUS
      <4>2. i \in Nat /\ j \in Nat
        BY <1>1
      <4> QED BY <3>1, <4>1, <4>2
    <3>3. ~(place[j] < place[i]) /\ place[i] # place[j]
      BY <1>3, <2>3, <3>1, <3>2
    <3> QED BY <3>2, <3>3
  <2> QED BY <2>2, <2>3
<1>7. InOrder(S) \in [1..c -> S] /\ Up(InOrder(S))
  <2> HIDE DEF place
  <2> QED BY <1>6 DEF InOrder
<1> HIDE DEF rank, place
<1>8. PICK rows : rows = InOrder(S)
  OBVIOUS
<1>9. rows \in Seq(S) /\ Len(rows) = c
  BY <1>1, <1>7, <1>8
<1>10. \A n \in S : \E i \in 1..c : rows[i] = n
  <2>1. ASSUME NEW i \in 1..c, NEW j \in 1..c, rows[i] = rows[j] PROVE i = j
    <3>1. rows[i] \in Nat /\ i \in Nat /\ j \in Nat
      <4>1. \A n \in S : n \in Nat
        OBVIOUS
      <4>2. rows[i] \in S
        BY <1>7, <1>8
      <4>3. i \in Nat /\ j \in Nat
        BY <1>1
      <4> QED BY <4>1, <4>2, <4>3
    <3>2. ~(i < j) /\ ~(j < i)
      BY <1>7, <1>8, <2>1, <3>1
    <3> QED BY <3>1, <3>2
  <2>2. rows \in Injection(1..c, S)
    BY <1>7, <1>8, <2>1 DEF Injection, IsInjective
  <2>3. rows \in Surjection(1..c, S)
    BY <1>2, <2>2, FS_Injection
  <2> QED BY <2>3 DEF Surjection
<1> QED BY <1>7, <1>8, <1>9, <1>10 DEF Lists

LEMMA PlaceIsRank ==
  ASSUME NEW S \in SUBSET Nat, IsFiniteSet(S), NEW rows, Lists(rows, S)
  PROVE  Len(rows) = Cardinality(S) /\ \A i \in 1..Len(rows) : Rank(S, rows[i]) = i
<1>1. /\ Len(rows) \in Nat
      /\ \A i \in 1..Len(rows) : rows[i] \in S /\ rows[i] \in Nat /\ i \in Nat
      /\ \A i, j \in 1..Len(rows) : i < j => rows[i] < rows[j]
      /\ \A n \in S : \E i \in 1..Len(rows) : rows[i] = n
  <2>1. \A n \in S : n \in Nat
    OBVIOUS
  <2>2. /\ rows \in Seq(S) /\ Len(rows) \in Nat
        /\ \A i, j \in 1..Len(rows) : i < j => rows[i] < rows[j]
        /\ \A n \in S : \E i \in 1..Len(rows) : rows[i] = n
    BY DEF Lists
  <2>3. ASSUME NEW i \in 1..Len(rows) PROVE rows[i] \in S /\ i \in Nat
    BY <2>2, ElementOfSeq
  <2> QED BY <2>1, <2>2, <2>3
<1>2. ASSUME NEW i \in 1..Len(rows), NEW j \in 1..Len(rows), rows[i] <= rows[j] PROVE i <= j
  <2>1. i \in Nat /\ j \in Nat /\ rows[i] \in Nat /\ rows[j] \in Nat
    BY <1>1
  <2>2. j < i => rows[j] < rows[i]
    BY <1>1
  <2> QED BY <1>2, <2>1, <2>2
<1>3. ASSUME NEW i \in 0..Len(rows), NEW A, A \subseteq S,
             \A j \in 1..i : rows[j] \in A, \A n \in A : \E j \in 1..i : rows[j] = n
      PROVE  Cardinality(A) = i
  <2> DEFINE first == [j \in 1..i |-> rows[j]]
  <2>1. first \in [1..i -> A] /\ \A j \in 1..i : first[j] = rows[j]
    BY <1>3
  <2> HIDE DEF first
  <2>2. ASSUME NEW j \in 1..i, NEW k \in 1..i, first[j] = first[k] PROVE j = k
    <3>1. j \in 1..Len(rows) /\ k \in 1..Len(rows)
      BY <1>1, <1>3
    <3>2. rows[j] = rows[k] /\ rows[j] \in Nat
      BY <1>1, <2>1, <2>2, <3>1
    <3>3. j <= k /\ k <= j
      BY <1>2, <3>1, <3>2
    <3> QED BY <3>1, <3>3
  <2>3. first \in Bijection(1..i, A)
    BY <1>3, <2>1, <2>2 DEF Bijection, Injection, Surjection, IsInjective
  <2>4. ExistsBijection(1..i, A)
    BY <2>3 DEF ExistsBijection
  <2> QED BY <2>4, FS_CountingElements
<1>4. Len(rows) = Cardinality(S)
  <2>1. PICK n \in 0..Len(rows) : n = Len(rows)
    BY <1>1
  <2>2. /\ S \subseteq S /\ \A j \in 1..n : rows[j] \in S
        /\ \A m \in S : \E j \in 1..n : rows[j] = m
    BY <1>1, <2>1
  <2>3. Cardinality(S) = n
    BY <1>3, <2>2
  <2> QED BY <2>1, <2>3
<1>5. ASSUME NEW i \in 1..Len(rows) PROVE Rank(S, rows[i]) = i
  <2>1. PICK A : A = {m \in S : m <= rows[i]}
    OBVIOUS
  <2>2. ASSUME NEW j \in 1..i PROVE rows[j] \in A
    <3>1. j \in 1..Len(rows) /\ (j = i \/ j < i)
      BY <1>1
    <3>2. rows[j] \in S /\ rows[j] \in Nat /\ rows[i] \in Nat /\ (j < i => rows[j] < rows[i])
      BY <1>1, <3>1
    <3>3. rows[j] <= rows[i]
      BY <3>1, <3>2
    <3> QED BY <2>1, <3>2, <3>3
  <2>3. ASSUME NEW n \in A PROVE \E j \in 1..i : rows[j] = n
    <3>1. PICK j \in 1..Len(rows) : rows[j] = n /\ n <= rows[i]
      BY <1>1, <2>1
    <3>2. j <= i
      BY <1>2, <3>1
    <3> QED BY <1>1, <3>1, <3>2
  <2>4. i \in 0..Len(rows) /\ A \subseteq S
    BY <1>1, <2>1
  <2>5. Cardinality(A) = i
    BY <1>3, <2>2, <2>3, <2>4
  <2> QED BY <2>1, <2>5 DEF Rank
<1> QED BY <1>4, <1>5

LEMMA OneList ==
  ASSUME NEW S \in SUBSET Nat, IsFiniteSet(S), NEW s, NEW t, Lists(s, S), Lists(t, S)
  PROVE  s = t
<1>1. s \in Seq(S) /\ t \in Seq(S) /\ Len(s) = Len(t)
  BY PlaceIsRank DEF Lists
<1>2. ASSUME NEW i \in 1..Len(s) PROVE s[i] = t[i]
  <2>1. s[i] \in S /\ t[i] \in S /\ Rank(S, s[i]) = i /\ Rank(S, t[i]) = i
    BY <1>1, PlaceIsRank
  <2>2. s[i] \in Nat /\ t[i] \in Nat /\ i \in Nat
    <3>1. \A n \in S : n \in Nat
      OBVIOUS
    <3>2. Len(s) \in Nat /\ i \in Nat
      BY <1>1
    <3> QED BY <2>1, <3>1, <3>2
  <2>3. ~(s[i] < t[i])
    <3> SUFFICES ASSUME s[i] < t[i] PROVE FALSE
      OBVIOUS
    <3>1. Rank(S, s[i]) < Rank(S, t[i])
      BY <2>1, RankGrows
    <3> QED BY <2>1, <2>2, <3>1
  <2>4. ~(t[i] < s[i])
    <3> SUFFICES ASSUME t[i] < s[i] PROVE FALSE
      OBVIOUS
    <3>1. Rank(S, t[i]) < Rank(S, s[i])
      BY <2>1, RankGrows
    <3> QED BY <2>1, <2>2, <3>1
  <2> QED BY <2>2, <2>3, <2>4
<1> QED BY <1>1, <1>2, SeqEqual

LEMMA Joined ==
  ASSUME NEW S \in SUBSET Nat, NEW T \in SUBSET Nat, NEW s, NEW t, Lists(s, S), Lists(t, T),
         \A m \in S, n \in T : m < n
  PROVE  Lists(s \o t, S \cup T)
<1> DEFINE U == S \cup T
<1>1. s \in Seq(U) /\ t \in Seq(U)
  BY DEF Lists
<1>2. Len(s) \in Nat /\ Len(t) \in Nat
  BY <1>1
<1>3. PICK r : r = s \o t
  OBVIOUS
<1>4. /\ r \in Seq(U) /\ Len(r) = Len(s) + Len(t)
      /\ \A i \in 1..Len(s) + Len(t) : r[i] = IF i <= Len(s) THEN s[i] ELSE t[i - Len(s)]
  BY <1>1, <1>3, ConcatProperties
<1>5. ASSUME NEW i \in 1..Len(r), NEW j \in 1..Len(r), i < j PROVE r[i] < r[j]
  <2>1. CASE j <= Len(s)
    <3>1. i \in 1..Len(s) /\ j \in 1..Len(s) /\ r[i] = s[i] /\ r[j] = s[j]
      BY <1>2, <1>4, <1>5, <2>1
    <3> QED BY <1>5, <3>1 DEF Lists
  <2>2. CASE i > Len(s)
    <3>1. /\ i - Len(s) \in 1..Len(t) /\ j - Len(s) \in 1..Len(t) /\ i - Len(s) < j - Len(s)
          /\ r[i] = t[i - Len(s)] /\ r[j] = t[j - Len(s)]
      BY <1>2, <1>4, <1>5, <2>2
    <3> QED BY <3>1 DEF Lists
  <2>3. CASE i <= Len(s) /\ j > Len(s)
    <3>1. /\ i \in 1..Len(s) /\ j - Len(s) \in 1..Len(t)
          /\ r[i] = s[i] /\ r[j] = t[j - Len(s)]
      BY <1>2, <1>4, <1>5, <2>3
    <3>2. s[i] \in S /\ t[j - Len(s)] \in T
      BY <3>1, ElementOfSeq DEF Lists
    <3> QED BY <3>1, <3>2
  <2> QED BY <1>2, <1>4, <2>1, <2>2, <2>3
<1>6. ASSUME NEW n \in U PROVE \E i \in 1..Len(r) : r[i] = n
  <2>1. CASE n \in S
    <3>1. PICK i \in 1..Len(s) : s[i] = n
      BY <2>1 DEF Lists
    <3>2. i \in 1..Len(r) /\ r[i] = n
      BY <1>2, <1>4, <3>1
    <3> QED BY <3>2
  <2>2. CASE n \in T
    <3>1. PICK i \in 1..Len(t) : t[i] = n
      BY <2>2 DEF Lists
    <3>2. PICK k : k = Len(s) + i
      OBVIOUS
    <3>3. k \in 1..Len(r) /\ ~(k <= Len(s)) /\ k - Len(s) = i
      BY <1>2, <1>4, <3>2
    <3>4. r[k] = n
      BY <1>4, <3>1, <3>3
    <3> QED BY <3>3, <3>4
  <2> QED BY <2>1, <2>2
<1> QED BY <1>3, <1>4, <1>5, <1>6 DEF Lists

LEMMA FirstRows ==
  ASSUME NEW S \in SUBSET Nat, NEW rows, Lists(rows, S), NEW k \in 1..Len(rows)
  PROVE  /\ Lists(SubSeq(rows, 1, k), {n \in S : n <= rows[k]})
         /\ Len(SubSeq(rows, 1, k)) = k /\ SubSeq(rows, 1, k)[k] = rows[k]
<1>0. \A n \in S : n \in Nat
  OBVIOUS
<1>1. /\ rows \in Seq(S) /\ Len(rows) \in Nat
      /\ \A i, j \in 1..Len(rows) : i < j => rows[i] < rows[j]
      /\ \A n \in S : \E i \in 1..Len(rows) : rows[i] = n
  BY DEF Lists
<1>2. \A i \in 1..Len(rows) : rows[i] \in S
  BY <1>1, ElementOfSeq
<1>3. \A i \in 1..Len(rows) : rows[i] \in Nat
  BY <1>0, <1>2
<1>4. k \in Nat /\ k <= Len(rows) /\ 1 <= k
  BY <1>1
<1>5. PICK A : A = {n \in S : n <= rows[k]}
  OBVIOUS
<1>6. PICK page : page = SubSeq(rows, 1, k)
  OBVIOUS
<1>7. ASSUME NEW i \in 1..k PROVE rows[i] \in A /\ i \in 1..Len(rows)
  <2>1. i \in 1..Len(rows) /\ (i = k \/ i < k)
    BY <1>4
  <2>2. rows[i] \in Nat /\ rows[k] \in Nat /\ (i < k => rows[i] < rows[k])
    BY <1>1, <1>3, <2>1
  <2>3. rows[i] <= rows[k]
    BY <2>1, <2>2
  <2> QED BY <1>2, <1>5, <2>1, <2>3
<1>8. page \in Seq(A) /\ Len(page) = k /\ \A i \in 1..k : page[i] = rows[i]
  <2>1. 1 \in Int /\ k \in Int
    BY <1>4
  <2>2. /\ page \in Seq(A) /\ Len(page) = (IF 1 <= k THEN k - 1 + 1 ELSE 0)
        /\ \A i \in 1..k - 1 + 1 : page[i] = rows[1 + i - 1]
    BY <1>6, <1>7, <2>1, SubSeqProperties
  <2>3. Len(page) = k
    BY <1>4, <2>2
  <2>4. ASSUME NEW i \in 1..k PROVE page[i] = rows[i]
    <3>1. i \in 1..k - 1 + 1 /\ 1 + i - 1 = i
      BY <1>4
    <3> QED BY <2>2, <3>1
  <2> QED BY <2>2, <2>3, <2>4
<1>9. \A i, j \in 1..k : i < j => page[i] < page[j]
  BY <1>1, <1>7, <1>8
<1>10. ASSUME NEW n \in A PROVE \E i \in 1..k : page[i] = n
  <2>1. PICK i \in 1..Len(rows) : rows[i] = n
    BY <1>1, <1>5
  <2>2. rows[i] \in Nat /\ rows[k] \in Nat /\ rows[i] <= rows[k] /\ i \in Nat
    BY <1>3, <1>5, <2>1
  <2>3. k < i => rows[k] < rows[i]
    BY <1>1
  <2>4. i \in 1..k
    BY <1>4, <2>2, <2>3
  <2> QED BY <1>8, <2>1, <2>4
<1>11. Lists(page, A)
  BY <1>8, <1>9, <1>10 DEF Lists
<1>12. page[k] = rows[k]
  BY <1>4, <1>8
<1> QED BY <1>5, <1>6, <1>8, <1>11, <1>12

-----------------------------------------------------------------------------
(* A consumer between two pages. *)

Decided(n) == history[n].action = "decision.recorded"
UpTo(cursor) == {n \in DOMAIN history : n <= cursor /\ Decided(n)}
Beyond(cursor) == {n \in DOMAIN history : n > cursor /\ Decided(n)}

(* What it has collected is what there is up to its cursor, which no later event precedes.  *)
Collected ==
  /\ consumer.step \in {"polling", "over"}
  /\ consumer.step = "polling" =>
       /\ consumer.after \in Nat /\ consumer.after <= Len(history)
       /\ Lists(consumer.got, UpTo(consumer.after))

LEMMA Events ==
  ASSUME TypeOK, NEW cursor \in Nat
  PROVE  /\ UpTo(cursor) \in SUBSET Nat /\ Beyond(cursor) \in SUBSET Nat
         /\ IsFiniteSet(Beyond(cursor))
         /\ \A n \in Beyond(cursor) : n \in Nat /\ n > cursor /\ n <= Len(history)
         /\ \A m \in UpTo(cursor) : m \in Nat /\ m <= cursor
<1>1. Len(history) \in Nat /\ DOMAIN history = 1..Len(history)
  BY DEF TypeOK
<1>2. IsFiniteSet(1..Len(history))
  BY <1>1, FS_Interval
<1>3. Beyond(cursor) \in SUBSET (1..Len(history)) /\ UpTo(cursor) \in SUBSET (1..Len(history))
  BY <1>1 DEF Beyond, UpTo
<1>4. IsFiniteSet(Beyond(cursor))
  BY <1>2, <1>3, FS_Subset
<1>5. ASSUME NEW n \in Beyond(cursor) PROVE n \in Nat /\ n > cursor /\ n <= Len(history)
  BY <1>1, <1>3 DEF Beyond
<1>6. ASSUME NEW m \in UpTo(cursor) PROVE m \in Nat /\ m <= cursor
  BY <1>1, <1>3 DEF UpTo
<1> QED BY <1>4, <1>5, <1>6

(* What was collected stays so while the history grows. *)
LEMMA CollectedGrows ==
  ASSUME TypeOK, TypeOK', Collected, consumer' = consumer, Extends(history, history')
  PROVE  Collected'
<1> SUFFICES ASSUME consumer.step = "polling"
             PROVE  /\ consumer.after \in Nat /\ consumer.after <= Len(history')
                    /\ Lists(consumer.got, UpTo(consumer.after)')
  BY DEF Collected
<1>1. consumer.after \in Nat /\ consumer.after <= Len(history)
  BY DEF Collected
<1>2. /\ Len(history) \in Nat /\ Len(history') \in Nat /\ Len(history) <= Len(history')
      /\ DOMAIN history = 1..Len(history) /\ DOMAIN history' = 1..Len(history')
      /\ \A i \in 1..Len(history) : history'[i] = history[i]
  BY DEF TypeOK, Extends
<1>3. UpTo(consumer.after)' = UpTo(consumer.after)
  BY <1>1, <1>2 DEF UpTo, Decided
<1> QED BY <1>1, <1>2, <1>3 DEF Collected

(* One page: the rows that come next, and the cursor after them, or all of them. *)
LEMMA PollCollects ==
  ASSUME TypeOK, Collected, Poll
  PROVE  Collected' /\ (consumer'.step = "over" => consumer'.got = Matching(0))
<1>1. PICK after, got, rows :
        /\ consumer.after = after /\ consumer.got = got /\ rows = Page(after)
        /\ consumer' = [step |-> IF nextCursor(rows) = 0 THEN "over" ELSE "polling",
                        after |-> nextCursor(rows), got |-> got \o rows]
  BY DEF Poll
<1>2. after \in Nat /\ after <= Len(history) /\ Lists(got, UpTo(after)) /\ UNCHANGED history
  BY <1>1 DEF Collected, Poll, stores
<1>3. PICK all : all = Matching(after)
  OBVIOUS
<1>4. Lists(all, Beyond(after))
  <2>1. all = InOrder(Beyond(after))
    BY <1>3 DEF Matching, Beyond, Decided
  <2> QED BY <1>2, <2>1, Events, InOrderLists
<1>5. Len(all) \in Nat /\ Limit \in Nat /\ Limit # 0
  BY <1>4, RecordAssumption DEF Lists, RecordAssumption
<1>6. rows = SubSeq(all, 1, IF Len(all) < Limit THEN Len(all) ELSE Limit)
  BY <1>1, <1>3 DEF Page
<1>7. \A m \in UpTo(after), n \in Beyond(after) : m < n
  BY <1>2, Events
<1>8. CASE Len(all) < Limit
  <2>1. rows = all
    <3>1. rows = SubSeq(all, 1, Len(all))
      BY <1>6, <1>8
    <3> QED BY <1>4, <3>1 DEF Lists
  <2>2. nextCursor(rows) = 0
    BY <1>8, <2>1 DEF nextCursor
  <2>3. consumer'.step = "over" /\ consumer'.got = got \o all
    BY <1>1, <2>1, <2>2
  <2>4. Lists(got \o all, UpTo(after) \cup Beyond(after))
    BY <1>2, <1>4, <1>7, Events, Joined
  <2>5. UpTo(after) \cup Beyond(after) = Beyond(0)
    <3>1. DOMAIN history = 1..Len(history) /\ Len(history) \in Nat
      BY DEF TypeOK
    <3> QED BY <1>2, <3>1 DEF UpTo, Beyond
  <2>6. Beyond(0) \in SUBSET Nat /\ IsFiniteSet(Beyond(0)) /\ Matching(0) = InOrder(Beyond(0))
    BY Events DEF Matching, Beyond, Decided
  <2>7. got \o all = Matching(0)
    BY <2>4, <2>5, <2>6, InOrderLists, OneList
  <2> QED BY <2>3, <2>7 DEF Collected
<1>9. CASE ~(Len(all) < Limit)
  <2>1. Limit \in 1..Len(all) /\ rows = SubSeq(all, 1, Limit)
    BY <1>5, <1>6, <1>9
  <2>2. PICK cursor : cursor = all[Limit]
    OBVIOUS
  <2>3. /\ Lists(rows, {n \in Beyond(after) : n <= cursor})
        /\ Len(rows) = Limit /\ rows[Limit] = cursor
    BY <1>2, <1>4, <2>1, <2>2, Events, FirstRows
  <2>4. cursor \in Beyond(after)
    BY <1>4, <2>1, <2>2, ElementOfSeq DEF Lists
  <2>5. cursor \in Nat /\ cursor > after /\ cursor <= Len(history)
    BY <1>2, <2>4, Events
  <2>6. nextCursor(rows) = cursor /\ cursor # 0
    BY <1>2, <1>5, <2>3, <2>5 DEF nextCursor
  <2>7. consumer'.step = "polling" /\ consumer'.after = cursor /\ consumer'.got = got \o rows
    BY <1>1, <2>6
  <2>8. PICK next : next = {n \in Beyond(after) : n <= cursor}
    OBVIOUS
  <2>9. Lists(got \o rows, UpTo(after) \cup next)
    <3>1. next \in SUBSET Nat /\ UpTo(after) \in SUBSET Nat
      BY <1>2, <2>8, Events
    <3>2. \A m \in UpTo(after), n \in next : m < n
      BY <1>7, <2>8
    <3> QED BY <1>2, <2>3, <2>8, <3>1, <3>2, Joined
  <2>10. UpTo(after) \cup next = UpTo(cursor)
    <3>1. DOMAIN history = 1..Len(history) /\ Len(history) \in Nat
      BY DEF TypeOK
    <3> QED BY <1>2, <2>5, <2>8, <3>1 DEF UpTo, Beyond
  <2>11. UpTo(cursor)' = UpTo(cursor)
    BY <1>2 DEF UpTo, Decided
  <2> QED BY <1>2, <2>5, <2>7, <2>9, <2>10, <2>11 DEF Collected
<1> QED BY <1>8, <1>9

LEMMA CollectedStep ==
  ASSUME IInv, IInv', Collected, [Next]_vars
  PROVE  Collected' /\ (consumer'.step = "over" /\ consumer.step # "over" => consumer'.got = Matching(0))
<1>0. TypeOK /\ TypeOK'
  BY DEF IInv
<1>1. CASE Poll
  BY <1>0, <1>1, PollCollects
<1>2. CASE consumer' = consumer /\ Extends(history, history')
  BY <1>0, <1>2, CollectedGrows
<1>3. history' = history => Extends(history, history')
  BY <1>0 DEF TypeOK, Extends
<1>4. CASE Judge \/ UNCHANGED vars
  BY <1>2, <1>3, <1>4 DEF Judge, vars, stores
<1>5. ASSUME NEW r \in Requests, AppendEvent(r)
      PROVE  consumer' = consumer /\ Extends(history, history')
  <2>1. consumer' = consumer
    BY <1>5 DEF AppendEvent
  <2>2. \/ history' = history
        \/ history' = Append(history,
             [action |-> IF r \in Deciders THEN "decision.recorded" ELSE "audit.recorded",
              verdict |-> read[r], by |-> body[r].by, what |-> body[r].what])
    BY <1>5 DEF AppendEvent, Calls, stores
  <2>3. ASSUME NEW e, history' = Append(history, e) PROVE Extends(history, history')
    <3>1. history \in Seq(Event)
      BY <1>0 DEF TypeOK
    <3>2. PICK E : E = Event \cup {e}
      OBVIOUS
    <3>3. history \in Seq(E) /\ e \in E
      BY <3>1, <3>2
    <3>4. /\ Len(history') = Len(history) + 1 /\ Len(history) \in Nat
          /\ \A i \in 1..Len(history) : history'[i] = history[i]
      BY <2>3, <3>3, AppendProperties
    <3> QED BY <3>4 DEF Extends
  <2> QED BY <1>3, <2>1, <2>2, <2>3
<1>6. ASSUME NEW r \in Requests,
             \/ BeginDecision(r) \/ BeginAudit(r) \/ ReadVerdict(r)
             \/ CheckDecided(r) \/ InsertDecision(r) \/ InsertReview(r)
      PROVE  consumer' = consumer /\ history' = history
  BY <1>6 DEF BeginDecision, BeginAudit, ReadVerdict, CheckDecided, InsertDecision, InsertReview,
              Calls, stores
<1> QED BY <1>1, <1>2, <1>3, <1>4, <1>5, <1>6 DEF Next, Request

(* A consumer that follows the cursors to their end has every decision there is at that     *)
(* moment, each once and in order, whatever the page size and however the history grew      *)
(* between its pages (nextCursor).                                                          *)
THEOREM Complete == Spec => ConsumerComplete
<1>1. Init => Collected
  <2> SUFFICES ASSUME Init PROVE Collected
    OBVIOUS
  <2>1. consumer = [step |-> "polling", after |-> 0, got |-> <<>>] /\ history = <<>>
    BY DEF Init
  <2>2. UpTo(0) = {} /\ Len(history) = 0
    BY <2>1 DEF UpTo
  <2>3. Lists(<<>>, {})
    BY DEF Lists
  <2>4. consumer.step = "polling" /\ consumer.after = 0 /\ consumer.got = <<>>
    BY <2>1
  <2>5. Lists(consumer.got, UpTo(consumer.after))
    BY <2>2, <2>3, <2>4
  <2> QED BY <2>2, <2>4, <2>5 DEF Collected
<1>2. IInv /\ IInv' /\ Collected /\ [Next]_vars
        => Collected' /\ [consumer'.step = "over" /\ consumer.step # "over"
                            => consumer'.got = Matching(0)]_vars
  BY CollectedStep
<1> QED BY <1>1, <1>2, Invariance, PTL DEF Spec, ConsumerComplete

=============================================================================
