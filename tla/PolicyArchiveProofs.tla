-------------------------- MODULE PolicyArchiveProofs --------------------------
(***************************************************************************)
(* What holds of the archive for any number of reconciliations, files,     *)
(* submissions and instants.                                               *)
(***************************************************************************)
EXTENDS PolicyArchive, TLAPS

Rules == UNION {RulesOf(file) : file \in Files}

Rows == [rule : Rules, recorded : Nat, retired : Nat \cup {None}]

Changes == [kind : {"insert", "supersede", "retire"},
            closes : Rules \cup {None}, rule : Rules \cup {None}]

DeploySteps == {"idle", "plan", "commit", "append", "done", "refused", "failed"}

DeployStates == [step : DeploySteps, file : Files \cup {None}, at : Nat, actions : SUBSET Changes]

JudgedStates == [step : {"idle", "read", "judged"}, validOn : Dates \cup {None},
                 asOf : Nat, rules : SUBSET Rules]

TypeOK ==
  /\ now \in Nat /\ faults \in Nat
  /\ rows \subseteq Rows
  /\ deploy \in [Deploys -> DeployStates]
  /\ judged \in [Judgements -> JudgedStates]
  /\ stale \subseteq Deploys /\ raced \in BOOLEAN /\ overtaken \subseteq Judgements

(* A reconciliation works from a file of a worker that started. *)
WorksFromShipped == \A d \in Deploys : deploy[d].step # "idle" => deploy[d].file \in Shipped

(* What a change carries: a rule of the file unless it retires one, and, where it replaces  *)
(* a rule, one of the same name.                                                            *)
WellFormed(c) ==
  /\ c.kind # "retire" => c.rule \in Rules
  /\ c.kind # "insert" => c.closes \in Rules
  /\ c.kind = "supersede" => c.closes.id = c.rule.id

ChangesWellFormed == \A d \in Deploys : \A c \in deploy[d].actions : WellFormed(c)

(* A plan no commit has overtaken is the plan one would make of the archive as it stands. *)
PlansAreFresh ==
  \A d \in Deploys :
    deploy[d].step = "commit" /\ d \notin stale /\ ~raced =>
      deploy[d].actions = planReconciliation(deploy[d].file, currentRules(rows))

(* The inductive invariant. *)
IInv == TypeOK /\ WorksFromShipped /\ ChangesWellFormed /\ OneWindowUnlessRaced /\ PlansAreFresh

-----------------------------------------------------------------------------
(* Lemmas about the plan and what it does to the archive. *)

(* A rule of an accepted file is known by its id. *)
LEMMA IdsAreUnique ==
  ASSUME NEW file \in Shipped, NEW r \in RulesOf(file), NEW q \in RulesOf(file), r.id = q.id
  PROVE r = q
  BY DEF Shipped, RulesOf, validatePolicySet

(* Every change of a plan is of one of three kinds, for the reason its kind names. *)
LEMMA PlannedFor ==
  ASSUME NEW file, NEW map, NEW c \in planReconciliation(file, map)
  PROVE \/ /\ c.kind = "insert" /\ c.rule \in RulesOf(file)
           /\ c = Change("insert", None, c.rule)
           /\ \A row \in map : row.rule.id # c.rule.id
        \/ /\ c.kind = "supersede" /\ c.rule \in RulesOf(file)
           /\ \E row \in map : /\ c = Change("supersede", row.rule, c.rule)
                               /\ row.rule.id = c.rule.id /\ row.rule # c.rule
        \/ /\ c.kind = "retire"
           /\ \E row \in map : /\ c = Change("retire", row.rule, None)
                               /\ \A r \in RulesOf(file) : r.id # row.rule.id
  BY DEF planReconciliation, Change

(* A row whose rule the file does not hold is closed by the plan. *)
LEMMA PlanCloses ==
  ASSUME NEW file, NEW map, NEW row \in map, row.rule \notin RulesOf(file)
  PROVE \E c \in planReconciliation(file, map) : c.kind # "insert" /\ c.closes = row.rule
<1>1. CASE \E r \in RulesOf(file) : r.id = row.rule.id
  <2> PICK r \in RulesOf(file) : r.id = row.rule.id
    BY <1>1
  <2>1. Change("supersede", row.rule, r) \in planReconciliation(file, map)
    BY DEF planReconciliation
  <2> QED BY <2>1 DEF Change
<1>2. CASE \A r \in RulesOf(file) : r.id # row.rule.id
  <2>1. Change("retire", row.rule, None) \in planReconciliation(file, map)
    BY <1>2 DEF planReconciliation
  <2> QED BY <2>1 DEF Change
<1> QED BY <1>1, <1>2

(* A rule of the file that no row holds is opened by the plan. *)
LEMMA PlanOpens ==
  ASSUME NEW file, NEW map, NEW r \in RulesOf(file), \A row \in map : row.rule # r
  PROVE \E c \in planReconciliation(file, map) : c.kind # "retire" /\ c.rule = r
<1>1. CASE \E row \in map : row.rule.id = r.id
  <2> PICK row \in map : row.rule.id = r.id
    BY <1>1
  <2>1. Change("supersede", row.rule, r) \in planReconciliation(file, map)
    BY DEF planReconciliation
  <2> QED BY <2>1 DEF Change
<1>2. CASE \A row \in map : row.rule.id # r.id
  <2>1. Change("insert", None, r) \in planReconciliation(file, map)
    BY <1>2 DEF planReconciliation
  <2> QED BY <2>1 DEF Change
<1> QED BY <1>1, <1>2

(* What carrying a plan out makes of the rows: each stands as it was, or is closed at the   *)
(* date of the request because it was open and the plan closes it; the others are opened by *)
(* the plan, at that date.                                                                  *)
ClosedBy(d, row) ==
  row.retired = None /\ \E c \in deploy[d].actions : c.kind # "insert" /\ c.closes = row.rule

Opening(d, c) == [rule |-> c.rule, recorded |-> deploy[d].at, retired |-> None]

LEMMA RowsAfter ==
  ASSUME NEW d \in Deploys, NEW x \in Applied(d)
  PROVE \/ x \in rows /\ ~ClosedBy(d, x)
        \/ \E row \in rows : ClosedBy(d, row) /\ x = [row EXCEPT !.retired = deploy[d].at]
        \/ \E c \in deploy[d].actions : c.kind # "retire" /\ x = Opening(d, c)
  BY DEF Applied, ClosedBy, Opening

LEMMA RowsKept ==
  ASSUME NEW d \in Deploys
  PROVE /\ \A row \in rows : ~ClosedBy(d, row) => row \in Applied(d)
        /\ \A row \in rows : ClosedBy(d, row) => [row EXCEPT !.retired = deploy[d].at] \in Applied(d)
        /\ \A c \in deploy[d].actions : c.kind # "retire" => Opening(d, c) \in Applied(d)
  BY DEF Applied, ClosedBy, Opening

(* Of the rows that are open afterwards, each was open and is not closed, or was opened.    *)
LEMMA OpenAfter ==
  ASSUME ArchiveAssumption, TypeOK, NEW d \in Deploys, NEW x \in currentRules(Applied(d))
  PROVE \/ x \in currentRules(rows) /\ ~ClosedBy(d, x)
        \/ \E c \in deploy[d].actions : c.kind # "retire" /\ x = Opening(d, c)
<1>1. x \in Applied(d) /\ x.retired = None
  BY DEF currentRules
<1>2. ASSUME NEW row \in rows, ClosedBy(d, row), x = [row EXCEPT !.retired = deploy[d].at]
      PROVE FALSE
  <2>1. row \in Rows /\ deploy[d].at \in Nat
    BY DEF TypeOK, DeployStates
  <2>2. x.retired = deploy[d].at
    BY <1>2, <2>1 DEF Rows
  <2> QED BY <1>1, <2>1, <2>2 DEF ArchiveAssumption
<1> QED BY <1>1, <1>2, RowsAfter DEF currentRules

(* One row stands for each rule. *)
OneWindowIn(archive) == \A a, b \in currentRules(archive) : a.rule.id = b.rule.id => a = b

(* A plan of the archive as it stands, carried out, leaves one window per rule, and the     *)
(* open rows hold the rules of the file and no others.                                      *)
LEMMA LandsOnTheFile ==
  ASSUME ArchiveAssumption, TypeOK, NEW d \in Deploys, NEW file \in Shipped, OneWindowIn(rows),
         deploy[d].actions = planReconciliation(file, currentRules(rows))
  PROVE /\ OneWindowIn(Applied(d))
        /\ {row.rule : row \in currentRules(Applied(d))} = RulesOf(file)
<1> DEFINE open == currentRules(rows)
           plan == planReconciliation(file, open)
<1>1. ASSUME NEW x \in open, ~ClosedBy(d, x)
      PROVE x.rule \in RulesOf(file)
  <2> SUFFICES ASSUME x.rule \notin RulesOf(file) PROVE FALSE
    OBVIOUS
  <2>1. PICK c \in plan : c.kind # "insert" /\ c.closes = x.rule
    BY PlanCloses
  <2>2. x.retired = None
    BY DEF currentRules
  <2> QED BY <1>1, <2>1, <2>2 DEF ClosedBy
<1>2. ASSUME NEW c \in plan, c.kind # "retire"
      PROVE c.rule \in RulesOf(file)
  BY <1>2, PlannedFor
<1>3. ASSUME NEW x \in open, ~ClosedBy(d, x), NEW c \in plan, c.kind # "retire"
      PROVE x.rule.id # c.rule.id
  <2>1. CASE c.kind = "insert"
    BY <2>1, PlannedFor
  <2>2. CASE c.kind = "supersede"
    <3>1. PICK row \in open : /\ c = Change("supersede", row.rule, c.rule)
                              /\ row.rule.id = c.rule.id
      BY <2>2, PlannedFor
    <3>2. c.closes = row.rule
      BY <3>1 DEF Change
    <3>3. row.retired = None
      BY DEF currentRules
    <3>4. ClosedBy(d, row)
      BY <3>2, <3>3, <2>2 DEF ClosedBy
    <3> QED BY <3>1, <3>4, <1>3 DEF OneWindowIn
  <2> QED BY <1>3, <2>1, <2>2, PlannedFor
<1>4. OneWindowIn(Applied(d))
  <2> SUFFICES ASSUME NEW a \in currentRules(Applied(d)), NEW b \in currentRules(Applied(d)),
                      a.rule.id = b.rule.id
               PROVE a = b
    BY DEF OneWindowIn
  <2>1. CASE a \in open /\ ~ClosedBy(d, a) /\ b \in open /\ ~ClosedBy(d, b)
    BY <2>1 DEF OneWindowIn
  <2>2. CASE a \in open /\ ~ClosedBy(d, a) /\ \E c \in plan : c.kind # "retire" /\ b = Opening(d, c)
    BY <2>2, <1>3 DEF Opening
  <2>3. CASE b \in open /\ ~ClosedBy(d, b) /\ \E c \in plan : c.kind # "retire" /\ a = Opening(d, c)
    BY <2>3, <1>3 DEF Opening
  <2>4. ASSUME NEW c \in plan, c.kind # "retire", a = Opening(d, c),
               NEW e \in plan, e.kind # "retire", b = Opening(d, e)
        PROVE a = b
    <3>1. c.rule.id = e.rule.id
      BY <2>4 DEF Opening
    <3>2. c.rule = e.rule
      BY <3>1, <2>4, <1>2, IdsAreUnique
    <3> QED BY <3>2, <2>4 DEF Opening
  <2> QED BY <2>1, <2>2, <2>3, <2>4, OpenAfter
<1>5. ASSUME NEW x \in currentRules(Applied(d))
      PROVE x.rule \in RulesOf(file)
  BY <1>1, <1>2, OpenAfter DEF Opening
<1>6. ASSUME NEW r \in RulesOf(file)
      PROVE \E x \in currentRules(Applied(d)) : x.rule = r
  <2>1. CASE \E row \in open : row.rule = r
    <3> PICK row \in open : row.rule = r
      BY <2>1
    <3>1. ASSUME NEW c \in plan, c.kind # "insert", c.closes = row.rule
          PROVE FALSE
      <4>1. CASE c.kind = "retire"
        BY <4>1, <3>1, PlannedFor DEF Change
      <4>2. CASE c.kind = "supersede"
        <5>1. c.closes.id = c.rule.id /\ c.closes # c.rule /\ c.rule \in RulesOf(file)
          BY <4>2, PlannedFor DEF Change
        <5> QED BY <5>1, <3>1, IdsAreUnique
      <4> QED BY <4>1, <4>2, <3>1, PlannedFor
    <3>2. ~ClosedBy(d, row)
      BY <3>1 DEF ClosedBy
    <3> QED BY <3>2, RowsKept DEF currentRules
  <2>2. CASE \A row \in open : row.rule # r
    <3>1. PICK c \in plan : c.kind # "retire" /\ c.rule = r
      BY <2>2, PlanOpens
    <3>2. Opening(d, c) \in Applied(d)
      BY <3>1, RowsKept
    <3> QED BY <3>1, <3>2 DEF currentRules, Opening
  <2> QED BY <2>1, <2>2
<1> QED BY <1>4, <1>5, <1>6

(* An archive whose open rows hold the rules of a file has nothing left to plan for it.     *)
LEMMA NothingLeft ==
  ASSUME NEW archive, NEW file \in Shipped,
         {row.rule : row \in currentRules(archive)} = RulesOf(file)
  PROVE Agrees(archive, file)
<1> SUFFICES ASSUME NEW map \in Maps(archive), NEW c \in planReconciliation(file, map)
             PROVE FALSE
  BY DEF Agrees
<1>1. \A row \in map : row.rule \in RulesOf(file)
  BY DEF Maps
<1>2. \A r \in RulesOf(file) : \E row \in map : row.rule.id = r.id
  BY DEF Maps
<1> QED BY <1>1, <1>2, PlannedFor, IdsAreUnique

-----------------------------------------------------------------------------
(* The inductive invariant. *)

LEMMA InitInv == ASSUME ArchiveAssumption PROVE Init => IInv
<1> SUFFICES ASSUME Init PROVE IInv
  OBVIOUS
<1>1. TypeOK
  BY DEF Init, TypeOK, Idle, Unasked, DeployStates, JudgedStates, DeploySteps
<1>2. WorksFromShipped /\ ChangesWellFormed /\ PlansAreFresh
  BY DEF Init, Idle, WorksFromShipped, ChangesWellFormed, PlansAreFresh
<1>3. OneWindowUnlessRaced
  BY DEF Init, OneWindowUnlessRaced, currentRules
<1> QED BY <1>1, <1>2, <1>3 DEF IInv

(* One reconciliation moves on, with these changes left to make. *)
Leaves(d, actions, step) ==
  deploy' = [deploy EXCEPT ![d].actions = actions, ![d].step = step]

LEMMA Rewrites ==
  ASSUME TypeOK, NEW d \in Deploys, NEW step \in DeploySteps, NEW actions \in SUBSET Changes,
         Leaves(d, actions, step)
  PROVE /\ deploy' \in [Deploys -> DeployStates]
        /\ deploy'[d].step = step /\ deploy'[d].actions = actions
        /\ deploy'[d].file = deploy[d].file /\ deploy'[d].at = deploy[d].at
        /\ \A e \in Deploys \ {d} : deploy'[e] = deploy[e]
<1>1. deploy[d] \in DeployStates
  BY DEF TypeOK
<1>2. deploy' = [deploy EXCEPT ![d] = [deploy[d] EXCEPT !.actions = actions, !.step = step]]
  BY DEF TypeOK, Leaves
<1>3. [deploy[d] EXCEPT !.actions = actions, !.step = step] \in DeployStates
  BY <1>1 DEF DeployStates
<1> QED BY <1>1, <1>2, <1>3 DEF TypeOK, DeployStates

LEMMA Moves ==
  ASSUME TypeOK, NEW d \in Deploys, NEW step \in DeploySteps, Move(d, step)
  PROVE /\ deploy' \in [Deploys -> DeployStates]
        /\ deploy'[d].step = step /\ deploy'[d].actions = deploy[d].actions
        /\ deploy'[d].file = deploy[d].file /\ deploy'[d].at = deploy[d].at
        /\ \A e \in Deploys \ {d} : deploy'[e] = deploy[e]
<1>1. deploy[d] \in DeployStates
  BY DEF TypeOK
<1>2. deploy' = [deploy EXCEPT ![d] = [deploy[d] EXCEPT !.step = step]]
  BY DEF TypeOK, Move
<1>3. [deploy[d] EXCEPT !.step = step] \in DeployStates
  BY <1>1 DEF DeployStates
<1> QED BY <1>1, <1>2, <1>3 DEF TypeOK, DeployStates

(* Where there is one window per rule, the Map is the open rows. *)
LEMMA OneMap ==
  ASSUME OneWindowIn(rows), NEW map \in Maps(rows) PROVE map = currentRules(rows)
  BY DEF OneWindowIn, Maps

LEMMA BeginStep == ASSUME IInv, NEW d \in Deploys, Begin(d) PROVE IInv'
<1> USE DEF IInv
<1>1. PICK file \in Shipped :
        deploy' = [deploy EXCEPT ![d] = [Idle EXCEPT !.step = "plan", !.file = file, !.at = now]]
  BY DEF Begin
<1>2. /\ deploy' \in [Deploys -> DeployStates]
      /\ deploy'[d].step = "plan" /\ deploy'[d].file = file /\ deploy'[d].actions = {}
      /\ \A e \in Deploys \ {d} : deploy'[e] = deploy[e]
  BY <1>1 DEF TypeOK, DeployStates, DeploySteps, Idle, Shipped
<1>3. UNCHANGED <<now, rows, events, judged, faults, stale, raced, overtaken>>
  BY DEF Begin
<1>4. TypeOK'
  BY <1>2, <1>3 DEF TypeOK
<1>5. WorksFromShipped' /\ ChangesWellFormed'
  BY <1>2, <1>3 DEF WorksFromShipped, ChangesWellFormed, WellFormed, Shipped
<1>6. OneWindowUnlessRaced'
  BY <1>3 DEF OneWindowUnlessRaced, currentRules
<1>7. PlansAreFresh'
  BY <1>2, <1>3 DEF PlansAreFresh
<1> QED BY <1>4, <1>5, <1>6, <1>7

(* What is planned from a Map of the rows is well formed. *)
LEMMA PlannedWell ==
  ASSUME TypeOK, NEW file \in Shipped, NEW map \in SUBSET rows
  PROVE /\ planReconciliation(file, map) \in SUBSET Changes
        /\ \A c \in planReconciliation(file, map) : WellFormed(c)
<1>1. RulesOf(file) \subseteq Rules
  BY DEF Rules, Shipped
<1>2. \A row \in map : row.rule \in Rules
  BY DEF TypeOK, Rows
<1> SUFFICES ASSUME NEW c \in planReconciliation(file, map) PROVE c \in Changes /\ WellFormed(c)
  OBVIOUS
<1>3. CASE c.kind = "insert"
  BY <1>1, <1>3, PlannedFor DEF Changes, WellFormed, Change
<1>4. CASE c.kind = "supersede"
  <2>1. PICK row \in map : /\ c = Change("supersede", row.rule, c.rule) /\ c.rule \in RulesOf(file)
                           /\ row.rule.id = c.rule.id
    BY <1>4, PlannedFor
  <2>2. c.closes = row.rule
    BY <2>1 DEF Change
  <2> QED BY <1>1, <1>2, <1>4, <2>1, <2>2 DEF Changes, WellFormed, Change
<1>5. CASE c.kind = "retire"
  <2>1. PICK row \in map : c = Change("retire", row.rule, None)
    BY <1>5, PlannedFor
  <2> QED BY <1>2, <1>5, <2>1 DEF Changes, WellFormed, Change
<1> QED BY <1>3, <1>4, <1>5, PlannedFor

LEMMA PlanStep == ASSUME IInv, NEW d \in Deploys, Plan(d) PROVE IInv'
<1> USE DEF IInv
<1>1. /\ deploy[d].step = "plan" /\ stale' = stale \ {d}
      /\ UNCHANGED <<now, rows, events, judged, raced, overtaken>>
  BY DEF Plan
<1>2. OneWindowUnlessRaced'
  BY <1>1 DEF OneWindowUnlessRaced, currentRules
<1>3. CASE Throws(d)
  <2>1. Move(d, "failed") /\ faults' \in Nat
    BY <1>3 DEF Throws, TypeOK
  <2>2. TypeOK'
    BY <1>1, <2>1, Moves DEF TypeOK, DeploySteps
  <2>3. WorksFromShipped' /\ ChangesWellFormed'
    BY <1>1, <2>1, Moves DEF WorksFromShipped, ChangesWellFormed, DeploySteps, Shipped, WellFormed
  <2>4. PlansAreFresh'
    BY <1>1, <2>1, Moves DEF PlansAreFresh, DeploySteps
  <2> QED BY <1>2, <2>2, <2>3, <2>4
<1>4. CASE ~Throws(d)
  <2>1. PICK map \in Maps(rows) :
          LET actions == planReconciliation(deploy[d].file, map)
          IN deploy' = [deploy EXCEPT ![d].actions = actions,
                                      ![d].step = IF actions = {} THEN "done" ELSE "commit"]
    BY <1>4 DEF Plan
  <2> DEFINE actions == planReconciliation(deploy[d].file, map)
             step == IF actions = {} THEN "done" ELSE "commit"
  <2>2. Leaves(d, actions, step)
    BY <2>1 DEF Leaves
  <2>3. deploy[d].file \in Shipped /\ map \in SUBSET rows
    BY <1>1 DEF WorksFromShipped, Maps, currentRules
  <2>4. actions \in SUBSET Changes /\ (\A c \in actions : WellFormed(c)) /\ step \in DeploySteps
    BY <2>3, PlannedWell DEF DeploySteps
  <2>5. ~raced => actions = planReconciliation(deploy[d].file, currentRules(rows))
    BY OneMap DEF OneWindowUnlessRaced, OneWindowIn
  <2> HIDE DEF actions, step
  <2>6. /\ deploy' \in [Deploys -> DeployStates]
        /\ deploy'[d].actions = actions /\ deploy'[d].file = deploy[d].file
        /\ \A e \in Deploys \ {d} : deploy'[e] = deploy[e]
    BY <2>2, <2>4, Rewrites
  <2>7. faults' = faults
    BY <1>4 DEF Plan
  <2>8. TypeOK'
    BY <1>1, <2>6, <2>7 DEF TypeOK
  <2>9. WorksFromShipped' /\ ChangesWellFormed'
    BY <1>1, <2>3, <2>4, <2>6 DEF WorksFromShipped, ChangesWellFormed, Shipped, WellFormed
  <2>10. PlansAreFresh'
    BY <1>1, <2>5, <2>6 DEF PlansAreFresh
  <2> QED BY <1>2, <2>8, <2>9, <2>10
<1> QED BY <1>3, <1>4

(* A reconciliation that moves on and leaves the archive alone. *)
LEMMA QuietMove ==
  ASSUME IInv, NEW d \in Deploys, NEW step \in DeploySteps \ {"commit"}, Move(d, step),
         deploy[d].step # "idle",
         faults' \in Nat, UNCHANGED <<now, rows, judged, stale, raced, overtaken>>
  PROVE IInv'
<1> USE DEF IInv
<1>1. /\ deploy' \in [Deploys -> DeployStates]
      /\ deploy'[d].step = step /\ deploy'[d].actions = deploy[d].actions
      /\ deploy'[d].file = deploy[d].file
      /\ \A e \in Deploys \ {d} : deploy'[e] = deploy[e]
  BY Moves
<1>2. TypeOK'
  BY <1>1 DEF TypeOK
<1>3. WorksFromShipped' /\ ChangesWellFormed'
  BY <1>1 DEF WorksFromShipped, ChangesWellFormed, Shipped, WellFormed
<1>4. OneWindowUnlessRaced'
  BY DEF OneWindowUnlessRaced, currentRules
<1>5. PlansAreFresh'
  BY <1>1 DEF PlansAreFresh
<1> QED BY <1>2, <1>3, <1>4, <1>5

(* The rows a commit leaves are rows. *)
LEMMA AppliedRows ==
  ASSUME IInv, NEW d \in Deploys PROVE Applied(d) \subseteq Rows
<1> SUFFICES ASSUME NEW x \in Applied(d) PROVE x \in Rows
  OBVIOUS
<1>1. deploy[d].at \in Nat /\ rows \subseteq Rows
  BY DEF IInv, TypeOK, DeployStates
<1>2. ASSUME NEW row \in rows, x = [row EXCEPT !.retired = deploy[d].at]
      PROVE x \in Rows
  BY <1>1, <1>2 DEF Rows
<1>3. ASSUME NEW c \in deploy[d].actions, c.kind # "retire", x = Opening(d, c)
      PROVE x \in Rows
  BY <1>1, <1>3 DEF Rows, Opening, IInv, ChangesWellFormed, WellFormed
<1> QED BY <1>1, <1>2, <1>3, RowsAfter

(* A batch that takes effect, whatever the request does next. *)
LEMMA EffectKeeps ==
  ASSUME ArchiveAssumption, IInv, NEW d \in Deploys, deploy[d].step = "commit",
         TakeEffect(d), NEW step \in DeploySteps \ {"commit"}, Move(d, step),
         faults' \in Nat, UNCHANGED <<now, judged>>
  PROVE IInv'
<1> USE DEF IInv
<1>1. /\ deploy' \in [Deploys -> DeployStates]
      /\ deploy'[d].step = step /\ deploy'[d].actions = deploy[d].actions
      /\ deploy'[d].file = deploy[d].file
      /\ \A e \in Deploys \ {d} : deploy'[e] = deploy[e]
  BY Moves
<1>2. /\ rows' = Applied(d) /\ raced' = (raced \/ d \in stale)
      /\ stale' = stale \cup {e \in Deploys \ {d} : deploy[e].step = "commit"}
      /\ overtaken' \subseteq Judgements
  BY DEF TakeEffect, TypeOK
<1>3. TypeOK'
  <2>1. rows' \subseteq Rows
    BY <1>2, AppliedRows
  <2>2. stale' \subseteq Deploys /\ raced' \in BOOLEAN
    BY <1>2 DEF TypeOK
  <2> QED BY <1>1, <1>2, <2>1, <2>2 DEF TypeOK
<1>4. WorksFromShipped' /\ ChangesWellFormed'
  BY <1>1 DEF WorksFromShipped, ChangesWellFormed, Shipped, WellFormed
<1>5. OneWindowUnlessRaced'
  <2> SUFFICES ASSUME ~raced' PROVE OneWindowIn(rows')
    BY DEF OneWindowUnlessRaced, OneWindowIn, currentRules
  <2>1. ~raced /\ d \notin stale
    BY <1>2
  <2>2. deploy[d].file \in Shipped /\ OneWindowIn(rows)
    BY <2>1 DEF WorksFromShipped, OneWindowUnlessRaced, OneWindowIn
  <2>3. deploy[d].actions = planReconciliation(deploy[d].file, currentRules(rows))
    BY <2>1 DEF PlansAreFresh
  <2> QED BY <1>2, <2>2, <2>3, LandsOnTheFile
<1>6. PlansAreFresh'
  BY <1>1, <1>2 DEF PlansAreFresh
<1> QED BY <1>3, <1>4, <1>5, <1>6

LEMMA CommitStep == ASSUME ArchiveAssumption, IInv, NEW d \in Deploys, Commit(d) PROVE IInv'
<1>1. deploy[d].step = "commit" /\ UNCHANGED <<now, events, judged>>
  BY DEF Commit
<1>2. CASE TakeEffect(d) /\ Move(d, "append") /\ UNCHANGED faults
  BY <1>1, <1>2, EffectKeeps DEF DeploySteps, IInv, TypeOK
<1>3. CASE Move(d, "refused") /\ UNCHANGED <<rows, stale, raced, overtaken, faults>>
  BY <1>1, <1>3, QuietMove DEF DeploySteps, IInv, TypeOK
<1>4. CASE TakeEffect(d) /\ Throws(d)
  BY <1>1, <1>4, EffectKeeps DEF DeploySteps, IInv, TypeOK, Throws
<1>5. CASE Throws(d) /\ UNCHANGED <<rows, stale, raced, overtaken>>
  BY <1>1, <1>5, QuietMove DEF DeploySteps, IInv, TypeOK, Throws
<1> QED BY <1>2, <1>3, <1>4, <1>5 DEF Commit

LEMMA AnnounceStep == ASSUME IInv, NEW d \in Deploys, Announce(d) PROVE IInv'
<1>1. deploy[d].step = "append" /\ UNCHANGED <<now, rows, judged, stale, raced, overtaken>>
  BY DEF Announce
<1>2. CASE Throws(d)
  BY <1>1, <1>2, QuietMove DEF DeploySteps, IInv, TypeOK, Throws
<1>3. CASE ~Throws(d)
  <2>1. PICK c \in deploy[d].actions :
          /\ Leaves(d, deploy[d].actions \ {c},
                    IF deploy[d].actions \ {c} = {} THEN "done" ELSE "append")
          /\ faults' = faults \/ faults' = faults + 1
    BY <1>3 DEF Announce, Leaves
  <2> DEFINE left == deploy[d].actions \ {c}
             step == IF left = {} THEN "done" ELSE "append"
  <2>2. Leaves(d, left, step) /\ faults' \in Nat
    BY <2>1 DEF IInv, TypeOK
  <2>3. left \in SUBSET Changes /\ left \subseteq deploy[d].actions
        /\ step \in DeploySteps /\ step # "commit"
    BY DEF IInv, TypeOK, DeployStates, DeploySteps
  <2> HIDE DEF left, step
  <2>4. /\ deploy' \in [Deploys -> DeployStates]
        /\ deploy'[d].step = step /\ deploy'[d].actions = left
        /\ deploy'[d].file = deploy[d].file
        /\ \A e \in Deploys \ {d} : deploy'[e] = deploy[e]
    BY <2>2, <2>3, Rewrites DEF IInv
  <2>5. TypeOK'
    BY <1>1, <2>2, <2>4 DEF IInv, TypeOK
  <2>6. WorksFromShipped' /\ ChangesWellFormed'
    BY <1>1, <2>3, <2>4 DEF IInv, WorksFromShipped, ChangesWellFormed, Shipped, WellFormed
  <2>7. OneWindowUnlessRaced'
    BY <1>1 DEF IInv, OneWindowUnlessRaced, currentRules
  <2>8. PlansAreFresh'
    BY <1>1, <2>3, <2>4 DEF IInv, PlansAreFresh
  <2> QED BY <2>5, <2>6, <2>7, <2>8 DEF IInv
<1> QED BY <1>2, <1>3

(* What a submission or the clock does leaves the rows and the plans alone. *)
LEMMA OthersKeep ==
  ASSUME IInv, TypeOK', UNCHANGED <<rows, deploy, stale, raced>> PROVE IInv'
<1>1. WorksFromShipped' /\ ChangesWellFormed'
  BY DEF IInv, WorksFromShipped, ChangesWellFormed, Shipped, WellFormed
<1>2. OneWindowUnlessRaced' /\ PlansAreFresh'
  BY DEF IInv, OneWindowUnlessRaced, currentRules, PlansAreFresh
<1> QED BY <1>1, <1>2 DEF IInv

LEMMA ReaderStep ==
  ASSUME IInv, NEW v \in Judgements, TakeDates(v) \/ ReadRules(v) PROVE IInv'
<1>1. UNCHANGED <<now, rows, deploy, events, faults, stale, raced, overtaken>>
  BY DEF TakeDates, ReadRules
<1>2. judged[v] \in JudgedStates
  BY DEF IInv, TypeOK
<1>3. judged' \in [Judgements -> JudgedStates]
  <2>1. CASE TakeDates(v)
    <3>1. PICK date \in Dates :
            judged' = [judged EXCEPT ![v] = [Unasked EXCEPT !.step = "read", !.validOn = date, !.asOf = now]]
      BY <2>1 DEF TakeDates
    <3>2. [Unasked EXCEPT !.step = "read", !.validOn = date, !.asOf = now] \in JudgedStates
      BY DEF Unasked, JudgedStates, IInv, TypeOK
    <3> QED BY <3>1, <3>2 DEF IInv, TypeOK
  <2>2. CASE ReadRules(v)
    <3> DEFINE set == ruleSetAsAt(rows, judged[v].validOn, judged[v].asOf)
    <3>1. set \in SUBSET Rules
      BY DEF ruleSetAsAt, IInv, TypeOK, Rows
    <3>2. judged' = [judged EXCEPT ![v] = [judged[v] EXCEPT !.step = "judged", !.rules = set]]
      BY <2>2 DEF ReadRules, IInv, TypeOK
    <3> HIDE DEF set
    <3>3. [judged[v] EXCEPT !.step = "judged", !.rules = set] \in JudgedStates
      BY <1>2, <3>1 DEF JudgedStates
    <3> QED BY <3>2, <3>3 DEF IInv, TypeOK
  <2> QED BY <2>1, <2>2
<1>4. TypeOK'
  BY <1>1, <1>3 DEF IInv, TypeOK
<1> QED BY <1>1, <1>4, OthersKeep

LEMMA StepInv == ASSUME ArchiveAssumption, IInv, [Next]_vars PROVE IInv'
<1>1. CASE Tick
  <2>1. TypeOK'
    BY <1>1 DEF Tick, IInv, TypeOK
  <2> QED BY <1>1, <2>1, OthersKeep DEF Tick
<1>2. CASE UNCHANGED vars
  <2>1. TypeOK'
    BY <1>2 DEF vars, IInv, TypeOK
  <2> QED BY <1>2, <2>1, OthersKeep DEF vars
<1>3. ASSUME NEW d \in Deploys, Begin(d) \/ Plan(d) \/ Commit(d) \/ Announce(d)
      PROVE IInv'
  BY <1>3, BeginStep, PlanStep, CommitStep, AnnounceStep
<1> QED BY <1>1, <1>2, <1>3, ReaderStep DEF Next

LEMMA Invariance == Spec => []IInv
<1>1. Init => IInv
  BY InitInv, ArchiveAssumption
<1>2. IInv /\ [Next]_vars => IInv'
  BY StepInv, ArchiveAssumption
<1> QED BY <1>1, <1>2, PTL DEF Spec

(* Every variable keeps to its kind, for any number of reconciliations and shipped files.   *)
THEOREM TypeCorrect == Spec => []TypeOK
<1>1. IInv => TypeOK
  BY DEF IInv
<1> QED BY <1>1, Invariance, PTL

(* The archive says one thing about one rule unless a plan made from older rows was carried *)
(* out (reconcileArchive reads, plans and writes without a lock).                           *)
THEOREM OneWindow == Spec => []OneWindowUnlessRaced
<1>1. IInv => OneWindowUnlessRaced
  BY DEF IInv
<1> QED BY <1>1, Invariance, PTL

-----------------------------------------------------------------------------
(* Which call may have made a step. *)

(* Only its own calls move a reconciliation. *)
LEMMA WhoMoves ==
  ASSUME IInv, [Next]_vars, NEW d \in Deploys, deploy'[d] # deploy[d]
  PROVE Begin(d) \/ Plan(d) \/ Commit(d) \/ Announce(d)
<1>1. deploy \in [Deploys -> DeployStates]
  BY DEF IInv, TypeOK
<1>2. deploy' # deploy
  OBVIOUS
<1>3. PICK e \in Deploys : Begin(e) \/ Plan(e) \/ Commit(e) \/ Announce(e)
  BY <1>2 DEF Next, Tick, TakeDates, ReadRules, vars
<1>4. CASE e = d
  BY <1>3, <1>4
<1>5. CASE e # d
  <2>1. CASE Begin(e)
    BY <1>1, <1>5, <2>1 DEF Begin
  <2>2. CASE Plan(e)
    BY <1>1, <1>5, <2>2 DEF Plan, Throws, Move
  <2>3. CASE Commit(e)
    BY <1>1, <1>5, <2>3 DEF Commit, Throws, Move
  <2>4. CASE Announce(e)
    BY <1>1, <1>5, <2>4 DEF Announce, Throws, Move
  <2> QED BY <1>3, <2>1, <2>2, <2>3, <2>4
<1> QED BY <1>4, <1>5

(* Only a batch that takes effect changes the rows. *)
LEMMA WhoWrites ==
  ASSUME [Next]_vars, ~UNCHANGED <<rows, raced, overtaken>>
  PROVE \E d \in Deploys : /\ deploy[d].step = "commit" /\ Commit(d) /\ TakeEffect(d)
                           /\ Move(d, "append") \/ Move(d, "failed")
<1>1. PICK d \in Deploys : Commit(d)
  BY DEF Next, Begin, Plan, Announce, Tick, TakeDates, ReadRules, vars
<1>2. /\ deploy[d].step = "commit" /\ TakeEffect(d)
      /\ Move(d, "append") \/ Move(d, "failed")
  BY <1>1 DEF Commit, Throws
<1> QED BY <1>1, <1>2

(* A closed window stays as it is, and a race stays known. *)
LEMMA ClosedStays ==
  ASSUME [Next]_vars
  PROVE /\ raced => raced'
        /\ \A row \in rows : row.retired # None => row \in rows'
<1>1. CASE UNCHANGED <<rows, raced, overtaken>>
  BY <1>1
<1>2. ASSUME NEW d \in Deploys, TakeEffect(d)
      PROVE /\ raced => raced'
            /\ \A row \in rows : row.retired # None => row \in rows'
  BY <1>2, RowsKept DEF TakeEffect, ClosedBy
<1> QED BY <1>1, <1>2, WhoWrites

-----------------------------------------------------------------------------
(* The two dates of a verdict. *)

(* A row that a question about these two dates takes up. *)
InForce(row, validOn, asOf) ==
  /\ row.rule.status = "active" /\ row.recorded <= asOf
  /\ row.retired # None => row.retired > asOf
  /\ validOn \in row.rule.dates

LEMMA AsAt ==
  ASSUME NEW archive, NEW validOn, NEW asOf, NEW rule
  PROVE rule \in ruleSetAsAt(archive, validOn, asOf)
          <=> \E row \in archive : InForce(row, validOn, asOf) /\ row.rule = rule
  BY DEF ruleSetAsAt, InForce

(* A batch dated after the instant a set is asked for does not change the set. *)
LEMMA LaterBatchUnseen ==
  ASSUME ArchiveAssumption, IInv, NEW d \in Deploys, NEW asOf \in Nat, asOf < deploy[d].at,
         NEW validOn
  PROVE ruleSetAsAt(Applied(d), validOn, asOf) = ruleSetAsAt(rows, validOn, asOf)
<1> DEFINE Seen(row) == InForce(row, validOn, asOf)
           closed(row) == [row EXCEPT !.retired = deploy[d].at]
<1>1. deploy[d].at \in Nat /\ rows \subseteq Rows
  BY DEF IInv, TypeOK, DeployStates
<1>2. ASSUME NEW row \in rows, ClosedBy(d, row)
      PROVE closed(row).rule = row.rule /\ (Seen(closed(row)) <=> Seen(row))
  <2>1. /\ closed(row).rule = row.rule /\ closed(row).recorded = row.recorded
        /\ closed(row).retired = deploy[d].at
    BY <1>1 DEF Rows
  <2>2. row.retired = None /\ deploy[d].at > asOf
    BY <1>1, <1>2 DEF ClosedBy
  <2> HIDE DEF closed
  <2> QED BY <2>1, <2>2 DEF InForce
<1>3. ASSUME NEW c \in deploy[d].actions
      PROVE ~Seen(Opening(d, c))
  BY <1>1 DEF Opening, InForce
<1> HIDE DEF closed
<1>4. ASSUME NEW rule, NEW x \in Applied(d), Seen(x), x.rule = rule
      PROVE \E row \in rows : Seen(row) /\ row.rule = rule
  <2>1. CASE x \in rows
    BY <1>4, <2>1
  <2>2. CASE \E row \in rows : ClosedBy(d, row) /\ x = closed(row)
    BY <1>2, <1>4, <2>2
  <2>3. CASE \E c \in deploy[d].actions : x = Opening(d, c)
    BY <1>3, <1>4, <2>3
  <2> QED BY <2>1, <2>2, <2>3, RowsAfter DEF closed
<1>5. ASSUME NEW rule, NEW row \in rows, Seen(row), row.rule = rule
      PROVE \E x \in Applied(d) : Seen(x) /\ x.rule = rule
  <2>1. CASE ClosedBy(d, row)
    <3>1. closed(row) \in Applied(d)
      BY <2>1, RowsKept DEF closed
    <3> QED BY <1>2, <1>5, <2>1, <3>1
  <2>2. CASE ~ClosedBy(d, row)
    BY <1>5, <2>2, RowsKept
  <2> QED BY <2>1, <2>2
<1>6. ASSUME NEW rule
      PROVE rule \in ruleSetAsAt(Applied(d), validOn, asOf) <=> rule \in ruleSetAsAt(rows, validOn, asOf)
  BY <1>4, <1>5, AsAt
<1> QED BY <1>6 DEF ruleSetAsAt

LEMMA RebuiltStep ==
  ASSUME ArchiveAssumption, IInv, RebuiltUnlessOvertaken, [Next]_vars
  PROVE RebuiltUnlessOvertaken'
<1> SUFFICES ASSUME NEW v \in Judgements, v \notin overtaken', judged'[v].step = "judged"
             PROVE ruleSetAsAt(rows', judged'[v].validOn, judged'[v].asOf) = judged'[v].rules
  BY DEF RebuiltUnlessOvertaken, ruleSetAsAt
<1>1. judged \in [Judgements -> JudgedStates]
  BY DEF IInv, TypeOK
<1>2. CASE \E u \in Judgements : TakeDates(u) \/ ReadRules(u)
  <2> PICK u \in Judgements : TakeDates(u) \/ ReadRules(u)
    BY <1>2
  <2>1. rows' = rows /\ overtaken' = overtaken
    BY DEF TakeDates, ReadRules
  <2>2. CASE u # v
    <3>1. judged'[v] = judged[v]
      BY <1>1, <2>2 DEF TakeDates, ReadRules
    <3> QED BY <2>1, <3>1 DEF RebuiltUnlessOvertaken
  <2>3. CASE u = v
    <3>1. ReadRules(v)
      BY <1>1, <2>3 DEF TakeDates, Unasked
    <3> DEFINE set == ruleSetAsAt(rows, judged[v].validOn, judged[v].asOf)
    <3>2. judged' = [judged EXCEPT ![v] = [judged[v] EXCEPT !.step = "judged", !.rules = set]]
      BY <1>1, <3>1 DEF ReadRules
    <3>3. judged[v] \in JudgedStates
      BY <1>1
    <3> HIDE DEF set
    <3>4. /\ judged'[v].rules = set /\ judged'[v].validOn = judged[v].validOn
          /\ judged'[v].asOf = judged[v].asOf
      BY <1>1, <3>2, <3>3 DEF JudgedStates
    <3> QED BY <2>1, <3>4 DEF set
  <2> QED BY <2>2, <2>3
<1>3. CASE UNCHANGED judged
  <2>1. CASE UNCHANGED <<rows, raced, overtaken>>
    BY <1>3, <2>1 DEF RebuiltUnlessOvertaken
  <2>2. ASSUME NEW d \in Deploys, TakeEffect(d)
        PROVE ruleSetAsAt(rows', judged[v].validOn, judged[v].asOf) = judged[v].rules
    <3>1. v \notin overtaken /\ ~(deploy[d].at <= judged[v].asOf)
      BY <1>3, <2>2 DEF TakeEffect
    <3>2. judged[v].asOf \in Nat /\ judged[v].asOf < deploy[d].at
      BY <1>1, <3>1 DEF JudgedStates, IInv, TypeOK, DeployStates
    <3>3. ruleSetAsAt(rows, judged[v].validOn, judged[v].asOf) = judged[v].rules
      BY <1>3, <3>1 DEF RebuiltUnlessOvertaken
    <3> QED BY <2>2, <3>2, <3>3, LaterBatchUnseen DEF TakeEffect
  <2> QED BY <1>3, <2>1, <2>2, WhoWrites
<1>4. ~(\E u \in Judgements : TakeDates(u) \/ ReadRules(u)) => UNCHANGED judged
  BY DEF Next, Begin, Plan, Commit, Announce, Tick, vars
<1> QED BY <1>2, <1>3, <1>4

(* The two dates a verdict binds rebuild the rules it was judged by, however many           *)
(* reconciliations have run since, unless one dated no later than the verdict's own instant *)
(* was carried out after the verdict had read its rules (ruleSetAsAt, persistVerdict).      *)
THEOREM Rebuilt == Spec => []RebuiltUnlessOvertaken
<1>1. Init => RebuiltUnlessOvertaken
  BY DEF Init, Unasked, RebuiltUnlessOvertaken
<1>2. IInv /\ RebuiltUnlessOvertaken /\ [Next]_vars => RebuiltUnlessOvertaken'
  BY RebuiltStep, ArchiveAssumption
<1> QED BY <1>1, <1>2, Invariance, PTL DEF Spec

-----------------------------------------------------------------------------
(* What a reconciliation leaves, and why one is refused. *)

(* A reconciliation that goes on to its entries carried its plan out. *)
LEMMA GoesOnByCommit ==
  ASSUME IInv, [Next]_vars, NEW d \in Deploys,
         deploy[d].step = "commit", deploy'[d].step = "append"
  PROVE TakeEffect(d) /\ deploy'[d].actions = deploy[d].actions
<1>1. Commit(d)
  BY WhoMoves DEF Begin, Plan, Announce
<1>2. CASE TakeEffect(d) /\ Move(d, "append")
  BY <1>2, Moves DEF IInv, DeploySteps
<1>3. CASE Move(d, "refused")
  BY <1>3, Moves DEF IInv, DeploySteps
<1>4. CASE Throws(d)
  BY <1>4, Moves DEF IInv, DeploySteps, Throws
<1> QED BY <1>1, <1>2, <1>3, <1>4 DEF Commit

LEMMA AgreesStep ==
  ASSUME ArchiveAssumption, IInv, [Next]_vars, NEW d \in Deploys,
         deploy[d].step = "commit", deploy'[d].step = "append", ~raced'
  PROVE Agrees(rows', deploy[d].file)
<1>1. TakeEffect(d)
  BY GoesOnByCommit
<1>2. ~raced /\ d \notin stale /\ rows' = Applied(d)
  BY <1>1 DEF TakeEffect
<1>3. deploy[d].file \in Shipped /\ OneWindowIn(rows)
  BY <1>2 DEF IInv, WorksFromShipped, OneWindowUnlessRaced, OneWindowIn
<1>4. deploy[d].actions = planReconciliation(deploy[d].file, currentRules(rows))
  BY <1>2 DEF IInv, PlansAreFresh
<1>5. {row.rule : row \in currentRules(Applied(d))} = RulesOf(deploy[d].file)
  BY <1>3, <1>4, LandsOnTheFile DEF IInv
<1>6. Agrees(Applied(d), deploy[d].file)
  BY <1>3, <1>5, NothingLeft
<1> QED BY <1>2, <1>6

(* A reconciliation no other has overtaken leaves the archive in agreement with its file:   *)
(* planned again, from any Map of the rows, it would do nothing (planReconciliation).       *)
THEOREM Agreement == Spec => AgreesAfterwards
<1>1. IInv /\ [Next]_vars =>
        \A d \in Deploys :
          (deploy[d].step = "commit" /\ deploy'[d].step = "append" /\ ~raced')
            => Agrees(rows', deploy[d].file)
  BY AgreesStep, ArchiveAssumption
<1> QED BY <1>1, Invariance, PTL DEF Spec, AgreesAfterwards

(* A fresh plan opens only what no open row holds, so what the key refuses is closed. *)
LEMMA RefusalIsRevert ==
  ASSUME IInv, NEW d \in Deploys, deploy[d].step = "commit", Collides(d), ~raced, d \notin stale
  PROVE \E r \in RulesOf(deploy[d].file) : \E row \in rows : row.rule = r /\ row.retired # None
<1> DEFINE open == currentRules(rows)
           plan == planReconciliation(deploy[d].file, open)
<1>1. deploy[d].actions = plan /\ OneWindowIn(rows)
  BY DEF IInv, PlansAreFresh, OneWindowUnlessRaced, OneWindowIn
<1>2. PICK c \in plan, row \in rows : c.kind # "retire" /\ row.rule = c.rule
  BY <1>1 DEF Collides
<1>3. c.rule \in RulesOf(deploy[d].file)
  BY <1>2, PlannedFor
<1>4. row \notin open
  <2> SUFFICES ASSUME row \in open PROVE FALSE
    OBVIOUS
  <2>1. CASE c.kind = "insert"
    BY <1>2, <2>1, PlannedFor
  <2>2. CASE c.kind = "supersede"
    <3>1. PICK other \in open : other.rule.id = c.rule.id /\ other.rule # c.rule
      BY <2>2, PlannedFor
    <3> QED BY <1>1, <1>2, <3>1 DEF OneWindowIn
  <2> QED BY <1>2, <2>1, <2>2, PlannedFor
<1> QED BY <1>2, <1>3, <1>4 DEF currentRules

(* What each call makes of its reconciliation. *)
LEMMA Course ==
  ASSUME IInv, NEW d \in Deploys
  PROVE /\ Begin(d) => deploy[d].step = "idle" /\ deploy'[d].step = "plan"
        /\ Plan(d) => /\ deploy[d].step = "plan" /\ deploy'[d].step \in {"done", "commit", "failed"}
                      /\ deploy'[d].file = deploy[d].file /\ deploy'[d].at = deploy[d].at
        /\ Commit(d) => /\ deploy[d].step = "commit"
                        /\ deploy'[d].step \in {"append", "refused", "failed"}
                        /\ deploy'[d].step = "refused" => Collides(d)
                        /\ deploy'[d].file = deploy[d].file /\ deploy'[d].at = deploy[d].at
                        /\ deploy'[d].actions = deploy[d].actions
        /\ Announce(d) => /\ deploy[d].step = "append"
                          /\ deploy'[d].step \in {"done", "append", "failed"}
                          /\ deploy'[d].file = deploy[d].file /\ deploy'[d].at = deploy[d].at
<1>1. Begin(d) => deploy[d].step = "idle" /\ deploy'[d].step = "plan"
  BY DEF Begin, Idle, IInv, TypeOK
<1>2. Throws(d) => /\ deploy'[d].step = "failed" /\ deploy'[d].actions = deploy[d].actions
                   /\ deploy'[d].file = deploy[d].file /\ deploy'[d].at = deploy[d].at
  BY Moves DEF Throws, IInv, DeploySteps
<1>3. ASSUME Plan(d), ~Throws(d)
      PROVE /\ deploy'[d].step \in {"done", "commit"}
            /\ deploy'[d].file = deploy[d].file /\ deploy'[d].at = deploy[d].at
  <2>1. PICK actions : Leaves(d, actions, IF actions = {} THEN "done" ELSE "commit")
    BY <1>3 DEF Plan, Leaves
  <2> QED BY <2>1 DEF Leaves, IInv, TypeOK, DeployStates
<1>4. ASSUME Announce(d), ~Throws(d)
      PROVE /\ deploy'[d].step \in {"done", "append"}
            /\ deploy'[d].file = deploy[d].file /\ deploy'[d].at = deploy[d].at
  <2>1. PICK left : Leaves(d, left, IF left = {} THEN "done" ELSE "append")
    BY <1>4 DEF Announce, Leaves
  <2> QED BY <2>1 DEF Leaves, IInv, TypeOK, DeployStates
<1>5. ASSUME Commit(d), ~Throws(d)
      PROVE /\ deploy'[d].step \in {"append", "refused"}
            /\ deploy'[d].step = "refused" => Collides(d)
            /\ deploy'[d].file = deploy[d].file /\ deploy'[d].at = deploy[d].at
            /\ deploy'[d].actions = deploy[d].actions
  <2>1. CASE Move(d, "append")
    BY <2>1, Moves DEF IInv, DeploySteps
  <2>2. CASE Move(d, "refused") /\ Collides(d)
    BY <2>2, Moves DEF IInv, DeploySteps
  <2> QED BY <1>5, <2>1, <2>2 DEF Commit
<1> QED BY <1>1, <1>2, <1>3, <1>4, <1>5 DEF Plan, Commit, Announce

LEMMA RefusedStep ==
  ASSUME ArchiveAssumption, IInv, RefusedOnlyByRevert, [Next]_vars
  PROVE RefusedOnlyByRevert'
<1> SUFFICES ASSUME NEW d \in Deploys, deploy'[d].step = "refused", ~raced', d \notin stale'
             PROVE \E r \in RulesOf(deploy'[d].file) :
                     \E row \in rows' : row.rule = r /\ row.retired # None
  BY DEF RefusedOnlyByRevert, RulesOf
<1>1. /\ deploy'[d].file = deploy[d].file
      /\ deploy[d].step = "refused" \/ (deploy[d].step = "commit" /\ Collides(d))
  BY WhoMoves, Course
<1>2. ~raced
  BY ClosedStays
<1>3. d \notin stale
  <2>1. ASSUME NEW e \in Deploys, Plan(e)
        PROVE d \notin stale
    BY <1>1, <2>1 DEF Plan
  <2> QED BY <2>1 DEF Next, Begin, Commit, TakeEffect, Announce, TakeDates, ReadRules, Tick, vars
<1>4. \E r \in RulesOf(deploy[d].file) : \E row \in rows : row.rule = r /\ row.retired # None
  BY <1>1, <1>2, <1>3, RefusalIsRevert DEF RefusedOnlyByRevert
<1> QED BY <1>1, <1>4, ClosedStays

(* Without a race a reconciliation is refused only where its file puts back a rule that the *)
(* archive has closed: the key of a row is the rule and its digest (statementsFor).         *)
THEOREM RefusedByRevert == Spec => []RefusedOnlyByRevert
<1>1. Init => RefusedOnlyByRevert
  BY DEF Init, Idle, RefusedOnlyByRevert
<1>2. IInv /\ RefusedOnlyByRevert /\ [Next]_vars => RefusedOnlyByRevert'
  BY RefusedStep, ArchiveAssumption
<1> QED BY <1>1, <1>2, Invariance, PTL DEF Spec

-----------------------------------------------------------------------------
(* The history of a window. *)

(* An entry about this rule that a request of this date has still to make, or fell with.    *)
Owed(d, rule, t) ==
  /\ deploy[d].at = t /\ deploy[d].step \in {"append", "failed"}
  /\ \E c \in deploy[d].actions : Told(d, c).rule = rule

Speaks(rule, t) ==
  \/ \E e \in events \cup lost : e.rule = rule /\ e.at = t
  \/ \E d \in Deploys : Owed(d, rule, t)

LEMMA AccountedIs ==
  ASSUME NEW rule, NEW t PROVE rule \in Accounted(t) <=> Speaks(rule, t)
BY DEF Accounted, Speaks, Owed

RowAccounted(row) ==
  /\ Speaks(row.rule, row.recorded)
  /\ row.retired # None =>
       \E rule \in Rules : rule.id = row.rule.id /\ Speaks(rule, row.retired)

(* ChangesAreChained, with the rule that told of a closing known to be one of the files'.   *)
WindowsAccounted == \A row \in rows : RowAccounted(row)

(* What is told or owed is told or owed from then on. *)
LEMMA SpeaksOn ==
  ASSUME IInv, [Next]_vars, NEW rule, NEW t, Speaks(rule, t) PROVE Speaks(rule, t)'
<1>1. events \cup lost \subseteq events' \cup lost'
  BY DEF Next, Begin, Plan, Commit, Announce, TakeDates, ReadRules, Tick, vars
<1>2. ASSUME NEW d \in Deploys, Owed(d, rule, t), deploy'[d] # deploy[d]
      PROVE Speaks(rule, t)'
  <2>1. Announce(d) /\ deploy'[d].at = t /\ deploy'[d].file = deploy[d].file
    BY <1>2, WhoMoves, Course DEF Owed
  <2>2. CASE Throws(d)
    <3>1. deploy'[d].step = "failed" /\ deploy'[d].actions = deploy[d].actions
      BY <2>1, <2>2, Moves DEF Throws, IInv, DeploySteps
    <3>2. \A c : Told(d, c)'.rule = Told(d, c).rule
      BY DEF Told, Entry
    <3> QED BY <1>2, <2>1, <3>1, <3>2 DEF Speaks, Owed
  <2>3. CASE ~Throws(d)
    <3>1. PICK c \in deploy[d].actions : deploy[d].step = "append" /\ Told(d, c).rule = rule
      BY <1>2, <2>1 DEF Owed, Announce
    <3>2. PICK b \in deploy[d].actions :
            /\ events' \cup lost' = (events \cup lost) \cup {Told(d, b)}
            /\ Leaves(d, deploy[d].actions \ {b},
                      IF deploy[d].actions \ {b} = {} THEN "done" ELSE "append")
      BY <2>1, <2>3 DEF Announce, Leaves
    <3>3. CASE b = c
      <4>1. Told(d, b).rule = rule /\ Told(d, b).at = t
        BY <1>2, <3>1, <3>3 DEF Told, Entry, Owed
      <4> QED BY <3>2, <4>1 DEF Speaks
    <3>4. CASE b # c
      <4>1. deploy'[d].step = "append" /\ deploy'[d].actions = deploy[d].actions \ {b}
        BY <3>1, <3>2, <3>4, Rewrites DEF IInv, TypeOK, DeployStates, DeploySteps
      <4>2. Told(d, c).rule = IF c.kind = "retire" THEN c.closes ELSE c.rule
        BY DEF Told, Entry
      <4>3. Told(d, c)'.rule = Told(d, c).rule
        BY <4>2 DEF Told, Entry
      <4> QED BY <2>1, <3>1, <3>4, <4>1, <4>3 DEF Speaks, Owed
    <3> QED BY <3>3, <3>4
  <2> QED BY <2>2, <2>3
<1>3. ASSUME NEW d \in Deploys, Owed(d, rule, t), deploy'[d] = deploy[d]
      PROVE Speaks(rule, t)'
  BY <1>3 DEF Speaks, Owed, Told, Entry
<1> QED BY <1>1, <1>2, <1>3 DEF Speaks

LEMMA AccountedStep ==
  ASSUME ArchiveAssumption, IInv, WindowsAccounted, [Next]_vars PROVE WindowsAccounted'
<1>1. ASSUME NEW row \in rows
      PROVE /\ Speaks(row.rule, row.recorded)'
            /\ row.retired # None =>
                 \E rule \in Rules : rule.id = row.rule.id /\ Speaks(rule, row.retired)'
  BY SpeaksOn DEF WindowsAccounted, RowAccounted
<1>2. ASSUME NEW d \in Deploys, TakeEffect(d), Move(d, "append") \/ Move(d, "failed"),
             NEW x \in rows'
      PROVE RowAccounted(x)'
  <2>1. /\ deploy'[d].step \in {"append", "failed"} /\ deploy'[d].at = deploy[d].at
        /\ deploy'[d].actions = deploy[d].actions /\ deploy[d].at \in Nat
    BY <1>2, Moves DEF IInv, DeploySteps, TypeOK, DeployStates
  <2>2. ASSUME NEW c \in deploy[d].actions, NEW rule, NEW t, t = deploy[d].at,
               rule = IF c.kind = "retire" THEN c.closes ELSE c.rule
        PROVE Speaks(rule, t)'
    <3>1. Told(d, c)'.rule = rule
      BY <2>2 DEF Told, Entry
    <3> QED BY <2>1, <2>2, <3>1 DEF Speaks, Owed
  <2>3. ASSUME NEW c \in deploy[d].actions, c.kind # "retire", x = Opening(d, c)
        PROVE RowAccounted(x)'
    <3>1. x.rule = c.rule /\ x.recorded = deploy[d].at /\ x.retired = None
      BY <2>3 DEF Opening
    <3>2. Speaks(x.rule, x.recorded)'
      BY <2>2, <2>3, <3>1
    <3> QED BY <3>1, <3>2 DEF RowAccounted
  <2>4. ASSUME NEW row \in rows, ClosedBy(d, row), x = [row EXCEPT !.retired = deploy[d].at]
        PROVE RowAccounted(x)'
    <3>1. x.rule = row.rule /\ x.recorded = row.recorded /\ x.retired = deploy[d].at
      BY <2>4 DEF IInv, TypeOK, Rows
    <3>2. PICK c \in deploy[d].actions : c.kind # "insert" /\ c.closes = row.rule
      BY <2>4 DEF ClosedBy
    <3>3. PICK rule \in Rules : /\ rule = IF c.kind = "retire" THEN c.closes ELSE c.rule
                                /\ rule.id = row.rule.id
      BY <3>2 DEF IInv, ChangesWellFormed, WellFormed, TypeOK, DeployStates, Changes
    <3>4. Speaks(rule, x.retired)'
      BY <2>2, <3>1, <3>3
    <3> QED BY <1>1, <3>1, <3>3, <3>4 DEF RowAccounted
  <2>5. CASE x \in rows
    BY <1>1, <2>5 DEF RowAccounted
  <2> QED BY <1>2, <2>3, <2>4, <2>5, RowsAfter DEF TakeEffect
<1>3. CASE rows' = rows
  BY <1>1, <1>3 DEF WindowsAccounted, RowAccounted
<1>4. CASE rows' # rows
  BY <1>2, <1>4, WhoWrites DEF WindowsAccounted
<1> QED BY <1>3, <1>4

(* A window opened or closed is told in the chain with its instant, unless the request that *)
(* did it is among its entries or failed there (reconcileArchive, appendAudit).             *)
THEOREM Chained == Spec => []ChangesAreChained
<1>1. Init => WindowsAccounted
  BY DEF Init, WindowsAccounted
<1>2. IInv /\ WindowsAccounted /\ [Next]_vars => WindowsAccounted'
  BY AccountedStep, ArchiveAssumption
<1>3. WindowsAccounted => ChangesAreChained
  BY AccountedIs DEF WindowsAccounted, RowAccounted, ChangesAreChained
<1> QED BY <1>1, <1>2, <1>3, Invariance, PTL DEF Spec
=============================================================================
