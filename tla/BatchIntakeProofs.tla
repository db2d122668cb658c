--------------------------- MODULE BatchIntakeProofs ---------------------------
(***************************************************************************)
(* What holds of starting, joining, undoing and resetting a batch for any  *)
(* number of people pressing the buttons, any corpus and any failures.     *)
(***************************************************************************)
EXTENDS BatchIntake, WellFoundedInduction, TLAPS

SubmissionStates == {"NONE", "QUEUED", "REJECTED", "COMPLETED", "FAILED"}

TypeOK ==
  /\ job \in [Presses -> {"NONE", "PROCESSING", "CANCELLED"}]
  /\ created \in [Presses -> Nat]
  /\ submission \in [Presses -> [Items -> SubmissionStates]]
  /\ ledger \in [Presses -> [Items -> {"ABSENT", "QUEUED", "COMPLETED", "FAILED"}]]
  /\ aborted \in [Presses -> BOOLEAN]
  /\ message \in [Presses -> [Items -> {"unsent", "ready", "gone"}]]
  /\ pc \in [Presses -> Steps]
  /\ current \in [Presses -> Presses \cup {None}]
  /\ accepted \in [Presses -> SUBSET Items]
  /\ at \in [Presses -> Nat]
  /\ answer \in [Presses -> {"none", "joined", "started", "refused", "unavailable"}]
  /\ resetting \in [step : {"record", "abort"}, job : Presses] \cup [step : {"idle"}, job : {None}]
  /\ clock \in Nat
  /\ early \subseteq Presses
  /\ unseen \in [Presses -> SUBSET Presses]
  /\ spent \in [throws : Nat, losses : Nat, resets : Nat]

(* The steps before a job's submissions are written. *)
Before == {"idle", "counts", "prepare"} \cup Starting
Undoing == {"undoSubmissions", "undoJob", "undoLedger"}

Unwritten(p) == \A i \in Items : submission[p][i] = "NONE"
Sent(p) == \E i \in Items : message[p][i] # "unsent"
AllSent(p) == \A i \in accepted[p] : message[p][i] # "unsent"

(* Nothing of the job waits, and nothing will make anything of it wait. *)
Settled(p) == ~Waiting(p) /\ (pc[p] \notin Before \/ Items = {})

(* What a request's place tells of its job. *)
Begun(p) ==
  /\ pc[p] \in Before => Unwritten(p)
  /\ pc[p] \in {"idle", "counts", "prepare"} <=> created[p] = 0 /\ pc[p] # "over"
  /\ created[p] = 0 \/ job[p] = "NONE" => Unwritten(p)
  /\ created[p] = 0 => job[p] = "NONE"
  /\ job[p] = "NONE" => pc[p] \in {"idle", "counts", "prepare", "insertJob", "over"}
  /\ created[p] <= clock

(* What was sent, and what becomes of it. *)
Sends(p) ==
  /\ Sent(p) => pc[p] \in {"send", "over"} \cup Undoing /\ job[p] # "NONE"
  /\ \A i \in Items : submission[p][i] = "QUEUED" => i \in accepted[p]
  /\ pc[p] = "append" => at[p] = 1
  /\ pc[p] = "send" => \A i \in accepted[p] : i < at[p] => message[p][i] # "unsent"
  /\ pc[p] \in Undoing => spent.throws >= 1
  /\ pc[p] \in {"undoJob", "undoLedger"} => ~Waiting(p)
  /\ pc[p] = "over" /\ Sent(p) /\ spent.losses = 0 /\ spent.throws <= 1 =>
       AllSent(p) \/ ~Waiting(p)
  /\ \A i \in Items : message[p][i] = "gone" => submission[p][i] # "QUEUED" \/ aborted[p]

(* A job that is aborted, or is about to be, has been settled first. *)
Ended(p) ==
  p \notin early =>
    /\ resetting.step = "abort" /\ resetting.job = p => Settled(p)
    /\ aborted[p] => Settled(p) /\ \A i \in Items : ledger[p][i] # "QUEUED"

Local(p) == Begun(p) /\ Sends(p) /\ Ended(p)

(* The inductive invariant. *)
IInv == TypeOK /\ \A p \in Presses : Local(p)

-----------------------------------------------------------------------------
LEMMA InitInv == Init => IInv
<1> SUFFICES ASSUME Init PROVE IInv
  OBVIOUS
<1>1. TypeOK
  BY DEF Init, TypeOK, PerItem, Steps, SubmissionStates
<1>2. ASSUME NEW p \in Presses PROVE Local(p)
  <2>1. Begun(p)
    BY DEF Init, PerItem, Begun, Unwritten, Before
  <2>2. Sends(p)
    BY DEF Init, PerItem, Sends, Sent, Undoing
  <2>3. Ended(p)
    BY DEF Init, Ended
  <2> QED BY <2>1, <2>2, <2>3 DEF Local
<1> QED BY <1>1, <1>2 DEF IInv

(* A set of numbers that has a member has a least one. *)
LEMMA LeastNumber ==
  ASSUME NEW S \in SUBSET Nat, S # {} PROVE \E x \in S : \A y \in S : x <= y
<1> DEFINE Less == {pair \in Nat \X Nat : pair[1] < pair[2]}
<1>1. IsWellFoundedOn(Less, Nat)
  BY NatLessThanWellFounded DEF OpToRel
<1>2. PICK x \in S : \A y \in S : ~(<<y, x>> \in Less)
  <2> HIDE DEF Less
  <2> QED BY <1>1, WFMin
<1>3. ASSUME NEW y \in S PROVE x <= y
  <2>1. y < x => <<y, x>> \in Less
    OBVIOUS
  <2> HIDE DEF Less
  <2> QED BY <1>2, <2>1
<1> QED BY <1>3

(* The newest job is a job, and none is newer. *)
LEMMA NewestIsNewest ==
  ASSUME TypeOK, \A j \in Jobs : created[j] <= clock, Jobs # {}
  PROVE NewestJob \in Jobs /\ \A k \in Jobs : created[k] <= created[NewestJob]
<1> DEFINE Ages == {clock - created[j] : j \in Jobs}
<1>1. ASSUME NEW j \in Jobs
      PROVE /\ clock \in Nat /\ created[j] \in Nat /\ created[j] <= clock
            /\ clock - created[j] \in Nat
  BY DEF TypeOK, Jobs
<1>2. PICK x \in Ages : \A y \in Ages : x <= y
  <2>1. Ages \in SUBSET Nat /\ Ages # {}
    BY <1>1
  <2> HIDE DEF Ages
  <2> QED BY <2>1, LeastNumber
<1>3. PICK j \in Jobs : x = clock - created[j]
  OBVIOUS
<1>4. ASSUME NEW k \in Jobs PROVE created[k] <= created[j]
  <2>1. clock - created[j] <= clock - created[k]
    BY <1>2, <1>3
  <2> QED BY <1>1, <2>1
<1> QED BY <1>4 DEF NewestJob

-----------------------------------------------------------------------------
(* What one step leaves of the others. *)

(* Everything told of a press is as it was. *)
Same(q) ==
  /\ job'[q] = job[q] /\ created'[q] = created[q] /\ submission'[q] = submission[q]
  /\ ledger'[q] = ledger[q] /\ aborted'[q] = aborted[q] /\ message'[q] = message[q]
  /\ pc'[q] = pc[q] /\ accepted'[q] = accepted[q] /\ at'[q] = at[q]

Grows ==
  /\ clock' \in Nat /\ clock' >= clock /\ early \subseteq early'
  /\ spent' \in [throws : Nat, losses : Nat, resets : Nat]
  /\ spent'.throws >= spent.throws /\ spent'.losses >= spent.losses

(* No reset comes to the point of aborting the job. *)
NoNewReset(q) ==
  resetting'.step = "abort" /\ resetting'.job = q => resetting.step = "abort" /\ resetting.job = q

LEMMA SameLocal ==
  ASSUME TypeOK, NEW q \in Presses, Local(q), Same(q), Grows, NoNewReset(q) PROVE Local(q)'
<1>1. Begun(q)'
  BY DEF TypeOK, Local, Begun, Unwritten, Same, Grows
<1>2. Sends(q)'
  <2>1. /\ spent.throws \in Nat /\ spent.losses \in Nat
        /\ spent'.throws \in Nat /\ spent'.losses \in Nat
    BY DEF TypeOK, Grows
  <2> QED BY <2>1 DEF Local, Sends, Sent, AllSent, Waiting, Same, Grows
<1>3. Ended(q)'
  <2>1. Waiting(q)' <=> Waiting(q)
    BY DEF Waiting, Same
  <2>2. Settled(q)' <=> Settled(q)
    BY <2>1 DEF Settled, Same
  <2>3. /\ q \notin early' => q \notin early
        /\ resetting'.step = "abort" /\ resetting'.job = q => resetting.step = "abort" /\ resetting.job = q
        /\ aborted'[q] = aborted[q] /\ ledger'[q] = ledger[q]
    BY DEF Same, Grows, NoNewReset
  <2> QED BY <2>2, <2>3 DEF Local, Ended
<1> QED BY <1>1, <1>2, <1>3 DEF Local

(* A request whose own press keeps its account, and which touches no other. *)
LEMMA OneMoves ==
  ASSUME IInv, TypeOK', NEW p \in Presses, Local(p)', Grows, UNCHANGED resetting,
         \A q \in Presses \ {p} : Same(q)
  PROVE IInv'
<1>1. ASSUME NEW q \in Presses, q # p PROVE Local(q)'
  <2>1. TypeOK /\ Local(q) /\ Same(q) /\ NoNewReset(q)
    BY <1>1 DEF IInv, NoNewReset
  <2> QED BY <2>1, SameLocal
<1>2. ASSUME NEW q \in Presses PROVE Local(q)'
  BY <1>1, <1>2
<1> QED BY <1>2 DEF IInv

(* How the spent bounds grow. *)
LEMMA Spending ==
  ASSUME TypeOK, spent' = [spent EXCEPT !.throws = @ + 1]
  PROVE /\ spent' \in [throws : Nat, losses : Nat, resets : Nat]
        /\ spent'.throws = spent.throws + 1 /\ spent'.losses = spent.losses
<1>1. spent \in [throws : Nat, losses : Nat, resets : Nat]
  BY DEF TypeOK
<1> QED BY <1>1

LEMMA Losing ==
  ASSUME TypeOK, spent' = [spent EXCEPT !.losses = @ + 1]
  PROVE /\ spent' \in [throws : Nat, losses : Nat, resets : Nat]
        /\ spent'.throws = spent.throws /\ spent'.losses = spent.losses + 1
<1>1. spent \in [throws : Nat, losses : Nat, resets : Nat]
  BY DEF TypeOK
<1> QED BY <1>1

(* The request of p comes to one of the steps, and the others stay where they are. *)
Comes(p, steps) ==
  /\ pc' \in [Presses -> Steps] /\ pc'[p] \in steps
  /\ \A q \in Presses \ {p} : pc'[q] = pc[q]
  /\ answer' \in [Presses -> {"none", "joined", "started", "refused", "unavailable"}]

LEMMA GoesTo ==
  ASSUME TypeOK, NEW p \in Presses, NEW step \in Steps, Go(p, step), UNCHANGED answer
  PROVE Comes(p, {step})
<1>1. pc \in [Presses -> Steps]
  BY DEF TypeOK
<1>2. answer \in [Presses -> {"none", "joined", "started", "refused", "unavailable"}]
  BY DEF TypeOK
<1> QED BY <1>1, <1>2 DEF Go, Comes

LEMMA AnswersTo ==
  ASSUME TypeOK, NEW p \in Presses, NEW a \in {"joined", "started", "refused", "unavailable"},
         Answer(p, a)
  PROVE Comes(p, {"over"})
<1>1. pc \in [Presses -> Steps] /\ "over" \in Steps
  BY DEF TypeOK, Steps
<1>2. answer \in [Presses -> {"none", "joined", "started", "refused", "unavailable"}]
  BY DEF TypeOK
<1> QED BY <1>1, <1>2 DEF Answer, Go, Comes

(* A call that returns, and one that throws. *)
Returned(p, step) == Onward(p, step) /\ UNCHANGED spent
Thrown(p) ==
  /\ spent' = [spent EXCEPT !.throws = @ + 1]
  /\ Throw(p) /\ UNCHANGED <<current, accepted, at>>

(* What a call leaves as it is but for its effect and the place of its request. *)
Called(p, steps) ==
  /\ Comes(p, steps) /\ Grows
  /\ UNCHANGED <<current, accepted, at, clock, early, unseen, resetting>>

LEMMA Returning ==
  ASSUME TypeOK, NEW p \in Presses, NEW step \in Steps, Returned(p, step), NoOther(p)
  PROVE Called(p, {step}) /\ UNCHANGED spent
<1>1. Comes(p, {step})
  BY GoesTo DEF Returned, Onward
<1>2. Grows
  BY DEF TypeOK, Grows, Returned, NoOther, history
<1> QED BY <1>1, <1>2 DEF Called, Returned, Onward, NoOther, history

LEMMA Throwing ==
  ASSUME TypeOK, NEW p \in Presses, Thrown(p), NoOther(p)
  PROVE /\ Called(p, IF pc[p] = "send" THEN {"undoSubmissions"} ELSE {"over"})
        /\ spent'.throws = spent.throws + 1 /\ spent'.losses = spent.losses
<1>1. Comes(p, IF pc[p] = "send" THEN {"undoSubmissions"} ELSE {"over"})
  <2>1. CASE pc[p] = "send"
    BY <2>1, GoesTo DEF Thrown, Throw, Steps
  <2>2. CASE pc[p] # "send"
    BY <2>2, AnswersTo DEF Thrown, Throw
  <2> QED BY <2>1, <2>2
<1>2. /\ spent' \in [throws : Nat, losses : Nat, resets : Nat]
      /\ spent'.throws = spent.throws + 1 /\ spent'.losses = spent.losses
  BY Spending DEF Thrown
<1>3. /\ spent.throws \in Nat /\ spent.losses \in Nat
      /\ clock \in Nat
  BY DEF TypeOK
<1>4. Grows
  BY <1>2, <1>3 DEF Grows, NoOther, history
<1> QED BY <1>1, <1>2, <1>4 DEF Called, Thrown, NoOther, history

(* A request that moves on, or ends, with nothing stored. *)
LEMMA StoresKept ==
  ASSUME IInv, TypeOK', NEW p \in Presses, Grows, Comes(p, Steps),
         UNCHANGED <<stores, accepted, at, clock, early, resetting>>,
         \/ pc[p] \in {"idle", "counts", "prepare"} /\ pc'[p] \in {"counts", "prepare", "over"}
         \/ pc[p] = "append" /\ pc'[p] \in {"send", "over"}
         \/ pc[p] # "idle" /\ pc'[p] = "over" /\ spent'.losses > 0
  PROVE IInv'
<1>1. Local(p) /\ UNCHANGED <<job, created, submission, ledger, aborted, message>>
  BY DEF IInv, stores
<1>2. Begun(p)'
  BY <1>1 DEF Local, Begun, Unwritten, Before, Starting
<1>3. Sends(p)'
  <2>1. spent'.losses \in Nat
    BY DEF Grows
  <2>2. pc'[p] = "over" => ~Sent(p) \/ spent'.losses # 0
    BY <1>1, <2>1 DEF Local, Sends, Undoing
  <2>3. pc'[p] = "send" => at[p] = 1
    BY <1>1 DEF Local, Sends
  <2>4. Sent(p) => pc'[p] = "over"
    BY <1>1 DEF Local, Sends, Undoing
  <2>5. pc'[p] \in {"counts", "prepare", "over", "send"}
    OBVIOUS
  <2>6. \A i \in accepted[p] : ~(i < 1)
    BY DEF IInv, TypeOK, Items
  <2> QED BY <1>1, <2>2, <2>3, <2>4, <2>5, <2>6 DEF Local, Sends, Sent, AllSent, Waiting, Undoing
<1>4. Ended(p)'
  BY <1>1 DEF Local, Ended, Settled, Waiting, Before, Starting
<1>5. \A q \in Presses \ {p} : Same(q)
  BY <1>1 DEF Same, Comes
<1> QED BY <1>2, <1>3, <1>4, <1>5, OneMoves DEF Local

(* The newest job is one of the presses. *)
LEMMA NewestIsAPress ==
  ASSUME IInv, Jobs # {} PROVE NewestJob \in Presses
<1>1. \A j \in Jobs : j \in Presses /\ created[j] <= clock
  BY DEF IInv, Local, Begun, Jobs
<1> QED BY <1>1, NewestIsNewest DEF IInv

-----------------------------------------------------------------------------
(* The steps of starting a batch. *)

LEMMA AskNewestStep ==
  ASSUME IInv, NEW p \in Presses, AskNewest(p) PROVE IInv'
<1>1. TypeOK /\ pc[p] = "idle" /\ UNCHANGED <<stores, accepted, at, clock, early, resetting>>
  BY DEF IInv, AskNewest, Calls, stores
<1>2. current' \in [Presses -> Presses \cup {None}]
  <2>1. NewestJob \in Presses \cup {None}
    BY NewestIsAPress DEF NewestJob
  <2>2. current' = current \/ current' = [current EXCEPT ![p] = NewestJob]
    BY DEF AskNewest, Calls
  <2>3. current \in [Presses -> Presses \cup {None}]
    BY <1>1 DEF TypeOK
  <2> HIDE DEF NewestJob
  <2> QED BY <2>1, <2>2, <2>3
<1>3. unseen' \in [Presses -> SUBSET Presses]
  BY <1>1 DEF AskNewest, TypeOK
<1>4. Comes(p, {"counts", "prepare", "over"}) /\ Grows
  <2>1. \/ Go(p, "prepare") /\ UNCHANGED <<answer, spent>>
        \/ Go(p, "counts") /\ UNCHANGED <<answer, spent>>
        \/ Thrown(p) \/ (Answer(p, "unavailable") /\ spent' = [spent EXCEPT !.throws = @ + 1])
    BY <1>1 DEF AskNewest, Calls, Throw, Thrown
  <2>2. spent \in [throws : Nat, losses : Nat, resets : Nat] /\ clock \in Nat
    BY <1>1 DEF TypeOK
  <2>3. CASE Go(p, "prepare") /\ UNCHANGED <<answer, spent>>
    BY <1>1, <2>2, <2>3, GoesTo DEF Comes, Grows, Steps
  <2>4. CASE Go(p, "counts") /\ UNCHANGED <<answer, spent>>
    BY <1>1, <2>2, <2>4, GoesTo DEF Comes, Grows, Steps
  <2>5. CASE Answer(p, "unavailable") /\ spent' = [spent EXCEPT !.throws = @ + 1]
    BY <1>1, <2>2, <2>5, AnswersTo DEF Comes, Grows
  <2>6. Thrown(p) => Answer(p, "unavailable") /\ spent' = [spent EXCEPT !.throws = @ + 1]
    BY <1>1 DEF Thrown, Throw
  <2> QED BY <2>1, <2>3, <2>4, <2>5, <2>6
<1>5. TypeOK'
  BY <1>1, <1>2, <1>3, <1>4 DEF TypeOK, stores, Comes, Grows
<1> QED BY <1>1, <1>4, <1>5, StoresKept DEF Comes

LEMMA AskCountsStep ==
  ASSUME IInv, NEW p \in Presses, AskCounts(p) PROVE IInv'
<1>1. /\ TypeOK /\ pc[p] = "counts"
      /\ UNCHANGED <<stores, current, accepted, at, clock, early, unseen, resetting>>
  BY DEF IInv, AskCounts, Calls, NoOther, history
<1>2. Comes(p, {"prepare", "over"}) /\ Grows
  <2>1. \/ Go(p, "prepare") /\ UNCHANGED <<answer, spent>>
        \/ Answer(p, "joined") /\ UNCHANGED spent
        \/ Answer(p, "unavailable") /\ spent' = [spent EXCEPT !.throws = @ + 1]
    BY <1>1 DEF AskCounts, Calls, Throw
  <2>2. spent \in [throws : Nat, losses : Nat, resets : Nat] /\ clock \in Nat
    BY <1>1 DEF TypeOK
  <2>3. CASE Go(p, "prepare") /\ UNCHANGED <<answer, spent>>
    BY <1>1, <2>2, <2>3, GoesTo DEF Comes, Grows, Steps
  <2>4. CASE Answer(p, "joined") /\ UNCHANGED spent
    BY <1>1, <2>2, <2>4, AnswersTo DEF Comes, Grows
  <2>5. CASE Answer(p, "unavailable") /\ spent' = [spent EXCEPT !.throws = @ + 1]
    BY <1>1, <2>2, <2>5, AnswersTo DEF Comes, Grows
  <2> QED BY <2>1, <2>3, <2>4, <2>5
<1>3. TypeOK'
  BY <1>1, <1>2 DEF TypeOK, stores, Comes, Grows
<1> QED BY <1>1, <1>2, <1>3, StoresKept DEF Comes

LEMMA PrepareStep ==
  ASSUME IInv, NEW p \in Presses, Prepare(p) PROVE IInv'
<1>1. /\ TypeOK /\ Local(p) /\ pc[p] = "prepare"
      /\ UNCHANGED <<job, submission, ledger, aborted, message, at, resetting, early, spent>>
  BY DEF IInv, Prepare
<1>2. spent \in [throws : Nat, losses : Nat, resets : Nat] /\ clock \in Nat
  BY <1>1 DEF TypeOK
<1>3. CASE Answer(p, "refused") /\ UNCHANGED <<accepted, clock, created, current, unseen>>
  <2>1. Comes(p, {"over"}) /\ Grows
    BY <1>1, <1>2, <1>3, AnswersTo DEF Grows
  <2>2. TypeOK'
    BY <1>1, <1>3, <2>1 DEF TypeOK, Comes, Grows
  <2> QED BY <1>1, <1>3, <2>1, <2>2, StoresKept DEF Comes, stores
<1>4. ASSUME NEW ok \in Readable, accepted' = [accepted EXCEPT ![p] = ok],
             clock' = clock + 1, created' = [created EXCEPT ![p] = clock + 1],
             current' = [current EXCEPT ![p] = p],
             unseen' = [q \in Presses |->
               IF q # p /\ pc[q] \in {"counts", "prepare"} THEN unseen[q] \cup {p}
               ELSE unseen[q]],
             Go(p, "insertJob"), UNCHANGED answer
      PROVE IInv'
  <2>1. Comes(p, {"insertJob"}) /\ Grows
    BY <1>1, <1>2, <1>4, GoesTo DEF Grows, Steps, Starting
  <2>2. /\ accepted' \in [Presses -> SUBSET Items] /\ created' \in [Presses -> Nat]
        /\ current' \in [Presses -> Presses \cup {None}]
        /\ unseen' \in [Presses -> SUBSET Presses]
        /\ created'[p] = clock + 1
        /\ \A q \in Presses \ {p} : accepted'[q] = accepted[q] /\ created'[q] = created[q]
    <3>1. ok \in SUBSET Items
      BY IntakeAssumption
    <3>2. /\ accepted \in [Presses -> SUBSET Items] /\ created \in [Presses -> Nat]
          /\ current \in [Presses -> Presses \cup {None}]
          /\ unseen \in [Presses -> SUBSET Presses]
      BY <1>1 DEF TypeOK
    <3> QED BY <1>2, <1>4, <3>1, <3>2
  <2>3. TypeOK'
    BY <1>1, <2>1, <2>2 DEF TypeOK, Comes, Grows
  <2>4. Unwritten(p) /\ ~Sent(p) /\ job[p] = "NONE"
    BY <1>1 DEF Local, Begun, Sends, Before, Undoing
  <2>5. Begun(p)'
    BY <1>1, <1>2, <1>4, <2>1, <2>2, <2>4 DEF Begun, Unwritten, Comes, Before, Starting
  <2>6. Sends(p)'
    BY <1>1, <2>1, <2>4 DEF Sends, Sent, Unwritten, Comes, Undoing
  <2>7. Ended(p)'
    BY <1>1, <2>1 DEF Local, Ended, Settled, Waiting, Comes, Before, Starting
  <2>8. \A q \in Presses \ {p} : Same(q)
    BY <1>1, <2>1, <2>2 DEF Same, Comes
  <2> QED BY <1>1, <2>1, <2>3, <2>5, <2>6, <2>7, <2>8, OneMoves DEF Local
<1> QED BY <1>3, <1>4 DEF Prepare

LEMMA AppendStep ==
  ASSUME IInv, NEW p \in Presses, Append(p) PROVE IInv'
<1>1. TypeOK /\ pc[p] = "append" /\ NoOther(p) /\ UNCHANGED <<stores, accepted, at>>
  BY DEF IInv, Append, Calls, Onward
<1>2. Called(p, {"send", "over"})
  <2>1. Returned(p, "send") \/ Thrown(p)
    BY DEF Append, Calls, Returned, Thrown
  <2>2. "send" \in Steps
    BY DEF Steps
  <2>3. CASE Returned(p, "send")
    BY <1>1, <2>2, <2>3, Returning DEF Called, Comes
  <2>4. CASE Thrown(p)
    BY <1>1, <2>4, Throwing DEF Called, Comes
  <2> QED BY <2>1, <2>3, <2>4
<1>3. TypeOK'
  BY <1>1, <1>2 DEF TypeOK, stores, Called, Comes, Grows
<1>4. Comes(p, Steps)
  BY <1>2 DEF Called, Comes
<1> QED BY <1>1, <1>2, <1>3, <1>4, StoresKept DEF Called, Comes

LEMMA LoseStep ==
  ASSUME IInv, NEW p \in Presses, Lose(p) PROVE IInv'
<1>1. /\ TypeOK /\ pc[p] # "idle" /\ Go(p, "over")
      /\ UNCHANGED <<stores, current, accepted, at, answer, clock, early, unseen, resetting>>
      /\ spent' = [spent EXCEPT !.losses = @ + 1]
  BY DEF IInv, Lose, NoOther, history
<1>2. spent \in [throws : Nat, losses : Nat, resets : Nat] /\ clock \in Nat
  BY <1>1 DEF TypeOK
<1>3. Comes(p, {"over"})
  BY <1>1, GoesTo DEF Steps
<1>4. Grows /\ spent'.losses > 0
  BY <1>1, <1>2, Losing DEF Grows
<1>5. TypeOK'
  BY <1>1, <1>3, <1>4 DEF TypeOK, stores, Comes, Grows
<1>6. Comes(p, Steps) /\ pc'[p] = "over"
  BY <1>3 DEF Comes
<1> QED BY <1>1, <1>4, <1>5, <1>6, StoresKept

LEMMA InsertJobStep ==
  ASSUME IInv, NEW p \in Presses, InsertJob(p) PROVE IInv'
<1> DEFINE insert == /\ job' = [job EXCEPT ![p] = "PROCESSING"]
                     /\ UNCHANGED <<created, submission, ledger, aborted, message>>
<1>1. TypeOK /\ Local(p) /\ pc[p] = "insertJob"
  BY DEF IInv, InsertJob
<1>2. \/ insert /\ Returned(p, "open")
      \/ (insert \/ UNCHANGED stores) /\ Thrown(p)
  BY DEF InsertJob, Calls, Returned, Thrown
<1>3. Called(p, {"open", "over"}) /\ (pc'[p] = "open" => insert)
  <2>1. CASE insert /\ Returned(p, "open")
    <3>1. "open" \in Steps
      BY DEF Steps, Starting
    <3>2. Called(p, {"open"})
      BY <1>1, <2>1, <3>1, Returning DEF InsertJob
    <3> QED BY <2>1, <3>2 DEF Called, Comes
  <2>2. CASE Thrown(p)
    BY <1>1, <2>2, Throwing DEF InsertJob, Called, Comes
  <2> QED BY <1>2, <2>1, <2>2
<1>4. /\ job' \in [Presses -> {"NONE", "PROCESSING", "CANCELLED"}]
      /\ job'[p] \in {job[p], "PROCESSING"} /\ \A q \in Presses \ {p} : job'[q] = job[q]
      /\ pc'[p] = "open" => job'[p] = "PROCESSING"
      /\ UNCHANGED <<created, submission, ledger, aborted, message>>
  <2>1. job \in [Presses -> {"NONE", "PROCESSING", "CANCELLED"}]
    BY <1>1 DEF TypeOK
  <2>2. insert \/ UNCHANGED stores
    BY <1>2
  <2> QED BY <1>3, <2>1, <2>2 DEF stores
<1> HIDE DEF insert
<1>5. TypeOK'
  BY <1>1, <1>3, <1>4 DEF TypeOK, Called, Comes, Grows
<1>6. Begun(p)'
  BY <1>1, <1>3, <1>4 DEF Local, Begun, Unwritten, Called, Comes, Before, Starting
<1>7. Sends(p)'
  BY <1>1, <1>3, <1>4 DEF Local, Sends, Sent, Waiting, Called, Comes, Undoing
<1>8. Ended(p)'
  BY <1>1, <1>3, <1>4 DEF Local, Ended, Settled, Waiting, Called, Comes, Before, Starting
<1>9. \A q \in Presses \ {p} : Same(q)
  BY <1>3, <1>4 DEF Same, Called, Comes
<1> QED BY <1>3, <1>5, <1>6, <1>7, <1>8, <1>9, OneMoves DEF Local, Called

LEMMA OpenStep ==
  ASSUME IInv, NEW p \in Presses, Open(p) PROVE IInv'
<1> DEFINE open == /\ ledger' = [ledger EXCEPT ![p] = [i \in Items |-> "QUEUED"]]
                   /\ UNCHANGED <<job, created, submission, aborted, message>>
<1>1. TypeOK /\ Local(p) /\ pc[p] = "open" /\ NoOther(p)
  BY DEF IInv, Open
<1>2. \/ open /\ Returned(p, "insertSubmissions")
      \/ (open \/ UNCHANGED stores) /\ Thrown(p)
  BY DEF Open, Calls, Returned, Thrown
<1>3. Called(p, {"insertSubmissions", "over"})
  <2>1. "insertSubmissions" \in Steps
    BY DEF Steps, Starting
  <2>2. CASE Returned(p, "insertSubmissions")
    BY <1>1, <2>1, <2>2, Returning DEF Called, Comes
  <2>3. CASE Thrown(p)
    BY <1>1, <2>3, Throwing DEF Called, Comes
  <2> QED BY <1>2, <2>2, <2>3
<1>4. /\ ledger' \in [Presses -> [Items -> {"ABSENT", "QUEUED", "COMPLETED", "FAILED"}]]
      /\ \A q \in Presses \ {p} : ledger'[q] = ledger[q]
      /\ UNCHANGED <<job, created, submission, aborted, message>>
  <2>1. ledger \in [Presses -> [Items -> {"ABSENT", "QUEUED", "COMPLETED", "FAILED"}]]
    BY <1>1 DEF TypeOK
  <2>2. open \/ UNCHANGED stores
    BY <1>2
  <2> QED BY <2>1, <2>2 DEF stores
<1> HIDE DEF open
<1>5. TypeOK'
  BY <1>1, <1>3, <1>4 DEF TypeOK, Called, Comes, Grows
<1>6. Begun(p)'
  BY <1>1, <1>3, <1>4 DEF Local, Begun, Unwritten, Called, Comes, Before, Starting
<1>7. Sends(p)'
  BY <1>1, <1>3, <1>4 DEF Local, Sends, Sent, Waiting, Called, Comes, Undoing
<1>8. Ended(p)'
  <2>1. Items = {} => \A i \in Items : ledger'[p][i] # "QUEUED"
    OBVIOUS
  <2> QED BY <1>1, <1>3, <1>4, <2>1 DEF Local, Ended, Settled, Waiting, Called, Comes, Before, Starting
<1>9. \A q \in Presses \ {p} : Same(q)
  BY <1>3, <1>4 DEF Same, Called, Comes
<1> QED BY <1>3, <1>5, <1>6, <1>7, <1>8, <1>9, OneMoves DEF Local, Called

LEMMA InsertSubmissionsStep ==
  ASSUME IInv, NEW p \in Presses, InsertSubmissions(p) PROVE IInv'
<1> DEFINE row == [i \in Items |-> IF i \in accepted[p] THEN "QUEUED" ELSE "REJECTED"]
           insert == /\ submission' = [submission EXCEPT ![p] = row]
                     /\ UNCHANGED <<job, created, ledger, aborted, message>>
<1>1. TypeOK /\ Local(p) /\ pc[p] = "insertSubmissions" /\ NoOther(p)
  BY DEF IInv, InsertSubmissions
<1>2. \/ insert /\ Returned(p, "settleRejected")
      \/ (insert \/ UNCHANGED stores) /\ Thrown(p)
  BY DEF InsertSubmissions, Calls, Returned, Thrown
<1>3. Called(p, {"settleRejected", "over"})
  <2>1. "settleRejected" \in Steps
    BY DEF Steps
  <2>2. CASE Returned(p, "settleRejected")
    BY <1>1, <2>1, <2>2, Returning DEF Called, Comes
  <2>3. CASE Thrown(p)
    BY <1>1, <2>3, Throwing DEF Called, Comes
  <2> QED BY <1>2, <2>2, <2>3
<1>4. /\ submission' \in [Presses -> [Items -> SubmissionStates]]
      /\ \A q \in Presses \ {p} : submission'[q] = submission[q]
      /\ \A i \in Items : submission'[p][i] = "QUEUED" => submission[p][i] = "QUEUED" \/ i \in accepted[p]
      /\ UNCHANGED <<job, created, ledger, aborted, message>>
  <2>1. submission \in [Presses -> [Items -> SubmissionStates]] /\ row \in [Items -> SubmissionStates]
    BY <1>1 DEF TypeOK, SubmissionStates
  <2>2. insert \/ UNCHANGED stores
    BY <1>2
  <2> QED BY <2>1, <2>2 DEF stores
<1> HIDE DEF insert, row
<1>5. TypeOK'
  BY <1>1, <1>3, <1>4 DEF TypeOK, Called, Comes, Grows
<1>6. Begun(p)'
  BY <1>1, <1>3, <1>4 DEF Local, Begun, Unwritten, Called, Comes, Before, Starting
<1>7. Sends(p)'
  <2>1. ~Sent(p)
    BY <1>1 DEF Local, Sends, Undoing
  <2> QED BY <1>1, <1>3, <1>4, <2>1 DEF Local, Sends, Sent, Waiting, Called, Comes, Undoing
<1>8. Ended(p)'
  BY <1>1, <1>3, <1>4 DEF Local, Ended, Settled, Waiting, Called, Comes, Before, Starting
<1>9. \A q \in Presses \ {p} : Same(q)
  BY <1>3, <1>4 DEF Same, Called, Comes
<1> QED BY <1>3, <1>5, <1>6, <1>7, <1>8, <1>9, OneMoves DEF Local, Called

(* A loop over the corpus, whose last item takes the request to another step. *)
Looped(p, step) ==
  /\ UNCHANGED <<current, accepted, clock, early, unseen, resetting>>
  /\ Grows
  /\ at' \in [Presses -> Nat] /\ \A q \in Presses \ {p} : at'[q] = at[q]
  /\ \/ Comes(p, {pc[p]}) /\ at[p] < Size /\ at'[p] = at[p] + 1
     \/ Comes(p, {step}) /\ ~(at[p] < Size) /\ at'[p] = 1

LEMMA SettleRejectedStep ==
  ASSUME IInv, NEW p \in Presses, SettleRejected(p) PROVE IInv'
<1> DEFINE fail == /\ ledger' = Put(ledger, p, at[p], "FAILED")
                   /\ UNCHANGED <<job, created, submission, aborted, message>>
           step == Step(p, Go(p, "append") /\ UNCHANGED answer) /\ UNCHANGED spent
<1>1. TypeOK /\ Local(p) /\ pc[p] = "settleRejected" /\ NoOther(p)
  BY DEF IInv, SettleRejected
<1>2. \/ (fail \/ UNCHANGED stores) /\ step
      \/ (fail \/ UNCHANGED stores) /\ Thrown(p)
  BY DEF SettleRejected, Calls, Thrown
<1>3. Looped(p, "append") \/ Called(p, {"over"})
  <2>1. /\ at \in [Presses -> Nat] /\ pc \in [Presses -> Steps] /\ clock \in Nat
        /\ answer \in [Presses -> {"none", "joined", "started", "refused", "unavailable"}]
        /\ spent \in [throws : Nat, losses : Nat, resets : Nat]
    BY <1>1 DEF TypeOK
  <2>2. CASE Thrown(p)
    BY <1>1, <2>2, Throwing
  <2>3. CASE step
    <3>1. Grows /\ UNCHANGED <<current, accepted, clock, early, unseen, resetting>>
      BY <1>1, <2>1, <2>3 DEF Step, NoOther, history, Grows
    <3>2. CASE at[p] < Size
      BY <2>1, <2>3, <3>1, <3>2 DEF Step, Looped, Comes
    <3>3. CASE ~(at[p] < Size)
      <4>1. Comes(p, {"append"})
        BY <1>1, <2>3, <3>3, GoesTo DEF Step, Steps
      <4> QED BY <2>1, <2>3, <3>1, <3>3, <4>1 DEF Step, Looped
    <3> QED BY <3>2, <3>3
  <2> QED BY <1>2, <2>2, <2>3
<1>4. /\ ledger' \in [Presses -> [Items -> {"ABSENT", "QUEUED", "COMPLETED", "FAILED"}]]
      /\ \A q \in Presses \ {p} : ledger'[q] = ledger[q]
      /\ \A i \in Items : ledger'[p][i] = "QUEUED" => ledger[p][i] = "QUEUED"
      /\ UNCHANGED <<job, created, submission, aborted, message>>
  <2>1. ledger \in [Presses -> [Items -> {"ABSENT", "QUEUED", "COMPLETED", "FAILED"}]]
    BY <1>1 DEF TypeOK
  <2>2. fail \/ UNCHANGED stores
    BY <1>2
  <2> QED BY <2>1, <2>2 DEF stores, Put
<1> HIDE DEF fail, step
<1>5. /\ pc' \in [Presses -> Steps] /\ pc'[p] \in {"settleRejected", "append", "over"}
      /\ pc'[p] = "append" => at'[p] = 1
      /\ at' \in [Presses -> Nat]
      /\ \A q \in Presses \ {p} : pc'[q] = pc[q] /\ at'[q] = at[q]
      /\ answer' \in [Presses -> {"none", "joined", "started", "refused", "unavailable"}]
      /\ UNCHANGED <<current, accepted, clock, early, unseen, resetting>> /\ Grows
  <2>1. at \in [Presses -> Nat]
    BY <1>1 DEF TypeOK
  <2> QED BY <1>1, <1>3, <2>1 DEF Looped, Called, Comes
<1>6. TypeOK'
  BY <1>1, <1>4, <1>5 DEF TypeOK, Grows
<1>7. Begun(p)'
  BY <1>1, <1>4, <1>5 DEF Local, Begun, Unwritten, Before, Starting
<1>8. Sends(p)'
  BY <1>1, <1>4, <1>5 DEF Local, Sends, Sent, Waiting, Undoing
<1>9. Ended(p)'
  BY <1>1, <1>4, <1>5 DEF Local, Ended, Settled, Waiting, Before, Starting
<1>10. \A q \in Presses \ {p} : Same(q)
  BY <1>4, <1>5 DEF Same
<1> QED BY <1>5, <1>6, <1>7, <1>8, <1>9, <1>10, OneMoves DEF Local

LEMMA SendStep ==
  ASSUME IInv, NEW p \in Presses, Send(p) PROVE IInv'
<1> DEFINE sent == /\ message' = Put(message, p, at[p], "ready")
                   /\ UNCHANGED <<job, created, submission, ledger, aborted>>
           step == Step(p, Answer(p, "started")) /\ UNCHANGED spent
<1>1. TypeOK /\ Local(p) /\ pc[p] = "send" /\ NoOther(p)
  BY DEF IInv, Send
<1>2. \/ at[p] \in accepted[p] /\ sent /\ step
      \/ at[p] \notin accepted[p] /\ UNCHANGED stores /\ step
      \/ (sent \/ UNCHANGED stores) /\ Thrown(p)
  BY DEF Send, Calls, Thrown
<1>3. /\ at \in [Presses -> Nat] /\ pc \in [Presses -> Steps] /\ clock \in Nat
      /\ answer \in [Presses -> {"none", "joined", "started", "refused", "unavailable"}]
      /\ spent \in [throws : Nat, losses : Nat, resets : Nat]
      /\ accepted[p] \subseteq Items /\ Size \in Nat
      /\ message \in [Presses -> [Items -> {"unsent", "ready", "gone"}]]
  BY <1>1, IntakeAssumption DEF TypeOK
<1>4. /\ message' \in [Presses -> [Items -> {"unsent", "ready", "gone"}]]
      /\ \A q \in Presses \ {p} : message'[q] = message[q]
      /\ \A i \in Items : message[p][i] # "unsent" => message'[p][i] # "unsent"
      /\ \A i \in Items : message'[p][i] = "gone" => message[p][i] = "gone"
      /\ UNCHANGED <<job, created, submission, ledger, aborted>>
  <2>1. UNCHANGED <<job, created, submission, ledger, aborted>>
    BY <1>2 DEF stores
  <2>2. CASE message' = message
    BY <1>3, <2>1, <2>2
  <2>3. CASE message' = [message EXCEPT ![p] = [message[p] EXCEPT ![at[p]] = "ready"]]
    <3>1. [message[p] EXCEPT ![at[p]] = "ready"] \in [Items -> {"unsent", "ready", "gone"}]
      BY <1>3
    <3> QED BY <1>3, <2>1, <2>3, <3>1
  <2> QED BY <1>2, <2>2, <2>3 DEF stores, Put
<1>5. step /\ at[p] \in accepted[p] => message'[p][at[p]] # "unsent"
  <2>1. CASE at[p] \in accepted[p] /\ sent
    BY <1>3, <2>1 DEF Put
  <2>2. CASE Thrown(p)
    <3>1. spent' # spent
      BY <1>1, <1>3, <2>2, Throwing
    <3> QED BY <3>1
  <2> QED BY <1>2, <2>1, <2>2
<1>6. \/ Looped(p, "over") /\ step
      \/ Called(p, {"undoSubmissions"}) /\ spent'.throws >= 1
  <2>1. CASE Thrown(p)
    BY <1>1, <1>3, <2>1, Throwing
  <2>2. CASE step
    <3>1. Grows /\ UNCHANGED <<current, accepted, clock, early, unseen, resetting>>
      BY <1>1, <1>3, <2>2 DEF Step, NoOther, history, Grows
    <3>2. CASE at[p] < Size
      BY <1>3, <2>2, <3>1, <3>2 DEF Step, Looped, Comes
    <3>3. CASE ~(at[p] < Size)
      <4>1. Comes(p, {"over"})
        BY <1>1, <2>2, <3>3, AnswersTo DEF Step
      <4> QED BY <1>3, <2>2, <3>1, <3>3, <4>1 DEF Step, Looped
    <3> QED BY <3>2, <3>3
  <2> QED BY <1>2, <2>1, <2>2
<1> HIDE DEF sent, step
<1>7. /\ pc' \in [Presses -> Steps] /\ pc'[p] \in {"send", "undoSubmissions", "over"}
      /\ at' \in [Presses -> Nat]
      /\ \A q \in Presses \ {p} : pc'[q] = pc[q] /\ at'[q] = at[q]
      /\ answer' \in [Presses -> {"none", "joined", "started", "refused", "unavailable"}]
      /\ UNCHANGED <<current, accepted, clock, early, unseen, resetting>> /\ Grows
      /\ pc'[p] = "undoSubmissions" => spent'.throws >= 1
      /\ pc'[p] = "send" => step /\ at'[p] = at[p] + 1
      /\ pc'[p] = "over" => step /\ ~(at[p] < Size)
  BY <1>1, <1>3, <1>6 DEF Looped, Called, Comes
<1>8. TypeOK'
  BY <1>1, <1>4, <1>7 DEF TypeOK, Grows
<1>9. Begun(p)'
  BY <1>1, <1>4, <1>7 DEF Local, Begun, Unwritten, Before, Starting
<1>10. Sends(p)'
  <2>1. \A i \in accepted[p] : i < at[p] => message'[p][i] # "unsent"
    BY <1>1, <1>3, <1>4 DEF Local, Sends
  <2>2. step => \A i \in accepted[p] : i < at[p] + 1 => message'[p][i] # "unsent"
    BY <1>3, <1>5, <2>1 DEF Items
  <2>3. pc'[p] = "over" => AllSent(p)'
    BY <1>3, <1>7, <2>2 DEF Items, AllSent
  <2>4. pc'[p] = "send" => \A i \in accepted'[p] : i < at'[p] => message'[p][i] # "unsent"
    BY <1>7, <2>2
  <2>5. \A i \in Items : message'[p][i] = "gone" => submission'[p][i] # "QUEUED" \/ aborted'[p]
    BY <1>1, <1>4 DEF Local, Sends
  <2>6. \A i \in Items : submission'[p][i] = "QUEUED" => i \in accepted'[p]
    BY <1>1, <1>4, <1>7 DEF Local, Sends
  <2>7. job'[p] # "NONE"
    BY <1>1, <1>4 DEF Local, Begun
  <2> QED BY <1>7, <2>3, <2>4, <2>5, <2>6, <2>7 DEF Sends, Undoing
<1>11. Ended(p)'
  BY <1>1, <1>4, <1>7 DEF Local, Ended, Settled, Waiting, Before, Starting
<1>12. \A q \in Presses \ {p} : Same(q)
  BY <1>4, <1>7 DEF Same
<1> QED BY <1>7, <1>8, <1>9, <1>10, <1>11, <1>12, OneMoves DEF Local

-----------------------------------------------------------------------------
(* The settling of a job in D1 and in its coordinator. *)

(* Settling the submissions leaves none waiting and writes none that was not there. *)
LEMMA SettlesRecord ==
  ASSUME TypeOK, NEW j \in Presses, SettleSubmissions(j)
  PROVE /\ submission' \in [Presses -> [Items -> SubmissionStates]]
        /\ \A q \in Presses \ {j} : submission'[q] = submission[q]
        /\ \A i \in Items : /\ submission'[j][i] # "QUEUED"
                            /\ submission[j][i] = "NONE" => submission'[j][i] = "NONE"
<1>1. submission \in [Presses -> [Items -> SubmissionStates]]
  BY DEF TypeOK
<1> QED BY <1>1 DEF SettleSubmissions, SubmissionStates

(* Aborting a job marks it and leaves no row of it waiting. *)
LEMMA AbortsJob ==
  ASSUME TypeOK, NEW j \in Presses, AbortJob(j)
  PROVE /\ aborted' \in [Presses -> BOOLEAN]
        /\ ledger' \in [Presses -> [Items -> {"ABSENT", "QUEUED", "COMPLETED", "FAILED"}]]
        /\ \A q \in Presses \ {j} : aborted'[q] = aborted[q] /\ ledger'[q] = ledger[q]
        /\ aborted'[j] = TRUE /\ \A i \in Items : ledger'[j][i] # "QUEUED"
<1>1. aborted \in [Presses -> BOOLEAN]
  BY DEF TypeOK
<1>2. ledger \in [Presses -> [Items -> {"ABSENT", "QUEUED", "COMPLETED", "FAILED"}]]
  BY DEF TypeOK
<1>3. aborted' \in [Presses -> BOOLEAN] /\ \A q \in Presses \ {j} : aborted'[q] = aborted[q]
  BY <1>1 DEF AbortJob
<1>4. aborted'[j] = TRUE
  BY <1>1 DEF AbortJob
<1>5. ledger' = [ledger EXCEPT ![j] = [i \in Items |->
                  IF ledger[j][i] = "QUEUED" THEN "FAILED" ELSE ledger[j][i]]]
  BY DEF AbortJob
<1>6. /\ ledger' \in [Presses -> [Items -> {"ABSENT", "QUEUED", "COMPLETED", "FAILED"}]]
      /\ \A q \in Presses \ {j} : ledger'[q] = ledger[q]
      /\ \A i \in Items : ledger'[j][i] # "QUEUED"
  BY <1>2, <1>5
<1> QED BY <1>3, <1>4, <1>6

LEMMA UndoStep ==
  ASSUME IInv, NEW p \in Presses, Undo(p) PROVE IInv'
<1> DEFINE settle == SettleSubmissions(p) /\ UNCHANGED <<job, created, ledger, aborted, message>>
           cancel == /\ job' = [job EXCEPT ![p] = "CANCELLED"]
                     /\ UNCHANGED <<created, submission, ledger, aborted, message>>
           abort == AbortJob(p) /\ UNCHANGED <<job, created, submission, message>>
           ends == /\ Answer(p, "unavailable") /\ UNCHANGED <<current, accepted, at, spent>>
<1>1. /\ TypeOK /\ Local(p) /\ pc[p] \in Undoing /\ NoOther(p)
      /\ spent \in [throws : Nat, losses : Nat, resets : Nat] /\ clock \in Nat
      /\ spent.throws >= 1
  BY DEF IInv, Undo, Undoing, TypeOK, Local, Sends
<1>2. CASE pc[p] = "undoSubmissions"
  <2>1. \/ settle /\ Returned(p, "undoJob")
        \/ (settle \/ UNCHANGED stores) /\ Thrown(p)
    BY <1>2 DEF Undo, Calls, Returned, Thrown
  <2>2. Called(p, {"undoJob", "over"}) /\ (pc'[p] = "over" => spent'.throws >= 2)
        /\ (pc'[p] = "undoJob" => settle)
    <3>1. CASE settle /\ Returned(p, "undoJob")
      BY <1>1, <3>1, Returning DEF Called, Comes, Steps
    <3>2. CASE Thrown(p)
      BY <1>1, <1>2, <3>2, Throwing DEF Called, Comes
    <3> QED BY <2>1, <3>1, <3>2
  <2>3. /\ submission' \in [Presses -> [Items -> SubmissionStates]]
        /\ \A q \in Presses \ {p} : submission'[q] = submission[q]
        /\ \A i \in Items : submission'[p][i] = "QUEUED" => submission[p][i] = "QUEUED"
        /\ \A i \in Items : submission[p][i] = "NONE" => submission'[p][i] = "NONE"
        /\ pc'[p] = "undoJob" => \A i \in Items : submission'[p][i] # "QUEUED"
        /\ UNCHANGED <<job, created, ledger, aborted, message>>
    <3>1. CASE settle
      BY <1>1, <3>1, SettlesRecord
    <3>2. CASE pc'[p] # "undoJob" /\ UNCHANGED stores
      <4>1. submission \in [Presses -> [Items -> SubmissionStates]]
        BY <1>1 DEF TypeOK
      <4> QED BY <3>2, <4>1 DEF stores
    <3> QED BY <2>1, <2>2, <3>1, <3>2
  <2> HIDE DEF settle
  <2>4. TypeOK'
    BY <1>1, <2>2, <2>3 DEF TypeOK, Called, Comes, Grows
  <2>5. Begun(p)'
    BY <1>1, <1>2, <2>2, <2>3 DEF Local, Begun, Unwritten, Called, Comes, Before, Starting
  <2>6. Sends(p)'
    <3>1. /\ spent'.throws \in Nat /\ spent'.throws >= 1
          /\ pc'[p] = "over" => ~(spent'.throws <= 1)
      BY <1>1, <2>2 DEF Called, Grows
    <3>2. pc'[p] \in {"undoJob", "over"} /\ (pc'[p] = "undoJob" => ~Waiting(p)')
      BY <2>2, <2>3 DEF Called, Comes, Waiting
    <3>3. \A i \in Items : submission'[p][i] = "QUEUED" => i \in accepted'[p]
      BY <1>1, <2>2, <2>3 DEF Local, Sends, Called
    <3>4. \A i \in Items : message'[p][i] = "gone" => submission'[p][i] # "QUEUED" \/ aborted'[p]
      BY <1>1, <2>3 DEF Local, Sends
    <3>5. job'[p] # "NONE"
      BY <1>1, <1>2, <2>3 DEF Local, Begun
    <3> QED BY <3>1, <3>2, <3>3, <3>4, <3>5 DEF Sends, Undoing
  <2>7. Ended(p)'
    BY <1>1, <1>2, <2>2, <2>3 DEF Local, Ended, Settled, Waiting, Called, Comes, Before, Starting
  <2>8. \A q \in Presses \ {p} : Same(q)
    BY <2>2, <2>3 DEF Same, Called, Comes
  <2> QED BY <2>2, <2>4, <2>5, <2>6, <2>7, <2>8, OneMoves DEF Local, Called
<1>3. CASE pc[p] = "undoJob"
  <2>1. \/ cancel /\ Returned(p, "undoLedger")
        \/ (cancel \/ UNCHANGED stores) /\ Thrown(p)
    BY <1>3 DEF Undo, Calls, Returned, Thrown
  <2>2. Called(p, {"undoLedger", "over"})
    <3>1. CASE Returned(p, "undoLedger")
      BY <1>1, <3>1, Returning DEF Called, Comes, Steps
    <3>2. CASE Thrown(p)
      BY <1>1, <1>3, <3>2, Throwing DEF Called, Comes
    <3> QED BY <2>1, <3>1, <3>2
  <2>3. /\ job' \in [Presses -> {"NONE", "PROCESSING", "CANCELLED"}]
        /\ job'[p] \in {job[p], "CANCELLED"} /\ \A q \in Presses \ {p} : job'[q] = job[q]
        /\ UNCHANGED <<created, submission, ledger, aborted, message>>
    <3>1. job \in [Presses -> {"NONE", "PROCESSING", "CANCELLED"}]
      BY <1>1 DEF TypeOK
    <3>2. cancel \/ UNCHANGED stores
      BY <2>1
    <3> QED BY <3>1, <3>2 DEF stores
  <2> HIDE DEF cancel
  <2>4. TypeOK'
    BY <1>1, <2>2, <2>3 DEF TypeOK, Called, Comes, Grows
  <2>5. Begun(p)'
    BY <1>1, <1>3, <2>2, <2>3 DEF Local, Begun, Unwritten, Called, Comes, Before, Starting
  <2>6. Sends(p)'
    <3>1. spent'.throws \in Nat /\ spent'.throws >= 1
      BY <1>1, <2>2 DEF Called, Grows
    <3> QED BY <1>1, <1>3, <2>2, <2>3, <3>1 DEF Local, Sends, Sent, Waiting, Called, Comes, Undoing
  <2>7. Ended(p)'
    BY <1>1, <1>3, <2>2, <2>3 DEF Local, Ended, Settled, Waiting, Called, Comes, Before, Starting
  <2>8. \A q \in Presses \ {p} : Same(q)
    BY <2>2, <2>3 DEF Same, Called, Comes
  <2> QED BY <2>2, <2>4, <2>5, <2>6, <2>7, <2>8, OneMoves DEF Local, Called
<1>4. CASE pc[p] = "undoLedger"
  <2>1. \/ abort /\ ends
        \/ (abort \/ UNCHANGED stores) /\ Thrown(p)
    BY <1>4 DEF Undo, Calls, Thrown
  <2>2. Called(p, {"over"})
    <3>1. CASE ends
      <4>1. Comes(p, {"over"})
        BY <1>1, <3>1, AnswersTo
      <4> QED BY <1>1, <3>1, <4>1 DEF Called, Grows, NoOther, history
    <3>2. CASE Thrown(p)
      BY <1>1, <1>4, <3>2, Throwing DEF Called, Comes
    <3> QED BY <2>1, <3>1, <3>2
  <2>3. /\ aborted' \in [Presses -> BOOLEAN]
        /\ ledger' \in [Presses -> [Items -> {"ABSENT", "QUEUED", "COMPLETED", "FAILED"}]]
        /\ \A q \in Presses \ {p} : aborted'[q] = aborted[q] /\ ledger'[q] = ledger[q]
        /\ \/ aborted'[p] = TRUE /\ \A i \in Items : ledger'[p][i] # "QUEUED"
           \/ aborted'[p] = aborted[p] /\ ledger'[p] = ledger[p]
        /\ UNCHANGED <<job, created, submission, message>>
    <3>1. CASE abort
      BY <1>1, <3>1, AbortsJob
    <3>2. CASE UNCHANGED stores
      <4>1. /\ aborted \in [Presses -> BOOLEAN]
            /\ ledger \in [Presses -> [Items -> {"ABSENT", "QUEUED", "COMPLETED", "FAILED"}]]
        BY <1>1 DEF TypeOK
      <4> QED BY <3>2, <4>1 DEF stores
    <3> QED BY <2>1, <3>1, <3>2
  <2> HIDE DEF abort, ends
  <2>4. TypeOK'
    BY <1>1, <2>2, <2>3 DEF TypeOK, Called, Comes, Grows
  <2>5. Begun(p)'
    BY <1>1, <1>4, <2>2, <2>3 DEF Local, Begun, Unwritten, Called, Comes, Before, Starting
  <2>6. ~Waiting(p) /\ ~Waiting(p)' /\ pc'[p] = "over"
    BY <1>1, <1>4, <2>2, <2>3 DEF Local, Sends, Waiting, Called, Comes
  <2>7. Sends(p)'
    BY <1>1, <1>4, <2>2, <2>3, <2>6 DEF Local, Sends, Sent, Waiting, Called, Comes, Undoing
  <2>8. Ended(p)'
    <3>1. Settled(p)'
      BY <2>6 DEF Settled, Before, Starting
    <3>2. CASE \A i \in Items : ledger'[p][i] # "QUEUED"
      BY <3>1, <3>2 DEF Ended
    <3>3. CASE aborted'[p] = aborted[p] /\ ledger'[p] = ledger[p]
      BY <1>1, <2>2, <3>1, <3>3 DEF Local, Ended, Called
    <3> QED BY <2>3, <3>2, <3>3
  <2>9. \A q \in Presses \ {p} : Same(q)
    BY <2>2, <2>3 DEF Same, Called, Comes
  <2> QED BY <2>2, <2>4, <2>5, <2>7, <2>8, <2>9, OneMoves DEF Local, Called
<1> QED BY <1>1, <1>2, <1>3, <1>4 DEF Undoing

(* What a reset may spend. *)
LEMMA ResetSpends ==
  ASSUME TypeOK, UNCHANGED spent \/ spent' = [spent EXCEPT !.throws = @ + 1],
         UNCHANGED clock, early \subseteq early'
  PROVE Grows
<1>1. spent \in [throws : Nat, losses : Nat, resets : Nat] /\ clock \in Nat
  BY DEF TypeOK
<1>2. CASE UNCHANGED spent
  BY <1>1, <1>2 DEF Grows
<1>3. CASE spent' = [spent EXCEPT !.throws = @ + 1]
  BY <1>1, <1>3, Spending DEF Grows
<1> QED BY <1>2, <1>3

LEMMA PressResetStep ==
  ASSUME IInv, PressReset PROVE IInv'
<1>1. /\ TypeOK /\ UNCHANGED <<stores, requestVars, clock, history>>
      /\ spent' = [spent EXCEPT !.resets = @ + 1]
  BY DEF IInv, PressReset
<1>2. resetting' \in [step : {"record"}, job : Presses]
  <2>1. NewestJob \in Presses
    BY NewestIsAPress DEF PressReset, NewestJob
  <2> HIDE DEF NewestJob
  <2> QED BY <2>1 DEF PressReset
<1>3. Grows
  <2>1. spent \in [throws : Nat, losses : Nat, resets : Nat] /\ clock \in Nat
    BY <1>1 DEF TypeOK
  <2> QED BY <1>1, <2>1 DEF Grows, history
<1>4. TypeOK'
  BY <1>1, <1>2, <1>3 DEF TypeOK, stores, requestVars, history, Grows
<1>5. ASSUME NEW q \in Presses PROVE Local(q)'
  <2>1. Same(q) /\ NoNewReset(q) /\ Local(q)
    BY <1>1, <1>2 DEF IInv, Same, NoNewReset, stores, requestVars
  <2> QED BY <1>1, <1>3, <2>1, SameLocal
<1> QED BY <1>4, <1>5 DEF IInv

LEMMA ResetRecordStep ==
  ASSUME IInv, ResetRecord, NEW j \in Presses, resetting.job = j PROVE IInv'
<1>1. /\ TypeOK /\ resetting.step = "record"
      /\ UNCHANGED <<job, created, ledger, aborted, message, requestVars, clock, unseen>>
  BY DEF IInv, TypeOK, ResetRecord
<1>2. \/ SettleSubmissions(j) \/ UNCHANGED submission
  BY DEF ResetRecord
<1>3. /\ submission' \in [Presses -> [Items -> SubmissionStates]]
      /\ \A q \in Presses \ {j} : submission'[q] = submission[q]
      /\ \A i \in Items : submission'[j][i] = "QUEUED" => submission[j][i] = "QUEUED"
      /\ \A i \in Items : submission[j][i] = "NONE" => submission'[j][i] = "NONE"
  <2>1. CASE SettleSubmissions(j)
    BY <1>1, <2>1, SettlesRecord
  <2>2. CASE UNCHANGED submission
    BY <1>1, <2>2 DEF TypeOK
  <2> QED BY <1>2, <2>1, <2>2
<1>4. /\ \/ resetting' = [step |-> "abort", job |-> j] /\ UNCHANGED spent
         \/ /\ resetting' = [step |-> "idle", job |-> None]
            /\ spent' = [spent EXCEPT !.throws = @ + 1]
      /\ early' \in {early, early \cup {j}}
      /\ resetting'.step = "abort" =>
           /\ SettleSubmissions(j)
           /\ j \notin early' => \A i \in Items : submission[j][i] # "NONE"
  <2>1. [resetting EXCEPT !.step = "abort"] = [step |-> "abort", job |-> j]
    BY <1>1 DEF TypeOK
  <2> QED BY <2>1 DEF ResetRecord, ResetThrows, ResetEnds
<1>5. Grows
  BY <1>1, <1>4, ResetSpends
<1>6. TypeOK'
  BY <1>1, <1>3, <1>4, <1>5 DEF TypeOK, requestVars, Grows
<1>7. ASSUME NEW q \in Presses, q # j PROVE Local(q)'
  <2>1. Same(q) /\ NoNewReset(q) /\ Local(q)
    BY <1>1, <1>3, <1>4, <1>7 DEF IInv, Same, NoNewReset, requestVars
  <2> QED BY <1>1, <1>5, <2>1, SameLocal
<1>8. Local(j)'
  <2>1. Local(j) /\ UNCHANGED <<pc, at, accepted>>
    BY <1>1 DEF IInv, requestVars
  <2>2. Begun(j)'
    BY <1>1, <1>3, <2>1 DEF Local, Begun, Unwritten, Before, Starting
  <2>3. Waiting(j)' => Waiting(j)
    BY <1>3 DEF Waiting
  <2>4. Sends(j)'
    <3>1. /\ spent'.throws \in Nat /\ spent'.losses \in Nat /\ spent.throws \in Nat
          /\ spent.losses \in Nat /\ spent'.throws >= spent.throws /\ spent'.losses >= spent.losses
      BY <1>1, <1>5 DEF TypeOK, Grows
    <3> QED BY <1>1, <1>3, <2>1, <2>3, <3>1 DEF Local, Sends, Sent, AllSent
  <2>5. Ended(j)'
    <3>1. resetting'.step = "abort" /\ j \notin early' => Settled(j)'
      <4>1. SUFFICES ASSUME SettleSubmissions(j), \A i \in Items : submission[j][i] # "NONE"
                     PROVE Settled(j)'
        BY <1>4
      <4>2. ~Waiting(j)'
        BY <1>1, <4>1, SettlesRecord DEF Waiting
      <4>3. pc[j] \notin Before \/ Items = {}
        BY <2>1, <4>1 DEF Local, Begun, Unwritten
      <4> QED BY <2>1, <4>2, <4>3 DEF Settled
    <3>2. Settled(j) => Settled(j)'
      BY <2>1, <2>3 DEF Settled
    <3>3. j \notin early' => j \notin early
      BY <1>4
    <3> QED BY <1>1, <2>1, <3>1, <3>2, <3>3 DEF Local, Ended
  <2> QED BY <2>2, <2>4, <2>5 DEF Local
<1> QED BY <1>6, <1>7, <1>8 DEF IInv

LEMMA ResetLedgerStep ==
  ASSUME IInv, ResetLedger, NEW j \in Presses, resetting.job = j PROVE IInv'
<1>1. /\ TypeOK /\ resetting.step = "abort"
      /\ UNCHANGED <<job, created, submission, message, requestVars, clock, history>>
  BY DEF IInv, TypeOK, ResetLedger
<1>2. /\ resetting' = [step |-> "idle", job |-> None]
      /\ UNCHANGED spent \/ spent' = [spent EXCEPT !.throws = @ + 1]
  BY DEF ResetLedger, ResetThrows, ResetEnds
<1>3. /\ aborted' \in [Presses -> BOOLEAN]
      /\ ledger' \in [Presses -> [Items -> {"ABSENT", "QUEUED", "COMPLETED", "FAILED"}]]
      /\ \A q \in Presses \ {j} : aborted'[q] = aborted[q] /\ ledger'[q] = ledger[q]
      /\ \/ aborted'[j] = TRUE /\ \A i \in Items : ledger'[j][i] # "QUEUED"
         \/ aborted'[j] = aborted[j] /\ ledger'[j] = ledger[j]
  <2>1. AbortJob(j) \/ UNCHANGED <<ledger, aborted>>
    BY DEF ResetLedger
  <2>2. CASE AbortJob(j)
    BY <1>1, <2>2, AbortsJob
  <2>3. CASE UNCHANGED <<ledger, aborted>>
    <3>1. /\ aborted \in [Presses -> BOOLEAN]
          /\ ledger \in [Presses -> [Items -> {"ABSENT", "QUEUED", "COMPLETED", "FAILED"}]]
      BY <1>1 DEF TypeOK
    <3> QED BY <2>3, <3>1
  <2> QED BY <2>1, <2>2, <2>3
<1>4. Local(j) /\ (j \notin early => Settled(j))
  BY <1>1 DEF IInv, Local, Ended
<1>5. Grows
  BY <1>1, <1>2, ResetSpends DEF history
<1>6. TypeOK'
  BY <1>1, <1>2, <1>3, <1>5 DEF TypeOK, requestVars, history, Grows
<1>7. ASSUME NEW q \in Presses, q # j PROVE Local(q)'
  <2>1. Same(q) /\ NoNewReset(q) /\ Local(q)
    BY <1>1, <1>2, <1>3, <1>7 DEF IInv, Same, NoNewReset, requestVars
  <2> QED BY <1>1, <1>5, <2>1, SameLocal
<1>8. Local(j)'
  <2>1. UNCHANGED <<pc, at, accepted, early>>
    BY <1>1 DEF requestVars, history
  <2>2. Begun(j)'
    BY <1>1, <1>4, <2>1 DEF Local, Begun, Unwritten
  <2>3. Sends(j)'
    <3>1. /\ spent'.throws \in Nat /\ spent'.losses \in Nat /\ spent.throws \in Nat
          /\ spent.losses \in Nat /\ spent'.throws >= spent.throws /\ spent'.losses >= spent.losses
      BY <1>1, <1>5 DEF TypeOK, Grows
    <3>2. aborted[j] => aborted'[j]
      BY <1>3
    <3> QED BY <1>1, <1>4, <2>1, <3>1, <3>2 DEF Local, Sends, Sent, AllSent, Waiting
  <2>4. Ended(j)'
    <3>1. Settled(j)' <=> Settled(j)
      BY <1>1, <2>1 DEF Settled, Waiting
    <3>2. resetting'.step # "abort"
      BY <1>2
    <3>3. CASE \A i \in Items : ledger'[j][i] # "QUEUED"
      BY <1>4, <2>1, <3>1, <3>2, <3>3 DEF Ended
    <3>4. CASE aborted'[j] = aborted[j] /\ ledger'[j] = ledger[j]
      BY <1>4, <2>1, <3>1, <3>2, <3>4 DEF Local, Ended
    <3> QED BY <1>3, <3>3, <3>4
  <2> QED BY <2>2, <2>3, <2>4 DEF Local
<1> QED BY <1>6, <1>7, <1>8 DEF IInv

LEMMA ConsumeStep ==
  ASSUME IInv, NEW p \in Presses, NEW i \in Items, Consume(p, i) PROVE IInv'
<1>1. /\ TypeOK /\ Local(p) /\ message[p][i] = "ready"
      /\ UNCHANGED <<job, created, aborted, requestVars, resetting, clock, history, spent>>
      /\ message' = [message EXCEPT ![p] = [message[p] EXCEPT ![i] = "gone"]]
  BY DEF IInv, Consume, Put
<1>2. /\ message' \in [Presses -> [Items -> {"unsent", "ready", "gone"}]]
      /\ \A q \in Presses \ {p} : message'[q] = message[q]
      /\ message'[p] = [message[p] EXCEPT ![i] = "gone"]
  <2>1. message \in [Presses -> [Items -> {"unsent", "ready", "gone"}]]
    BY <1>1 DEF TypeOK
  <2>2. [message[p] EXCEPT ![i] = "gone"] \in [Items -> {"unsent", "ready", "gone"}]
    BY <2>1
  <2> QED BY <1>1, <2>1, <2>2
<1>3. \/ UNCHANGED <<submission, ledger>>
      \/ /\ submission' = [submission EXCEPT ![p] = [submission[p] EXCEPT ![i] = "COMPLETED"]]
         /\ ledger' = [ledger EXCEPT ![p] = [ledger[p] EXCEPT ![i] =
                         IF ledger[p][i] = "QUEUED" THEN "COMPLETED" ELSE ledger[p][i]]]
  BY DEF Consume, Put
<1>4. /\ submission' \in [Presses -> [Items -> SubmissionStates]]
      /\ ledger' \in [Presses -> [Items -> {"ABSENT", "QUEUED", "COMPLETED", "FAILED"}]]
      /\ \A q \in Presses \ {p} : submission'[q] = submission[q] /\ ledger'[q] = ledger[q]
      /\ \A k \in Items : /\ submission'[p][k] = "QUEUED" => submission[p][k] = "QUEUED"
                          /\ ledger'[p][k] = "QUEUED" => ledger[p][k] = "QUEUED"
  <2>1. /\ submission \in [Presses -> [Items -> SubmissionStates]]
        /\ ledger \in [Presses -> [Items -> {"ABSENT", "QUEUED", "COMPLETED", "FAILED"}]]
    BY <1>1 DEF TypeOK
  <2>2. CASE UNCHANGED <<submission, ledger>>
    BY <2>1, <2>2
  <2>3. CASE /\ submission' = [submission EXCEPT ![p] = [submission[p] EXCEPT ![i] = "COMPLETED"]]
             /\ ledger' = [ledger EXCEPT ![p] = [ledger[p] EXCEPT ![i] =
                             IF ledger[p][i] = "QUEUED" THEN "COMPLETED" ELSE ledger[p][i]]]
    <3>1. [submission[p] EXCEPT ![i] = "COMPLETED"] \in [Items -> SubmissionStates]
      BY <2>1 DEF SubmissionStates
    <3>2. [ledger[p] EXCEPT ![i] = IF ledger[p][i] = "QUEUED" THEN "COMPLETED" ELSE ledger[p][i]]
            \in [Items -> {"ABSENT", "QUEUED", "COMPLETED", "FAILED"}]
      BY <2>1
    <3> QED BY <2>1, <2>3, <3>1, <3>2
  <2> QED BY <1>3, <2>2, <2>3
<1>5. submission'[p][i] # "QUEUED" \/ aborted[p]
  <2>1. submission \in [Presses -> [Items -> SubmissionStates]]
    BY <1>1 DEF TypeOK
  <2>2. CASE submission[p][i] \in {"COMPLETED", "REJECTED"}
    BY <2>2, <1>4
  <2>3. CASE submission' = [submission EXCEPT ![p] = [submission[p] EXCEPT ![i] = "COMPLETED"]]
    BY <2>1, <2>3
  <2> QED BY <2>2, <2>3 DEF Consume, Put
<1>6. Grows
  BY <1>1 DEF TypeOK, Grows, history
<1>7. TypeOK'
  BY <1>1, <1>2, <1>4, <1>6 DEF TypeOK, requestVars, history
<1>8. UNCHANGED <<pc, at, accepted, early>>
  BY <1>1 DEF requestVars, history
<1>9. Sent(p) /\ pc[p] \notin Before /\ job[p] # "NONE"
  BY <1>1 DEF Local, Sends, Sent, Before, Starting, Undoing
<1>10. Begun(p)'
  BY <1>1, <1>8, <1>9 DEF Local, Begun, Before, Starting
<1>11. Waiting(p)' => Waiting(p)
  BY <1>4 DEF Waiting
<1>12. Sends(p)'
  <2>1. \A k \in Items : /\ message[p][k] # "unsent" <=> message'[p][k] # "unsent"
                         /\ message'[p][k] = "gone" => message[p][k] = "gone" \/ k = i
    BY <1>1, <1>2 DEF TypeOK
  <2>2. accepted[p] \subseteq Items
    BY <1>1 DEF TypeOK
  <2>3. (Sent(p)' <=> Sent(p)) /\ (AllSent(p)' <=> AllSent(p))
    BY <1>8, <2>1, <2>2 DEF Sent, AllSent
  <2> QED BY <1>1, <1>4, <1>5, <1>8, <1>11, <2>1, <2>2, <2>3 DEF Local, Sends
<1>13. Ended(p)'
  <2>1. Settled(p) => Settled(p)'
    BY <1>8, <1>11 DEF Settled
  <2> QED BY <1>1, <1>4, <1>8, <2>1 DEF Local, Ended
<1>14. \A q \in Presses \ {p} : Same(q)
  BY <1>1, <1>2, <1>4, <1>8 DEF Same
<1> QED BY <1>1, <1>6, <1>7, <1>10, <1>12, <1>13, <1>14, OneMoves DEF Local

-----------------------------------------------------------------------------
LEMMA StepInv ==
  IInv /\ [Next]_vars => IInv'
<1> SUFFICES ASSUME IInv, [Next]_vars PROVE IInv'
  OBVIOUS
<1>1. ASSUME NEW p \in Presses, AskNewest(p) \/ Request(p) \/ Lose(p) PROVE IInv'
  BY <1>1, AskNewestStep, AskCountsStep, PrepareStep, InsertJobStep, OpenStep,
     InsertSubmissionsStep, SettleRejectedStep, AppendStep, SendStep, UndoStep, LoseStep
     DEF Request
<1>2. ASSUME NEW p \in Presses, NEW i \in Items, Consume(p, i) PROVE IInv'
  BY <1>2, ConsumeStep
<1>3. CASE PressReset
  BY <1>3, PressResetStep
<1>4. CASE ResetRecord
  <2>1. resetting.job \in Presses
    BY <1>4 DEF IInv, TypeOK, ResetRecord
  <2> QED BY <1>4, <2>1, ResetRecordStep
<1>5. CASE ResetLedger
  <2>1. resetting.job \in Presses
    BY <1>5 DEF IInv, TypeOK, ResetLedger
  <2> QED BY <1>5, <2>1, ResetLedgerStep
<1>6. CASE UNCHANGED vars
  <2>1. TypeOK'
    BY <1>6 DEF IInv, TypeOK, vars, stores, history
  <2>2. ASSUME NEW q \in Presses PROVE Local(q)'
    <3>1. Same(q) /\ NoNewReset(q) /\ Grows /\ Local(q) /\ TypeOK
      BY <1>6 DEF IInv, TypeOK, Same, NoNewReset, Grows, vars, stores, history
    <3> QED BY <3>1, SameLocal
  <2> QED BY <2>1, <2>2 DEF IInv
<1> QED BY <1>1, <1>2, <1>3, <1>4, <1>5, <1>6 DEF Next

LEMMA Invariance == Spec => []IInv
BY InitInv, StepInv, PTL DEF Spec

(* Every variable keeps to its kind, for any number of presses, files, resets and failures. *)
THEOREM TypeCorrect == Spec => []TypeOK
<1>1. IInv => TypeOK
  BY DEF IInv
<1> QED BY <1>1, Invariance, PTL

(* Whoever aborts a job, and whatever fails on the way, neither store keeps an item of it   *)
(* waiting, unless a reset came before its submissions were written: both ways to the abort *)
(* mark settle the submissions first, and a job once settled is never made to wait again.   *)
THEOREM NoSurvivors == Spec => []AbortedHasNoSurvivors
<1>1. IInv => AbortedHasNoSurvivors
  BY DEF IInv, Local, Ended, Settled, AbortedHasNoSurvivors
<1> QED BY <1>1, Invariance, PTL

(* A job of which anything was sent ends, however many people, files and resets there are:  *)
(* with one call that throws at most, either everything accepted was sent, and each message *)
(* taken settled its item or found the job aborted, or the start was undone.                *)
THEOREM SentEnds == Spec => []SentJobsEnd
<1>1. IInv => SentJobsEnd
  <2> SUFFICES ASSUME IInv, NEW p \in Presses, Quiet(p), p \notin early,
                      spent.throws <= 1, spent.losses = 0,
                      \E i \in Items : message[p][i] # "unsent"
               PROVE ~Waiting(p)
    BY DEF SentJobsEnd
  <2>1. Sends(p) /\ Ended(p) /\ message \in [Presses -> [Items -> {"unsent", "ready", "gone"}]]
    BY DEF IInv, Local, TypeOK
  <2>2. AllSent(p) \/ ~Waiting(p)
    BY <2>1 DEF Sends, Sent, Quiet
  <2>3. ASSUME AllSent(p), NEW i \in Items, submission[p][i] = "QUEUED" PROVE FALSE
    <3>1. message[p][i] = "gone"
      BY <2>1, <2>3 DEF Sends, AllSent, Quiet
    <3>2. aborted[p]
      BY <2>1, <2>3, <3>1 DEF Sends
    <3> QED BY <2>1, <2>3, <3>2 DEF Ended, Settled, Waiting
  <2> QED BY <2>2, <2>3 DEF Waiting
<1> QED BY <1>1, Invariance, PTL

-----------------------------------------------------------------------------
(* Two jobs at work at once. *)

Overlap == \E p, q \in Presses : q \in unseen[p] /\ created[p] > 0 /\ created[q] > 0

(* Why q may start although p has started: it could not see p, or p is over for good. *)
Excused(p, q) == p \in unseen[q] \/ Overlap \/ Settled(p)

(* Of two starts: no two are stamped alike, and the later one was excused, from the moment  *)
(* it found no job running.                                                                 *)
Ordered(p, q) ==
  /\ created[p] > 0 => created[p] # created[q]
  /\ 0 < created[p] /\ created[p] < created[q] => Overlap \/ Settled(p)
  /\ created[p] > 0 /\ pc[q] = "prepare" => Excused(p, q)
  /\ created[p] > 0 /\ pc[q] = "counts" =>
       Excused(p, q) \/ (p = current[q] /\ pc[p] \notin Starting)

InOrder == \A p, q \in Presses : p # q => Ordered(p, q)

(* A step that neither reads the newest job, nor finds it ended, nor stamps a new one. *)
Steady ==
  /\ UNCHANGED <<created, current, unseen>>
  /\ \A p \in Presses :
       \/ pc'[p] = pc[p]
       \/ /\ pc'[p] \notin {"idle", "counts", "prepare"}
          /\ pc[p] \notin Before => pc'[p] \notin Before
  /\ \A p \in Presses : pc[p] # "insertSubmissions" =>
       \A i \in Items : submission'[p][i] = "QUEUED" => submission[p][i] = "QUEUED"

(* A settled job stays settled, whatever step is taken. *)
LEMMA SettledStays ==
  ASSUME NEW p \in Presses, pc[p] \notin Before => pc'[p] \notin Before,
         pc[p] # "insertSubmissions" =>
           \A i \in Items : submission'[p][i] = "QUEUED" => submission[p][i] = "QUEUED",
         Settled(p)
  PROVE Settled(p)'
BY DEF Settled, Waiting, Before, Starting

LEMMA SteadyOrder ==
  ASSUME IInv, InOrder, Steady PROVE InOrder'
<1> SUFFICES ASSUME NEW p \in Presses, NEW q \in Presses, p # q PROVE Ordered(p, q)'
  BY DEF InOrder
<1>1. Ordered(p, q) /\ UNCHANGED <<created, current, unseen>>
  BY DEF InOrder, Steady
<1>2. Overlap => Overlap'
  BY <1>1 DEF Overlap
<1>3. Settled(p) => Settled(p)'
  BY SettledStays DEF Steady
<1>4. Excused(p, q) => Excused(p, q)'
  BY <1>1, <1>2, <1>3 DEF Excused
<1>5. pc'[q] \in {"counts", "prepare"} => pc'[q] = pc[q]
  BY DEF Steady
<1>6. created[p] > 0 /\ pc[p] \notin Starting => pc'[p] \notin Starting
  <2>1. created[p] > 0 => pc[p] \notin {"idle", "counts", "prepare"}
    BY DEF IInv, Local, Begun
  <2> QED BY <2>1 DEF Steady, Before
<1> QED BY <1>1, <1>2, <1>3, <1>4, <1>5, <1>6 DEF Ordered

LEMMA AskCountsOrder ==
  ASSUME IInv, InOrder, NEW r \in Presses, AskCounts(r) PROVE InOrder'
<1> SUFFICES ASSUME NEW p \in Presses, NEW q \in Presses, p # q PROVE Ordered(p, q)'
  BY DEF InOrder
<1>1. /\ Ordered(p, q) /\ pc[r] = "counts" /\ pc \in [Presses -> Steps]
      /\ UNCHANGED <<stores, current, unseen>>
  BY DEF IInv, TypeOK, InOrder, AskCounts, Calls, NoOther, history
<1>2. /\ \/ Go(r, "prepare") /\ ~isRunning(current[r])
         \/ Go(r, "over")
  BY <1>1 DEF AskCounts, Calls, Throw, Answer
<1>3. /\ pc'[r] \in {"prepare", "over"} /\ \A s \in Presses \ {r} : pc'[s] = pc[s]
      /\ pc'[r] = "prepare" => ~isRunning(current[r])
  BY <1>1, <1>2 DEF Go
<1>4. (Overlap => Overlap') /\ UNCHANGED <<created, submission>>
  BY <1>1 DEF Overlap, stores
<1>5. Settled(p) => Settled(p)'
  BY <1>1, <1>3, <1>4, SettledStays DEF Before, Starting
<1>6. Excused(p, q) => Excused(p, q)'
  BY <1>1, <1>4, <1>5 DEF Excused
<1>7. created[p] > 0 => pc[p] \notin {"idle", "counts", "prepare"}
  BY DEF IInv, Local, Begun
<1>8. created[p] > 0 /\ pc[p] \notin Starting => pc'[p] \notin Starting
  BY <1>3 DEF Starting
<1>9. CASE q = r /\ pc'[r] = "prepare" /\ p = current[r] /\ created[p] > 0 /\ pc[p] \notin Starting
  <2>1. ~Waiting(p)
    BY <1>3, <1>9 DEF isRunning, Waiting
  <2>2. Settled(p)'
    BY <1>5, <1>7, <1>9, <2>1 DEF Settled, Before
  <2> QED BY <1>1, <1>3, <1>4, <1>9, <2>2 DEF Ordered, Excused
<1>10. CASE ~(q = r /\ pc'[r] = "prepare" /\ p = current[r] /\ created[p] > 0 /\ pc[p] \notin Starting)
  BY <1>1, <1>3, <1>4, <1>5, <1>6, <1>8, <1>10 DEF Ordered
<1> QED BY <1>9, <1>10

LEMMA AskNewestOrder ==
  ASSUME IInv, InOrder, NEW r \in Presses, AskNewest(r) PROVE InOrder'
<1> SUFFICES ASSUME NEW p \in Presses, NEW q \in Presses, p # q PROVE Ordered(p, q)'
  BY DEF InOrder
<1>1. /\ Ordered(p, q) /\ pc[r] = "idle" /\ pc \in [Presses -> Steps]
      /\ current \in [Presses -> Presses \cup {None}] /\ unseen \in [Presses -> SUBSET Presses]
      /\ UNCHANGED stores
      /\ unseen' = [unseen EXCEPT ![r] =
           {s \in Presses \ {r} : pc[s] \in Starting \cup {"prepare"}}]
      /\ created[r] = 0
  BY DEF IInv, TypeOK, InOrder, Local, Begun, AskNewest, Calls
<1>2. \/ Go(r, "over") /\ UNCHANGED current
      \/ Go(r, IF Jobs = {} THEN "prepare" ELSE "counts") /\ current' = [current EXCEPT ![r] = NewestJob]
  BY <1>1 DEF AskNewest, Calls, Throw, Answer
<1>3. /\ pc'[r] \in {"prepare", "counts", "over"} /\ \A s \in Presses \ {r} : pc'[s] = pc[s]
      /\ \A s \in Presses \ {r} : current'[s] = current[s] /\ unseen'[s] = unseen[s]
      /\ unseen'[r] = {s \in Presses \ {r} : pc[s] \in Starting \cup {"prepare"}}
      /\ pc'[r] = "prepare" => Jobs = {}
      /\ pc'[r] = "counts" => Jobs # {} /\ current'[r] = NewestJob
  <2> HIDE DEF NewestJob, Jobs
  <2> QED BY <1>1, <1>2 DEF Go
<1>4. /\ Overlap => Overlap'
      /\ UNCHANGED <<created, submission>>
  <2>1. ASSUME NEW a \in Presses, NEW b \in Presses, b \in unseen[a], created[a] > 0, created[b] > 0
        PROVE Overlap'
    BY <1>1, <1>3, <2>1 DEF Overlap, stores
  <2> QED BY <1>1, <2>1 DEF Overlap, stores
<1>5. Settled(p) => Settled(p)'
  BY <1>1, <1>3, <1>4, SettledStays DEF Before, Starting
<1>6. CASE q # r
  <2>1. Excused(p, q) => Excused(p, q)'
    BY <1>3, <1>4, <1>5, <1>6 DEF Excused
  <2>2. created[p] > 0 /\ pc[p] \notin Starting => pc'[p] \notin Starting
    BY <1>3 DEF Starting
  <2> QED BY <1>1, <1>3, <1>4, <1>5, <1>6, <2>1, <2>2 DEF Ordered
<1>7. ASSUME q = r, created[p] > 0, pc'[r] \in {"prepare", "counts"}
      PROVE \/ Excused(p, q)'
            \/ pc'[r] = "counts" /\ p = current'[q] /\ pc'[p] \notin Starting
  <2>1. CASE pc[p] \in Starting
    BY <1>3, <1>7, <2>1 DEF Excused
  <2>2. CASE pc[p] \notin Starting /\ job[p] = "NONE"
    <3>1. Unwritten(p) /\ pc[p] \notin Before
      BY <1>7, <2>2 DEF IInv, Local, Begun, Before
    <3>2. Settled(p)
      BY <3>1 DEF Settled, Waiting, Unwritten
    <3> QED BY <1>5, <3>2 DEF Excused
  <2>3. CASE pc[p] \notin Starting /\ job[p] # "NONE"
    <3>1. p \in Jobs /\ NewestJob \in Jobs /\ created[p] <= created[NewestJob]
      <4>1. \A k \in Jobs : created[k] <= clock
        BY DEF IInv, Local, Begun, Jobs
      <4> QED BY <2>3, <4>1, NewestIsNewest DEF IInv, Jobs
    <3>2. pc'[r] = "counts" /\ current'[r] = NewestJob
      BY <1>3, <1>7, <3>1
    <3>3. CASE p = NewestJob
      BY <1>3, <1>7, <2>3, <3>2, <3>3
    <3>4. CASE p # NewestJob
      <4>1. PICK k \in Presses : k = NewestJob
        BY <3>1 DEF Jobs
      <4>2. created[p] \in Nat /\ created[k] \in Nat /\ Ordered(p, k)
        BY <3>4, <4>1 DEF IInv, TypeOK, InOrder
      <4>3. Overlap \/ Settled(p)
        BY <1>7, <3>1, <4>1, <4>2 DEF Ordered
      <4> QED BY <1>4, <1>5, <4>3 DEF Excused
    <3> QED BY <3>3, <3>4
  <2> QED BY <2>1, <2>2, <2>3
<1>8. CASE q = r
  BY <1>1, <1>3, <1>4, <1>5, <1>7, <1>8 DEF Ordered
<1> QED BY <1>6, <1>8

LEMMA PrepareOrder ==
  ASSUME IInv, InOrder, NEW r \in Presses, Prepare(r) PROVE InOrder'
<1>1. /\ pc[r] = "prepare" /\ created \in [Presses -> Nat] /\ clock \in Nat
      /\ pc \in [Presses -> Steps] /\ unseen \in [Presses -> SUBSET Presses]
      /\ current \in [Presses -> Presses \cup {None}]
      /\ UNCHANGED submission
      /\ created[r] = 0 /\ \A s \in Presses : created[s] <= clock
  BY DEF IInv, TypeOK, Local, Begun, Prepare
<1>2. CASE Answer(r, "refused") /\ UNCHANGED <<created, current, unseen>>
  <2>1. Steady
    BY <1>1, <1>2 DEF Steady, Answer, Go, Before, Starting
  <2> QED BY <2>1, SteadyOrder
<1>3. ASSUME created' = [created EXCEPT ![r] = clock + 1],
             current' = [current EXCEPT ![r] = r],
             unseen' = [q \in Presses |->
               IF q # r /\ pc[q] \in {"counts", "prepare"} THEN unseen[q] \cup {r}
               ELSE unseen[q]],
             Go(r, "insertJob")
      PROVE InOrder'
  <2> SUFFICES ASSUME NEW p \in Presses, NEW q \in Presses, p # q PROVE Ordered(p, q)'
    BY DEF InOrder
  <2>1. /\ pc'[r] = "insertJob" /\ \A s \in Presses \ {r} : pc'[s] = pc[s]
        /\ created'[r] = clock + 1
        /\ \A s \in Presses \ {r} : created'[s] = created[s] /\ current'[s] = current[s]
        /\ \A s \in Presses : unseen[s] \subseteq unseen'[s]
        /\ \A s \in Presses \ {r} : pc[s] \in {"counts", "prepare"} => r \in unseen'[s]
        /\ created[p] \in Nat /\ created[q] \in Nat
    BY <1>1, <1>3 DEF Go
  <2>2. Ordered(p, q) /\ created[p] <= clock /\ created[q] <= clock
    BY <1>1 DEF InOrder
  <2>3. Overlap => Overlap'
    <3>1. ASSUME NEW a \in Presses, NEW b \in Presses, b \in unseen[a], created[a] > 0, created[b] > 0
          PROVE Overlap'
      BY <1>1, <2>1, <3>1 DEF Overlap
    <3> QED BY <3>1 DEF Overlap
  <2>4. Settled(p) => Settled(p)'
    BY <1>1, <2>1, SettledStays DEF Before, Starting
  <2>5. CASE p = r
    <3>1. ~(created'[p] < created'[q]) /\ created'[p] # created'[q]
      BY <1>1, <2>1, <2>2, <2>5
    <3>2. pc'[q] \in {"counts", "prepare"} => Excused(p, q)'
      BY <2>1, <2>5 DEF Excused
    <3> QED BY <3>1, <3>2 DEF Ordered
  <2>6. CASE q = r
    <3>1. created[p] > 0 => Excused(p, q) /\ created'[p] = created[p] /\ created'[p] # created'[q]
      BY <1>1, <2>1, <2>2, <2>6 DEF Ordered
    <3>2. created[p] > 0 /\ p \in unseen[q] => Overlap'
      BY <1>1, <2>1, <2>6 DEF Overlap
    <3>3. pc'[q] \notin {"counts", "prepare"}
      BY <2>1, <2>6
    <3> QED BY <2>1, <2>3, <2>4, <2>6, <3>1, <3>2, <3>3 DEF Ordered, Excused
  <2>7. CASE p # r /\ q # r
    <3>1. Excused(p, q) => Excused(p, q)'
      BY <2>1, <2>3, <2>4 DEF Excused
    <3> QED BY <2>1, <2>2, <2>3, <2>4, <2>7, <3>1 DEF Ordered
  <2> QED BY <2>5, <2>6, <2>7
<1> QED BY <1>2, <1>3 DEF Prepare

(* Every other step is steady. *)
LEMMA RequestIsSteady ==
  ASSUME IInv, NEW r \in Presses,
         \/ InsertJob(r) \/ Open(r) \/ InsertSubmissions(r) \/ SettleRejected(r)
         \/ Append(r) \/ Send(r) \/ Undo(r) \/ Lose(r)
  PROVE Steady
<1>1. /\ pc \in [Presses -> Steps] /\ UNCHANGED <<created, current, unseen>>
      /\ pc[r] \notin {"insertJob", "open", "insertSubmissions", "settleRejected", "append", "send"}
           \cup Undoing => Lose(r)
  BY DEF IInv, TypeOK, InsertJob, Open, InsertSubmissions, SettleRejected, Append, Send, Undo, Lose,
         Calls, Onward, Step, AbortJob, SettleSubmissions, NoOther, history, stores, Undoing
<1>2. /\ \A p \in Presses \ {r} : pc'[p] = pc[p]
      /\ pc'[r] # pc[r] =>
           \/ pc'[r] \in {"settleRejected", "append", "send", "over"} \cup Undoing
           \/ pc'[r] = "open" /\ pc[r] = "insertJob"
           \/ pc'[r] = "insertSubmissions" /\ pc[r] = "open"
  BY <1>1 DEF InsertJob, Open, InsertSubmissions, SettleRejected, Append, Send, Undo, Lose,
         Calls, Onward, Step, Throw, Answer, Go, Undoing
<1>3. \A p \in Presses : pc[p] # "insertSubmissions" =>
        \A i \in Items : submission'[p][i] = "QUEUED" => submission[p][i] = "QUEUED"
  <2>1. submission \in [Presses -> [Items -> SubmissionStates]] /\ TypeOK
    BY DEF IInv, TypeOK
  <2>2. CASE InsertSubmissions(r)
    BY <2>1, <2>2 DEF InsertSubmissions, Calls, stores
  <2>3. CASE SettleSubmissions(r)
    BY <2>1, <2>3, SettlesRecord
  <2>4. UNCHANGED submission \/ SettleSubmissions(r) \/ InsertSubmissions(r)
    BY DEF InsertJob, Open, SettleRejected, Append, Send, Undo, Lose, Calls, stores
  <2> QED BY <2>2, <2>3, <2>4
<1> QED BY <1>1, <1>2, <1>3 DEF Steady, Before, Starting, Undoing

LEMMA OtherIsSteady ==
  ASSUME IInv,
         \/ \E p \in Presses, i \in Items : Consume(p, i)
         \/ PressReset \/ ResetRecord \/ ResetLedger \/ UNCHANGED vars
  PROVE Steady
<1>1. UNCHANGED <<created, current, unseen, pc>>
  BY DEF Consume, PressReset, ResetRecord, ResetLedger, vars, stores, history, requestVars
<1>2. submission \in [Presses -> [Items -> SubmissionStates]] /\ TypeOK
  BY DEF IInv, TypeOK
<1>3. \A p \in Presses : \A i \in Items : submission'[p][i] = "QUEUED" => submission[p][i] = "QUEUED"
  <2>1. ASSUME NEW p \in Presses, NEW i \in Items, Consume(p, i) PROVE <1>3
    <3>1. CASE UNCHANGED submission
      BY <3>1
    <3>2. CASE submission' = [submission EXCEPT ![p] = [submission[p] EXCEPT ![i] = "COMPLETED"]]
      BY <1>2, <3>2
    <3> QED BY <2>1, <3>1, <3>2 DEF Consume, Put
  <2>2. CASE ResetRecord
    <3>1. resetting.job \in Presses
      BY <1>2, <2>2 DEF TypeOK, ResetRecord
    <3>2. CASE SettleSubmissions(resetting.job)
      BY <1>2, <3>1, <3>2, SettlesRecord
    <3> QED BY <2>2, <3>2 DEF ResetRecord
  <2> QED BY <2>1, <2>2 DEF PressReset, ResetLedger, vars, stores
<1> QED BY <1>1, <1>3 DEF Steady

LEMMA OrderInvariance == Spec => []InOrder
<1>1. Init => InOrder
  BY DEF Init, InOrder, Ordered
<1>2. IInv /\ InOrder /\ [Next]_vars => InOrder'
  <2> SUFFICES ASSUME IInv, InOrder, [Next]_vars PROVE InOrder'
    OBVIOUS
  <2>1. ASSUME NEW p \in Presses, AskNewest(p) \/ Request(p) \/ Lose(p) PROVE InOrder'
    BY <2>1, AskNewestOrder, AskCountsOrder, PrepareOrder, RequestIsSteady, SteadyOrder DEF Request
  <2>2. CASE \/ \E p \in Presses, i \in Items : Consume(p, i)
             \/ PressReset \/ ResetRecord \/ ResetLedger \/ UNCHANGED vars
    BY <2>2, OtherIsSteady, SteadyOrder
  <2> QED BY <2>1, <2>2 DEF Next
<1> QED BY <1>1, <1>2, Invariance, PTL DEF Spec

(* The button converges on one job: if two jobs are at work at once, then some request that *)
(* started a job could not have seen another start when it looked.                          *)
THEOREM Converges == Spec => []TwoJobsOnlyByOverlap
<1>1. IInv /\ InOrder => TwoJobsOnlyByOverlap
  <2> SUFFICES ASSUME IInv, InOrder, NEW p \in Presses, NEW q \in Presses,
                      p # q, Waiting(p), Waiting(q)
               PROVE Overlap
    BY DEF TwoJobsOnlyByOverlap, Overlap
  <2>1. created[p] > 0 /\ created[q] > 0 /\ created[p] \in Nat /\ created[q] \in Nat
    BY DEF IInv, TypeOK, Local, Begun, Unwritten, Waiting
  <2>2. ~Settled(p) /\ ~Settled(q)
    BY DEF Settled
  <2>3. Ordered(p, q) /\ Ordered(q, p)
    BY DEF InOrder
  <2> QED BY <2>1, <2>2, <2>3 DEF Ordered
<1> QED BY <1>1, Invariance, OrderInvariance, PTL
=============================================================================
