---------------------------- MODULE RetentionProofs ----------------------------
(***************************************************************************)
(* What holds of staged content and of the rows that account for it, for   *)
(* any number of submissions, sweeps and failures, and any page size.      *)
(***************************************************************************)
EXTENDS Retention, TLAPS

States == {"NONE", "QUEUED", "COMPLETED", "FAILED"}

RowStates == [state : States, key : BOOLEAN, purged : BOOLEAN]

TypeOK ==
  /\ row \in [Submissions -> RowStates]
  /\ place \in [Submissions -> Places]
  /\ judged \subseteq Submissions /\ due \subseteq Submissions
  /\ sweep \in [Sweepers -> [step : {"idle", "delete", "mark", "record"},
                             todo : SUBSET Submissions, gone : SUBSET Submissions]]

Listed(s) == row[s].state # "NONE"

(* Where a submission stands tells whether it has its row, and, for a single review that    *)
(* goes on to its history, that it has its verdict.                                         *)
Stands(s) ==
  /\ s \in Batch => place[s] \notin {"putCrop", "putPdf", "ask", "append"}
  /\ s \in Single => place[s] \notin {"stage", "read", "crop"}
  /\ place[s] \in {"stage", "putCrop", "putPdf", "ask", "insert"} => ~Listed(s)
  /\ place[s] \in {"read", "crop", "persist", "append", "over"} => Listed(s)
  /\ s \in Single /\ place[s] \in {"append", "over"} => s \in judged /\ row[s].state = "COMPLETED"
  /\ s \in due => place[s] # "stage" /\ (s \in Single => place[s] \in {"failed", "over"})

(* A row leads the sweep to the PDF of its submission while there is one. *)
Leads(s) == Listed(s) /\ pdf(s) \in bucket => row[s].key

(* Its window has closed and its content is gone; a worker that read the PDF before may     *)
(* still store a crop.                                                                      *)
Gone(s) == s \in due /\ Listed(s) /\ pdf(s) \notin bucket /\ (crop(s) \in bucket => s \in Batch)

Accounted(s) == Stands(s) /\ Leads(s) /\ (row[s].purged => Gone(s))

(* What a sweep holds: rows whose window has closed, and those whose content it deleted.    *)
Holds(w) ==
  /\ \A s \in sweep[w].todo : s \in due /\ Listed(s)
  /\ \A s \in sweep[w].gone : Gone(s)

(* The inductive invariant. *)
IInv == TypeOK /\ (\A s \in Submissions : Accounted(s)) /\ \A w \in Sweepers : Holds(w)

-----------------------------------------------------------------------------
LEMMA InitInv == Init => IInv
<1> SUFFICES ASSUME Init PROVE IInv
  OBVIOUS
<1>1. TypeOK
  BY DEF Init, StagingInit, TypeOK, Submissions, NoRow, Places, RowStates, States, Idle
<1>2. ASSUME NEW s \in Submissions PROVE Accounted(s)
  BY StagingAssumption
     DEF Init, StagingInit, StagingAssumption, Accounted, Stands, Leads, Listed, NoRow, Submissions
<1>3. \A w \in Sweepers : Holds(w)
  BY DEF Init, Holds, Idle
<1> QED BY <1>1, <1>2, <1>3 DEF IInv

(* What a submission has is told by its own row, place and objects. *)
Same(t) ==
  /\ row'[t] = row[t] /\ place'[t] = place[t]
  /\ pdf(t) \in bucket' <=> pdf(t) \in bucket
  /\ crop(t) \in bucket' <=> crop(t) \in bucket
  /\ t \in judged' <=> t \in judged
  /\ t \in due' <=> t \in due

LEMMA SameKeeps ==
  ASSUME NEW t, Same(t)
  PROVE /\ Listed(t)' <=> Listed(t)
        /\ Gone(t)' <=> Gone(t)
        /\ Accounted(t)' <=> Accounted(t)
  BY DEF Same, Listed, Gone, Accounted, Stands, Leads

(* What the step of one submission leaves alone. *)
LEMMA OthersSame ==
  ASSUME TypeOK, NEW s \in Submissions, Writer(s) \/ Age(s), NEW t \in Submissions, t # s
  PROVE Same(t)
<1>1. \A p : Move(s, p) => place'[t] = place[t]
  BY DEF TypeOK, Move
<1>2. OnThrow(s) => place'[t] = place[t]
  BY <1>1 DEF OnThrow
<1>3. pdf(s) # pdf(t) /\ pdf(s) # crop(t) /\ crop(s) # crop(t) /\ crop(s) # pdf(t)
  BY DEF pdf, crop
<1>4. CASE Age(s)
  BY <1>4 DEF Age, Same
<1>5. CASE StagePdf(s)
  BY <1>1, <1>2, <1>3, <1>5 DEF StagePdf, Puts, Calls, Same
<1>6. CASE InsertQueued(s)
  BY <1>1, <1>2, <1>6 DEF InsertQueued, Inserts, Calls, Same, TypeOK
<1>7. CASE ReadPdf(s)
  BY <1>1, <1>2, <1>7 DEF ReadPdf, Calls, Same, TypeOK
<1>8. CASE StoreCrop(s)
  BY <1>1, <1>2, <1>3, <1>8 DEF StoreCrop, Puts, Calls, Same
<1>9. CASE Persist(s)
  BY <1>1, <1>2, <1>9 DEF Persist, Calls, Same, TypeOK
<1>10. CASE PutCrop(s)
  BY <1>1, <1>2, <1>3, <1>10 DEF PutCrop, Puts, Calls, Same
<1>11. CASE PutPdf(s)
  BY <1>1, <1>2, <1>3, <1>11 DEF PutPdf, Puts, Calls, Same
<1>12. CASE AskModel(s)
  BY <1>1, <1>12 DEF AskModel, Same
<1>13. CASE InsertCompleted(s)
  BY <1>1, <1>2, <1>13 DEF InsertCompleted, Inserts, Calls, Same, TypeOK
<1>14. CASE AppendVerdict(s)
  BY <1>1, <1>2, <1>14 DEF AppendVerdict, Calls, Same
<1> QED BY <1>4, <1>5, <1>6, <1>7, <1>8, <1>9, <1>10, <1>11, <1>12, <1>13, <1>14 DEF Writer

(* What the step of a submission must see to for itself. *)
Keeps(s) ==
  /\ row' \in [Submissions -> RowStates] /\ place' \in [Submissions -> Places]
  /\ judged' \subseteq Submissions /\ due' \subseteq Submissions
  /\ Accounted(s)' /\ (Gone(s) => Gone(s)') /\ (Listed(s) => Listed(s)')

LEMMA Moved ==
  ASSUME TypeOK, NEW s \in Submissions, NEW p \in Places, Move(s, p)
  PROVE place' \in [Submissions -> Places] /\ place'[s] = p
  BY DEF TypeOK, Move

LEMMA Thrown ==
  ASSUME TypeOK, NEW s \in Submissions, OnThrow(s)
  PROVE /\ place' \in [Submissions -> Places]
        /\ place'[s] = IF s \in Batch /\ place[s] \in {"read", "crop", "persist"}
                       THEN "read" ELSE "failed"
  BY Moved DEF OnThrow, Places

(* A call that stores an object. *)
LEMMA PutKeeps ==
  ASSUME TypeOK, NEW s \in Submissions, Accounted(s), NEW object \in {pdf(s), crop(s)},
         NEW next \in Places, Puts(s, object, next),
         \/ s \in Batch /\ place[s] = "stage" /\ object = pdf(s) /\ next = "insert"
         \/ s \in Batch /\ place[s] = "crop" /\ object = crop(s) /\ next = "persist"
         \/ s \in Single /\ place[s] = "putCrop" /\ object = crop(s) /\ next \in {"putPdf", "ask"}
         \/ s \in Single /\ place[s] = "putPdf" /\ object = pdf(s) /\ next = "ask"
  PROVE Keeps(s)
<1>1. /\ bucket' \in {bucket, bucket \cup {object}} /\ UNCHANGED <<row, judged, due>>
      /\ \/ Move(s, next)
         \/ OnThrow(s)
  BY DEF Puts, Calls
<1>2. pdf(s) # crop(s) /\ ~(s \in Batch /\ s \in Single)
  BY StagingAssumption DEF pdf, crop, StagingAssumption
<1>3. CASE Move(s, next)
  <2>1. place'[s] = next /\ place' \in [Submissions -> Places]
    BY <1>3, Moved
  <2>2. Stands(s)'
    BY <1>1, <1>2, <2>1 DEF Accounted, Stands, Listed
  <2>3. Leads(s)' /\ (Gone(s) => Gone(s)') /\ (row[s].purged => Gone(s))
    BY <1>1, <1>2 DEF Accounted, Stands, Leads, Gone, Listed
  <2>4. Accounted(s)'
    BY <1>1, <2>2, <2>3 DEF Accounted
  <2>5. (Listed(s) => Listed(s)') /\ row' \in [Submissions -> RowStates]
        /\ judged' \subseteq Submissions /\ due' \subseteq Submissions
    BY <1>1 DEF TypeOK, Listed
  <2> QED BY <2>1, <2>3, <2>4, <2>5 DEF Keeps
<1>4. CASE OnThrow(s)
  BY <1>1, <1>2, <1>4, Thrown DEF TypeOK, Keeps, Accounted, Stands, Leads, Gone, Listed
<1> QED BY <1>1, <1>3, <1>4

(* A call that inserts a row. *)
LEMMA InsertKeeps ==
  ASSUME TypeOK, NEW s \in Submissions, Accounted(s), place[s] = "insert",
         NEW new \in RowStates, new.state \in {"QUEUED", "COMPLETED"}, ~new.purged,
         pdf(s) \in bucket => new.key,
         NEW next \in {"read", "persist"}, s \in Batch <=> next = "read",
         UNCHANGED <<bucket, judged, due>>,
         \/ row' = [row EXCEPT ![s] = new] /\ Move(s, next)
         \/ (row' = [row EXCEPT ![s] = new] \/ row' = row) /\ OnThrow(s)
  PROVE Keeps(s)
<1>1. /\ row' \in [Submissions -> RowStates]
      /\ row'[s] = new \/ row'[s] = row[s]
  BY DEF TypeOK
<1>2. ~Listed(s) /\ ~Gone(s) /\ ~row[s].purged /\ (s \in Single => s \notin due)
  BY DEF Accounted, Stands, Gone
<1>3. s \in Batch <=> s \notin Single
  BY StagingAssumption DEF StagingAssumption, Submissions
<1>4. /\ place' \in [Submissions -> Places]
      /\ \/ row'[s] = new /\ place'[s] = next
         \/ place'[s] = "failed"
  BY Moved, Thrown DEF TypeOK, Places
<1>5. Stands(s)'
  BY <1>2, <1>3, <1>4 DEF Accounted, Stands, Listed
<1>6. Leads(s)' /\ ~row'[s].purged
  BY <1>1, <1>2 DEF Leads, Listed
<1>7. Accounted(s)'
  BY <1>5, <1>6 DEF Accounted
<1> QED BY <1>1, <1>2, <1>4, <1>7 DEF TypeOK, Keeps

(* The model is asked: nothing is stored yet. *)
LEMMA AskKeeps ==
  ASSUME TypeOK, NEW s \in Submissions, Accounted(s), AskModel(s) PROVE Keeps(s)
<1>1. /\ place[s] = "ask" /\ UNCHANGED <<bucket, row, judged, due>>
      /\ Move(s, "insert") \/ Move(s, "failed")
  BY DEF AskModel
<1>2. place'[s] \in {"insert", "failed"} /\ place' \in [Submissions -> Places]
  BY <1>1, Moved DEF Places
<1> QED BY <1>1, <1>2 DEF TypeOK, Keeps, Accounted, Stands, Leads, Gone, Listed

(* A row that is there changes its state and nothing else. *)
LEMMA StateChanges ==
  ASSUME TypeOK, NEW s \in Submissions, NEW state \in States,
         row' = [row EXCEPT ![s].state = state]
  PROVE /\ row' \in [Submissions -> RowStates]
        /\ row'[s].state = state /\ row'[s].key = row[s].key /\ row'[s].purged = row[s].purged
<1>1. row[s] \in RowStates /\ [row[s] EXCEPT !.state = state] \in RowStates
  BY DEF TypeOK, RowStates
<1>2. row' = [row EXCEPT ![s] = [row[s] EXCEPT !.state = state]]
  BY DEF TypeOK
<1> QED BY <1>1, <1>2 DEF TypeOK, RowStates

LEMMA ReadKeeps ==
  ASSUME TypeOK, NEW s \in Submissions, Accounted(s), ReadPdf(s) PROVE Keeps(s)
<1>1. s \in Batch /\ place[s] = "read" /\ UNCHANGED <<bucket, judged, due>>
  BY DEF ReadPdf
<1>2. s \notin Single /\ Listed(s)
  BY <1>1, StagingAssumption DEF StagingAssumption, Accounted, Stands
<1>3. \/ row' = row
      \/ row' = [row EXCEPT ![s].state = "FAILED"]
  BY DEF ReadPdf, Calls
<1>4. /\ row' \in [Submissions -> RowStates] /\ Listed(s)'
      /\ row'[s].key = row[s].key /\ row'[s].purged = row[s].purged
  BY <1>2, <1>3, StateChanges DEF TypeOK, States, Listed
<1>5. Move(s, "crop") \/ Move(s, "over") \/ OnThrow(s)
  BY DEF ReadPdf, Calls
<1>6. place'[s] \in {"crop", "over", "read"} /\ place' \in [Submissions -> Places]
  BY <1>1, <1>5, Moved, Thrown DEF Places
<1>7. Stands(s)'
  BY <1>1, <1>2, <1>4, <1>6 DEF Accounted, Stands
<1>8. Leads(s)' /\ (Gone(s) => Gone(s)') /\ (row[s].purged => Gone(s))
  BY <1>1, <1>2, <1>4 DEF Accounted, Leads, Gone
<1>9. Accounted(s)'
  BY <1>4, <1>7, <1>8 DEF Accounted
<1> QED BY <1>1, <1>4, <1>6, <1>8, <1>9 DEF TypeOK, Keeps

LEMMA PersistKeeps ==
  ASSUME TypeOK, NEW s \in Submissions, Accounted(s), Persist(s) PROVE Keeps(s)
<1>1. place[s] = "persist" /\ UNCHANGED <<bucket, due>> /\ Listed(s)
  BY DEF Persist, Accounted, Stands
<1>2. s \in Batch <=> s \notin Single
  BY StagingAssumption DEF StagingAssumption, Submissions
<1>3. \/ row' = row /\ judged' = judged
      \/ row' = [row EXCEPT ![s].state = "COMPLETED"] /\ judged' = judged \cup {s}
  BY DEF Persist, Calls
<1>4. /\ row' \in [Submissions -> RowStates] /\ Listed(s)' /\ judged' \subseteq Submissions
      /\ row'[s].key = row[s].key /\ row'[s].purged = row[s].purged
  BY <1>1, <1>3, StateChanges DEF TypeOK, States, Listed
<1>5. \/ /\ row' = [row EXCEPT ![s].state = "COMPLETED"] /\ judged' = judged \cup {s}
         /\ Move(s, IF s \in Batch THEN "over" ELSE "append")
      \/ OnThrow(s)
  BY DEF Persist, Calls
<1>6. /\ place' \in [Submissions -> Places]
      /\ \/ /\ row'[s].state = "COMPLETED" /\ s \in judged'
            /\ place'[s] = IF s \in Batch THEN "over" ELSE "append"
         \/ place'[s] = IF s \in Batch THEN "read" ELSE "failed"
  BY <1>1, <1>5, Moved, Thrown, StateChanges DEF Places, States
<1>7. Stands(s)'
  BY <1>1, <1>2, <1>4, <1>6 DEF Accounted, Stands
<1>8. Leads(s)' /\ (Gone(s) => Gone(s)') /\ (row[s].purged => Gone(s))
  BY <1>1, <1>4 DEF Accounted, Leads, Gone
<1>9. Accounted(s)'
  BY <1>4, <1>7, <1>8 DEF Accounted
<1> QED BY <1>1, <1>4, <1>6, <1>8, <1>9 DEF TypeOK, Keeps

LEMMA AppendKeeps ==
  ASSUME TypeOK, NEW s \in Submissions, Accounted(s), AppendVerdict(s) PROVE Keeps(s)
<1>1. place[s] = "append" /\ UNCHANGED <<bucket, row, judged, due>>
      /\ (Move(s, "over") \/ OnThrow(s))
  BY DEF AppendVerdict, Calls
<1>2. s \in Single /\ s \notin Batch
  BY <1>1, StagingAssumption DEF StagingAssumption, Submissions, Accounted, Stands
<1>3. place'[s] \in {"over", "failed"} /\ place' \in [Submissions -> Places]
  BY <1>1, Moved, Thrown DEF Places
<1> QED BY <1>1, <1>2, <1>3 DEF TypeOK, Keeps, Accounted, Stands, Leads, Gone, Listed

LEMMA AgeKeeps ==
  ASSUME TypeOK, NEW s \in Submissions, Accounted(s), Age(s) PROVE Keeps(s)
<1>1. /\ UNCHANGED <<bucket, row, judged, place>> /\ due' = due \cup {s}
      /\ place[s] # "stage" /\ (s \in Single => place[s] \in {"failed", "over"})
  BY DEF Age
<1> QED BY <1>1 DEF TypeOK, Keeps, Accounted, Stands, Leads, Gone, Listed

(* Every step of a submission keeps its own account. *)
LEMMA WriterKeeps ==
  ASSUME TypeOK, NEW s \in Submissions, Accounted(s), Writer(s) \/ Age(s) PROVE Keeps(s)
<1>1. ASSUME StagePdf(s) PROVE Keeps(s)
  BY <1>1, PutKeeps DEF StagePdf, Places
<1>2. ASSUME InsertQueued(s) PROVE Keeps(s)
  <2> DEFINE new == [state |-> "QUEUED", key |-> TRUE, purged |-> FALSE]
  <2>1. new \in RowStates /\ new.state = "QUEUED" /\ new.key /\ ~new.purged
    BY DEF RowStates, States
  <2>2. /\ s \in Batch /\ place[s] = "insert" /\ UNCHANGED <<bucket, judged, due>>
        /\ \/ row' = [row EXCEPT ![s] = new] /\ Move(s, "read")
           \/ (row' = [row EXCEPT ![s] = new] \/ row' = row) /\ OnThrow(s)
    BY <1>2 DEF InsertQueued, Inserts, Calls
  <2> HIDE DEF new
  <2> QED BY <2>1, <2>2, InsertKeeps
<1>3. ASSUME StoreCrop(s) PROVE Keeps(s)
  BY <1>3, PutKeeps DEF StoreCrop, Places
<1>4. ASSUME PutCrop(s) PROVE Keeps(s)
  BY <1>4, PutKeeps DEF PutCrop, Places
<1>5. ASSUME PutPdf(s) PROVE Keeps(s)
  <2>1. s \in Single /\ place[s] = "putPdf"
    BY <1>5 DEF PutPdf, Accounted, Stands, Submissions
  <2> QED BY <1>5, <2>1, PutKeeps DEF PutPdf, Places
<1>6. ASSUME InsertCompleted(s) PROVE Keeps(s)
  <2> DEFINE new == [state |-> "COMPLETED", key |-> pdf(s) \in bucket, purged |-> FALSE]
  <2>1. new \in RowStates /\ new.state = "COMPLETED" /\ ~new.purged /\ (pdf(s) \in bucket => new.key)
    <3>1. CASE pdf(s) \in bucket
      <4>1. new = [state |-> "COMPLETED", key |-> TRUE, purged |-> FALSE]
        BY <3>1, Zenon
      <4> HIDE DEF new
      <4> QED BY <4>1 DEF RowStates, States
    <3>2. CASE pdf(s) \notin bucket
      <4>0. (pdf(s) \in bucket) = FALSE
        BY <3>2
      <4>1. new = [state |-> "COMPLETED", key |-> FALSE, purged |-> FALSE]
        BY <4>0, Zenon
      <4> HIDE DEF new
      <4> QED BY <3>2, <4>1 DEF RowStates, States
    <3> QED BY <3>1, <3>2
  <2>2. /\ s \in Single /\ place[s] = "insert" /\ UNCHANGED <<bucket, judged, due>>
        /\ \/ row' = [row EXCEPT ![s] = new] /\ Move(s, "persist")
           \/ (row' = [row EXCEPT ![s] = new] \/ row' = row) /\ OnThrow(s)
    BY <1>6 DEF InsertCompleted, Inserts, Calls
  <2>3. s \notin Batch
    BY <2>2, StagingAssumption DEF StagingAssumption
  <2> HIDE DEF new
  <2> QED BY <2>1, <2>2, <2>3, InsertKeeps
<1> QED BY <1>1, <1>2, <1>3, <1>4, <1>5, <1>6, AskKeeps, ReadKeeps, PersistKeeps, AppendKeeps,
           AgeKeeps DEF Writer

LEMMA WriterStep ==
  ASSUME IInv, NEW s \in Submissions, Writer(s) \/ Age(s), UNCHANGED <<sweep, recorded>>
  PROVE IInv'
<1>1. TypeOK /\ Accounted(s) /\ Keeps(s)
  BY WriterKeeps DEF IInv
<1>2. \A t \in Submissions \ {s} : Same(t)
  BY OthersSame DEF IInv
<1>3. TypeOK'
  BY <1>1 DEF TypeOK, Keeps
<1>4. \A t \in Submissions : Accounted(t)'
  BY <1>1, <1>2, SameKeeps DEF IInv, Keeps
<1>5. /\ \A t \in Submissions : Gone(t) => Gone(t)'
      /\ \A t \in Submissions : t \in due /\ Listed(t) => t \in due' /\ Listed(t)'
  <2>1. due \subseteq due'
    BY DEF Writer, StagePdf, InsertQueued, ReadPdf, StoreCrop, Persist, PutCrop, PutPdf, AskModel,
           InsertCompleted, AppendVerdict, Puts, Inserts, Age
  <2> QED BY <1>1, <1>2, <2>1, SameKeeps DEF Keeps
<1>6. ASSUME NEW w \in Sweepers PROVE Holds(w)'
  <2>1. sweep'[w].todo \subseteq Submissions /\ sweep'[w].gone \subseteq Submissions
    BY <1>1 DEF TypeOK
  <2>2. Holds(w)
    BY DEF IInv
  <2> QED BY <1>5, <2>1, <2>2 DEF Holds
<1> QED BY <1>3, <1>4, <1>6 DEF IInv

-----------------------------------------------------------------------------
(* The steps of a sweep. *)

SweepStates == [step : {"idle", "delete", "mark", "record"},
                todo : SUBSET Submissions, gone : SUBSET Submissions]

(* One sweep moves on, and what it now holds is in order. *)
LEMMA SweepMoves ==
  ASSUME IInv, NEW w \in Sweepers, NEW new \in SweepStates, sweep' = [sweep EXCEPT ![w] = new],
         \A s \in Submissions : Same(s),
         row' \in [Submissions -> RowStates], place' \in [Submissions -> Places],
         judged' \subseteq Submissions, due' \subseteq Submissions,
         \A s \in new.todo : s \in due /\ Listed(s),
         \A s \in new.gone : Gone(s)
  PROVE IInv'
<1>1. TypeOK'
  BY DEF IInv, TypeOK, SweepStates
<1>2. \A s \in Submissions : Accounted(s)'
  BY SameKeeps DEF IInv
<1>3. ASSUME NEW v \in Sweepers PROVE Holds(v)'
  <2>1. /\ sweep'[v].todo \subseteq Submissions /\ sweep'[v].gone \subseteq Submissions
        /\ \A s \in sweep'[v].todo : s \in due /\ Listed(s)
        /\ \A s \in sweep'[v].gone : Gone(s)
    <3>1. CASE v = w
      BY <3>1 DEF IInv, TypeOK, SweepStates
    <3>2. CASE v # w
      BY <3>2 DEF IInv, TypeOK, Holds
    <3> QED BY <3>1, <3>2
  <2>2. \A s \in Submissions : /\ s \in due /\ Listed(s) => s \in due' /\ Listed(s)'
                               /\ Gone(s) => Gone(s)'
    BY SameKeeps DEF Same
  <2> QED BY <2>1, <2>2 DEF Holds
<1> QED BY <1>1, <1>2, <1>3 DEF IInv

LEMMA IdleSweep == Idle \in SweepStates /\ Idle.todo = {} /\ Idle.gone = {}
  BY DEF Idle, SweepStates

LEMMA Unmoved ==
  ASSUME UNCHANGED <<bucket, row, judged, due, place>> PROVE \A s \in Submissions : Same(s)
  BY DEF Same

LEMMA FindStep == ASSUME IInv, NEW w \in Sweepers, Find(w) PROVE IInv'
<1>1. PICK page \in SUBSET Candidates :
        sweep' = [sweep EXCEPT ![w] = [step |-> "delete", todo |-> page, gone |-> {}]]
  BY DEF Find
<1>2. UNCHANGED <<bucket, row, judged, due, place>>
  BY DEF Find, stagingVars
<1>3. \A s \in page : s \in due /\ Listed(s) /\ s \in Submissions
  BY DEF Candidates, Listed, IInv, TypeOK
<1> DEFINE new == [step |-> "delete", todo |-> page, gone |-> {}]
<1>4. new \in SweepStates /\ new.todo = page /\ new.gone = {}
  BY <1>3 DEF SweepStates
<1> HIDE DEF new
<1> QED BY <1>1, <1>2, <1>3, <1>4, SweepMoves, Unmoved DEF IInv, TypeOK, new

(* What a sweep deletes of a submission is gone, and nothing is added to what others have. *)
LEMMA DeleteStep == ASSUME IInv, NEW w \in Sweepers, Delete(w) PROVE IInv'
<1>1. PICK s \in sweep[w].todo :
        LET keyed == IF row[s].key THEN {pdf(s)} ELSE {}
            done == s \notin Stuck
            todo == sweep[w].todo \ {s}
            gone == IF done THEN sweep[w].gone \cup {s} ELSE sweep[w].gone
        IN /\ bucket' = bucket \ (keyed \cup IF done THEN {crop(s)} ELSE {})
           /\ sweep' = [sweep EXCEPT ![w] =
                IF todo # {} THEN [step |-> "delete", todo |-> todo, gone |-> gone]
                ELSE IF gone = {} THEN Idle
                ELSE [step |-> "mark", todo |-> {}, gone |-> gone]]
  BY DEF Delete
<1> DEFINE todo == sweep[w].todo \ {s}
           gone == IF s \notin Stuck THEN sweep[w].gone \cup {s} ELSE sweep[w].gone
           new == IF todo # {} THEN [step |-> "delete", todo |-> todo, gone |-> gone]
                  ELSE IF gone = {} THEN Idle
                  ELSE [step |-> "mark", todo |-> {}, gone |-> gone]
<1>2. /\ bucket' \subseteq bucket /\ sweep' = [sweep EXCEPT ![w] = new]
      /\ row[s].key => pdf(s) \notin bucket'
      /\ s \notin Stuck => crop(s) \notin bucket'
      /\ UNCHANGED <<row, judged, due, place>>
  BY <1>1 DEF Delete
<1>3. /\ s \in Submissions /\ s \in due /\ Listed(s)
      /\ todo \subseteq Submissions /\ gone \subseteq Submissions
      /\ sweep[w].todo \subseteq Submissions /\ sweep[w].gone \subseteq Submissions
  BY DEF IInv, TypeOK, Holds
<1>4. new \in SweepStates /\ new.todo \subseteq todo /\ new.gone \subseteq gone
  BY <1>3 DEF SweepStates, Idle
<1> HIDE DEF new
<1>5. \A t \in Submissions : (Listed(t)' <=> Listed(t)) /\ (Gone(t) => Gone(t)')
  BY <1>2 DEF Listed, Gone
<1>6. \A t \in Submissions : Accounted(t)'
  BY <1>2, <1>5 DEF IInv, Accounted, Stands, Leads, Listed
<1>7. s \notin Stuck => Gone(s)'
  <2>1. pdf(s) \notin bucket'
    BY <1>2, <1>3 DEF IInv, Accounted, Leads
  <2> QED BY <1>2, <1>3, <1>5, <2>1 DEF Gone
<1>8. TypeOK'
  BY <1>2, <1>4 DEF IInv, TypeOK, SweepStates
<1>9. ASSUME NEW v \in Sweepers PROVE Holds(v)'
  <2>1. CASE v = w
    <3>1. sweep'[v] = new
      BY <1>2, <2>1 DEF IInv, TypeOK
    <3>2. \A t \in todo : t \in due' /\ Listed(t)'
      BY <1>2, <1>3, <1>5 DEF IInv, Holds
    <3>3. \A t \in gone : Gone(t)'
      BY <1>3, <1>5, <1>7 DEF IInv, Holds
    <3> QED BY <1>4, <3>1, <3>2, <3>3 DEF Holds
  <2>2. CASE v # w
    <3>1. sweep'[v] = sweep[v]
      BY <1>2, <2>2 DEF IInv, TypeOK
    <3>2. sweep[v].todo \subseteq Submissions /\ sweep[v].gone \subseteq Submissions /\ Holds(v)
      BY DEF IInv, TypeOK
    <3> QED BY <1>2, <1>5, <3>1, <3>2 DEF Holds
  <2> QED BY <2>1, <2>2
<1> QED BY <1>6, <1>8, <1>9 DEF IInv

(* The rows a sweep marks are of submissions whose content is gone. *)
LEMMA MarkStep == ASSUME IInv, NEW w \in Sweepers, Mark(w) PROVE IInv'
<1> DEFINE gone == sweep[w].gone
<1>1. /\ row' = row \/ MarkPurged(w)
      /\ \/ sweep' = [sweep EXCEPT ![w].step = "record"]
         \/ sweep' = [sweep EXCEPT ![w] = Idle]
      /\ UNCHANGED <<bucket, judged, due, place>>
  BY DEF Mark
<1>2. sweep[w] \in SweepStates /\ Holds(w)
  BY DEF IInv, TypeOK, SweepStates
<1>3. ASSUME NEW s \in Submissions
      PROVE /\ row'[s] \in RowStates /\ row'[s].state = row[s].state
            /\ \/ row'[s] = row[s]
               \/ s \in gone /\ row'[s].purged /\ ~row'[s].key
  <2>1. row[s] \in RowStates
    BY DEF IInv, TypeOK
  <2>2. row'[s] = row[s] \/ (s \in gone /\ row'[s] = [row[s] EXCEPT !.purged = TRUE, !.key = FALSE])
    BY <1>1 DEF MarkPurged
  <2> QED BY <2>1, <2>2 DEF RowStates
<1>4. row' \in [Submissions -> RowStates]
  <2>1. row' = [s \in Submissions |-> row'[s]]
    BY <1>1 DEF MarkPurged, IInv, TypeOK
  <2> QED BY <1>3, <2>1
<1>5. \A s \in Submissions : (Listed(s)' <=> Listed(s)) /\ (Gone(s)' <=> Gone(s))
  BY <1>1, <1>3 DEF Listed, Gone
<1>6. ASSUME NEW s \in Submissions PROVE Accounted(s)'
  <2>1. Stands(s)'
    BY <1>1, <1>3, <1>5 DEF IInv, Accounted, Stands
  <2>2. s \in gone => Gone(s)
    BY <1>2 DEF Holds
  <2>3. Leads(s)' /\ (row'[s].purged => Gone(s)')
    BY <1>1, <1>3, <1>5, <2>2 DEF IInv, Accounted, Leads, Gone
  <2> QED BY <2>1, <2>3 DEF Accounted
<1>7. PICK new \in SweepStates : /\ sweep' = [sweep EXCEPT ![w] = new]
                                 /\ new.todo \subseteq sweep[w].todo /\ new.gone \subseteq sweep[w].gone
  <2>1. CASE sweep' = [sweep EXCEPT ![w] = Idle]
    BY <2>1, IdleSweep
  <2>2. CASE sweep' = [sweep EXCEPT ![w].step = "record"]
    <3> DEFINE new == [sweep[w] EXCEPT !.step = "record"]
    <3>1. sweep' = [sweep EXCEPT ![w] = new]
      BY <2>2 DEF IInv, TypeOK
    <3>2. new \in SweepStates /\ new.todo = sweep[w].todo /\ new.gone = sweep[w].gone
      BY <1>2 DEF SweepStates
    <3> HIDE DEF new
    <3> QED BY <3>1, <3>2
  <2> QED BY <1>1, <2>1, <2>2
<1>8. TypeOK'
  BY <1>1, <1>4, <1>7 DEF IInv, TypeOK, SweepStates
<1>9. ASSUME NEW v \in Sweepers PROVE Holds(v)'
  <2>1. /\ sweep'[v].todo \subseteq sweep[v].todo /\ sweep'[v].gone \subseteq sweep[v].gone
        /\ sweep[v].todo \subseteq Submissions /\ sweep[v].gone \subseteq Submissions
    BY <1>7 DEF IInv, TypeOK
  <2>2. Holds(v)
    BY DEF IInv
  <2> QED BY <1>1, <1>5, <2>1, <2>2 DEF Holds
<1> QED BY <1>6, <1>8, <1>9 DEF IInv

LEMMA EndStep ==
  ASSUME IInv, NEW w \in Sweepers, Record(w) \/ LoseSweep(w) PROVE IInv'
<1>1. sweep' = [sweep EXCEPT ![w] = Idle] /\ UNCHANGED <<bucket, row, judged, due, place>>
  BY DEF Record, LoseSweep
<1> QED BY <1>1, SweepMoves, IdleSweep, Unmoved DEF IInv, TypeOK

LEMMA StepInv == ASSUME IInv, [Next]_vars PROVE IInv'
<1>1. CASE UNCHANGED vars
  <2>1. /\ \A s \in Submissions : Same(s)
        /\ TypeOK' /\ sweep' = sweep
    BY <1>1 DEF vars, stagingVars, Same, IInv, TypeOK
  <2>2. \A s \in Submissions : Accounted(s)' /\ (Gone(s)' <=> Gone(s)) /\ (Listed(s)' <=> Listed(s))
    BY <2>1, SameKeeps DEF IInv
  <2>3. ASSUME NEW w \in Sweepers PROVE Holds(w)'
    BY <2>1, <2>2 DEF IInv, TypeOK, Holds, Same
  <2> QED BY <2>1, <2>2, <2>3 DEF IInv
<1>2. ASSUME NEW s \in Submissions, Writer(s) \/ Age(s), UNCHANGED <<sweep, recorded>>
      PROVE IInv'
  BY <1>2, WriterStep
<1>3. ASSUME NEW w \in Sweepers, Step(w) \/ LoseSweep(w)
      PROVE IInv'
  BY <1>3, FindStep, DeleteStep, MarkStep, EndStep DEF Step
<1> QED BY <1>1, <1>2, <1>3 DEF Next

LEMMA Invariance == Spec => []IInv
<1>1. IInv /\ [Next]_vars => IInv'
  BY StepInv
<1> QED BY <1>1, InitInv, PTL DEF Spec

(* Every variable keeps to its kind, for any number of submissions and sweeps.              *)
THEOREM TypeCorrect == Spec => []TypeOK
<1>1. IInv => TypeOK
  BY DEF IInv
<1> QED BY <1>1, Invariance, PTL

(* A row that says its content is gone is right, whatever fails and however the writers and *)
(* the sweeps interleave: the PDF is gone, and the crop too unless a worker that had read   *)
(* the PDF in time stores it late (runPurge deletes the objects before it marks the row).   *)
THEOREM Purged == Spec => []PurgedMeansGone
<1>1. IInv => PurgedMeansGone
  BY DEF IInv, Accounted, Gone, PurgedMeansGone
<1> QED BY <1>1, Invariance, PTL

(* Nothing a finished request stored escapes the retention policy: while one of its objects *)
(* is there, so is a row that leads the sweep to it (findPurgeCandidates, purgeContent).    *)
THEOREM Listing == Spec => []UnlistedOnlyByFailure
<1>1. ASSUME IInv, NEW s \in Submissions, place[s] = "over",
             (bucket \cap (IF s \in Batch THEN {pdf(s)} ELSE {pdf(s), crop(s)})) # {}
      PROVE row[s].state # "NONE" /\ ~row[s].purged /\ (pdf(s) \in bucket => row[s].key)
  <2>1. Accounted(s)
    BY <1>1 DEF IInv
  <2>2. Listed(s)
    BY <1>1, <2>1 DEF Accounted, Stands
  <2>3. ~row[s].purged
    BY <1>1, <2>1 DEF Accounted, Gone
  <2> QED BY <2>1, <2>2, <2>3 DEF Accounted, Leads, Listed
<1>2. IInv => UnlistedOnlyByFailure
  BY <1>1 DEF UnlistedOnlyByFailure
<1> QED BY <1>2, Invariance, PTL

(* A review the person saw as a result has its verdict (POST /review inserts the rows, then *)
(* persists the verdict, then answers).                                                     *)
THEOREM Shown == Spec => []ShownReviewsJudged
<1>1. IInv => ShownReviewsJudged
  BY DEF IInv, Accounted, Stands, ShownReviewsJudged, Submissions
<1> QED BY <1>1, Invariance, PTL
=============================================================================
