---------------------------- MODULE JobStreamProofs ----------------------------
(***************************************************************************)
(* What holds of the ledger and of the pages that watch it, for any number *)
(* of items, pages, calls and lost connections.                            *)
(***************************************************************************)
EXTENDS JobStream, WellFoundedInduction, FiniteSetTheorems, TLAPS

Counts == [total : Nat, completed : Nat, failed : Nat, done : BOOLEAN]

Frames ==
  [type : {"snapshot"}, rows : [Items -> Row], progress : Counts]
    \cup [type : {"item.started", "item.deferred"}, item : Items, progress : Counts]
    \cup [type : {"item.completed", "item.failed"}, item : Items, row : Row, progress : Counts]
    \cup [type : {"job.completed", "job.aborted"}, progress : Counts]

TypeOK ==
  /\ aborted \in Causes \cup {None}
  /\ ledger \in [Items -> Row]
  /\ attached \subseteq Subscribers
  /\ inbox \in [Subscribers -> Seq(Frames)]
  /\ rows \in [Subscribers -> [Items -> Row]]
  /\ shown \in [Subscribers -> Counts]
  /\ unheard \subseteq Items
  /\ drops \in Nat /\ resyncs \in Nat

(* The job is opened all at once. *)
Whole(r) == (\E i \in Items : r[i].state # "ABSENT") => \A i \in Items : r[i].state # "ABSENT"

(* What is not told of is a row that waits again. *)
Requeued == \A i \in unheard : ledger[i].state = "QUEUED"

(* No frame, rendered or on its way, calls the job done before it is. *)
Truthful ==
  /\ \A s \in Subscribers : shown[s].done => Done
  /\ \A s \in Subscribers : \A n \in 1 .. Len(inbox[s]) : inbox[s][n].progress.done => Done

(* A view of the job is the ledger as far as it goes: a row that requeue has changed differs *)
(* in its state alone.                                                                       *)
Tracks(view) ==
  /\ view \in [Items -> Row]
  /\ \A i \in Items : view[i].state # "ABSENT" =>
       /\ ledger[i].state # "ABSENT"
       /\ view[i].outcome = ledger[i].outcome /\ view[i].cause = ledger[i].cause
       /\ i \notin unheard => view[i].state = ledger[i].state

(* The inductive invariant. *)
IInv ==
  /\ TypeOK /\ Whole(ledger) /\ Requeued /\ Truthful
  /\ \A s \in attached : Tracks(CaughtUp(s))

-----------------------------------------------------------------------------
(* Handling frames one after another. *)

(* What the recursion in Handled makes of the first m frames. *)
Follows(h, view, frames, m) ==
  h = [n \in 0 .. m |-> IF n = 0 THEN view ELSE RowsAfter(h[n - 1], frames[n])]

(* A set of numbers that has a member has a least one. *)
LEMMA LeastNumber ==
  ASSUME NEW S \in SUBSET Nat, S # {} PROVE \E x \in S : \A y \in S : x <= y
<1> DEFINE Less == {pair \in Nat \X Nat : pair[1] < pair[2]}
<1>1. IsWellFoundedOn(Less, Nat)
  BY NatLessThanWellFounded DEF OpToRel
<1>2. PICK x \in S : \A y \in S : ~(<<y, x>> \in Less)
  <2> HIDE DEF Less
  <2> QED BY <1>1, WFMin
<1>3. ASSUME NEW y \in S PROVE x <= y
  <2>1. y < x => <<y, x>> \in Less
    OBVIOUS
  <2> HIDE DEF Less
  <2> QED BY <1>2, <2>1
<1> QED BY <1>3

(* A set of numbers with 0 and with the successor of each of its members below m has m. *)
LEMMA UpTo ==
  ASSUME NEW m \in Nat, NEW S \in SUBSET Nat, 0 \in S,
         \A n \in Nat : n \in S /\ n < m => n + 1 \in S
  PROVE m \in S
<1> SUFFICES ASSUME m \notin S PROVE FALSE
  OBVIOUS
<1> DEFINE missing == {n \in Nat : n <= m /\ n \notin S}
<1>1. m \in missing /\ missing \in SUBSET Nat
  OBVIOUS
<1>2. PICK x \in missing : \A y \in missing : x <= y
  <2> HIDE DEF missing
  <2> QED BY <1>1, LeastNumber
<1>3. x # 0 /\ x \in Nat /\ x <= m /\ x \notin S
  OBVIOUS
<1>4. x - 1 \in Nat /\ x - 1 < m /\ x - 1 \notin missing
  BY <1>2, <1>3
<1>5. x - 1 \in S
  BY <1>3, <1>4
<1> QED BY <1>3, <1>4, <1>5

LEMMA FollowsAt ==
  ASSUME NEW h, NEW view, NEW frames, NEW m \in Nat, Follows(h, view, frames, m), NEW n \in 0 .. m
  PROVE h[n] = IF n = 0 THEN view ELSE RowsAfter(h[n - 1], frames[n])
BY DEF Follows

LEMMA FollowsExists ==
  ASSUME NEW view, NEW frames, NEW m \in Nat PROVE \E h : Follows(h, view, frames, m)
<1> DEFINE S == {k \in Nat : \E h : Follows(h, view, frames, k)}
<1>1. 0 \in S
  <2>1. Follows([n \in 0 .. 0 |-> view], view, frames, 0)
    BY DEF Follows
  <2> QED BY <2>1
<1>2. ASSUME NEW k \in Nat, k \in S PROVE k + 1 \in S
  <2>1. PICK h : Follows(h, view, frames, k)
    BY <1>2
  <2> DEFINE g == [n \in 0 .. k + 1 |-> IF n = k + 1 THEN RowsAfter(h[k], frames[k + 1]) ELSE h[n]]
  <2>2. ASSUME NEW n \in 0 .. k + 1
        PROVE g[n] = IF n = 0 THEN view ELSE RowsAfter(g[n - 1], frames[n])
    <3>1. CASE n = k + 1
      BY <3>1
    <3>2. CASE n # k + 1
      <4>1. n \in 0 .. k /\ (n # 0 => n - 1 \in 0 .. k)
        BY <3>2
      <4>2. h[n] = IF n = 0 THEN view ELSE RowsAfter(h[n - 1], frames[n])
        BY <2>1, <4>1 DEF Follows
      <4> QED BY <3>2, <4>1, <4>2
    <3> QED BY <3>1, <3>2
  <2>3. Follows(g, view, frames, k + 1)
    BY <2>2 DEF Follows
  <2> HIDE DEF g
  <2> QED BY <2>3
<1>3. S \in SUBSET Nat
  OBVIOUS
<1> HIDE DEF S
<1>4. m \in S
  BY <1>1, <1>2, <1>3, UpTo
<1> QED BY <1>4 DEF S

LEMMA HandledFollows ==
  ASSUME NEW view, NEW frames, Len(frames) \in Nat
  PROVE \E h : Follows(h, view, frames, Len(frames)) /\ Handled(view, frames) = h[Len(frames)]
<1>1. PICK g : Follows(g, view, frames, Len(frames))
  BY FollowsExists
<1>2. Follows(CHOOSE h : Follows(h, view, frames, Len(frames)), view, frames, Len(frames))
  BY <1>1
<1>3. Handled(view, frames) = (CHOOSE h : Follows(h, view, frames, Len(frames)))[Len(frames)]
  BY DEF Handled, Follows
<1> QED BY <1>2, <1>3

(* From its place d on, p has what the first m frames of q are. *)
Repeats(p, q, m, d) == \A n \in 1 .. m : p[n + d] = q[n]

(* Two such functions agree as far as their frames do, where the one starts with what the   *)
(* other has come to.                                                                       *)
LEMMA FollowsAgree ==
  ASSUME NEW v, NEW w, NEW p, NEW q, NEW g, NEW h, NEW m \in Nat, NEW d \in Nat, NEW k \in Nat,
         m + d <= k, Follows(g, v, p, k), Follows(h, w, q, m), g[d] = w,
         Repeats(p, q, m, d)
  PROVE g[m + d] = h[m]
<1> DEFINE S == {n \in 0 .. m : g[n + d] = h[n]}
<1>1. 0 \in S
  <2>1. h[0] = w
    BY DEF Follows
  <2> QED BY <2>1
<1>2. ASSUME NEW n \in Nat, n \in S, n < m PROVE n + 1 \in S
  <2>1. g[n + d] = h[n] /\ n + 1 \in 1 .. m /\ n + 1 \in 0 .. m
    BY <1>2
  <2>2. h[n + 1] = RowsAfter(h[n], q[n + 1])
    <3>1. (n + 1) # 0 /\ (n + 1) - 1 = n
      OBVIOUS
    <3> QED BY <2>1, <3>1, FollowsAt
  <2>3. (n + 1) + d \in 0 .. k /\ (n + 1) + d # 0 /\ ((n + 1) + d) - 1 = n + d
    BY <2>1
  <2>4. g[(n + 1) + d] = RowsAfter(g[n + d], p[(n + 1) + d])
    BY <2>3, FollowsAt
  <2>5. p[(n + 1) + d] = q[n + 1]
    BY <2>1 DEF Repeats
  <2> QED BY <2>1, <2>2, <2>4, <2>5
<1>3. S \in SUBSET Nat
  OBVIOUS
<1> HIDE DEF S
<1>4. m \in S
  BY <1>1, <1>2, <1>3, UpTo
<1> QED BY <1>4 DEF S

(* Handling nothing changes nothing, one frame more is handled last, and a frame handled is *)
(* the first of those that were to come.                                                    *)
LEMMA HandledNothing ==
  ASSUME NEW view PROVE Handled(view, <<>>) = view
<1>1. PICK h : Follows(h, view, <<>>, 0) /\ Handled(view, <<>>) = h[0]
  BY HandledFollows
<1> QED BY <1>1 DEF Follows

LEMMA HandledConcat ==
  ASSUME NEW F, NEW view, NEW first \in Seq(F), NEW next \in Seq(F)
  PROVE Handled(view, first \o next) = Handled(Handled(view, first), next)
<1>1. PICK m \in Nat, n \in Nat, k \in Nat, all \in Seq(F) :
        /\ m = Len(first) /\ n = Len(next) /\ all = first \o next /\ Len(all) = k /\ k = n + m
  <2>1. Len(first) \in Nat /\ Len(next) \in Nat /\ Len(next) + Len(first) \in Nat
    OBVIOUS
  <2>2. Len(first \o next) = Len(next) + Len(first) /\ first \o next \in Seq(F)
    OBVIOUS
  <2> QED BY <2>1, <2>2
<1>2. PICK none \in Nat : none = 0
  OBVIOUS
<1>3. Repeats(all, first, m, none) /\ Repeats(all, next, n, m) /\ m + none <= k /\ n + m <= k
  BY <1>1, <1>2 DEF Repeats
<1>4. PICK g : Follows(g, view, all, k) /\ Handled(view, all) = g[k]
  BY <1>1, HandledFollows
<1>5. PICK h : Follows(h, view, first, m) /\ Handled(view, first) = h[m]
  BY <1>1, HandledFollows
<1>6. PICK w : w = Handled(view, first)
  OBVIOUS
<1>7. PICK e : Follows(e, w, next, n) /\ Handled(w, next) = e[n]
  BY <1>1, HandledFollows
<1>8. g[m] = w
  <2>1. g[none] = view
    BY <1>2, <1>4 DEF Follows
  <2>2. Follows(g, view, all, k) /\ Follows(h, view, first, m)
    BY <1>4, <1>5
  <2>3. g[m + none] = h[m]
    BY <1>3, <2>1, <2>2, FollowsAgree
  <2> QED BY <1>2, <1>5, <1>6, <2>3
<1>9. g[n + m] = e[n]
  <2>1. Follows(g, view, all, k) /\ Follows(e, w, next, n)
    BY <1>4, <1>7
  <2> QED BY <1>3, <1>8, <2>1, FollowsAgree
<1> QED BY <1>1, <1>4, <1>6, <1>7, <1>9

LEMMA HandledOne ==
  ASSUME NEW view, NEW f PROVE Handled(view, <<f>>) = RowsAfter(view, f)
<1> DEFINE q == <<f>>
<1>1. Len(q) = 1 /\ q[1] = f /\ Len(q) \in Nat
  OBVIOUS
<1> HIDE DEF q
<1>2. PICK h : Follows(h, view, q, 1) /\ Handled(view, q) = h[1]
  BY <1>1, HandledFollows
<1>3. h[0] = view /\ h[1] = RowsAfter(h[1 - 1], q[1])
  BY <1>2 DEF Follows
<1>4. h[1 - 1] = h[0]
  OBVIOUS
<1> QED BY <1>1, <1>2, <1>3, <1>4 DEF q

LEMMA HandledTwo ==
  ASSUME NEW view, NEW f, NEW g PROVE Handled(view, <<f, g>>) = RowsAfter(RowsAfter(view, f), g)
<1> DEFINE q == <<f, g>>
<1>1. Len(q) = 2 /\ q[1] = f /\ q[2] = g /\ Len(q) \in Nat
  OBVIOUS
<1> HIDE DEF q
<1>2. PICK h : Follows(h, view, q, 2) /\ Handled(view, q) = h[2]
  BY <1>1, HandledFollows
<1>3. h[0] = view /\ h[1] = RowsAfter(h[1 - 1], q[1]) /\ h[2] = RowsAfter(h[2 - 1], q[2])
  BY <1>2 DEF Follows
<1>4. h[1 - 1] = h[0] /\ h[2 - 1] = h[1]
  OBVIOUS
<1> QED BY <1>1, <1>2, <1>3, <1>4 DEF q

LEMMA HandledFirst ==
  ASSUME NEW F, NEW view, NEW frames \in Seq(F), frames # <<>>
  PROVE Handled(RowsAfter(view, Head(frames)), Tail(frames)) = Handled(view, frames)
<1> DEFINE rest == Tail(frames)
           m == Len(rest)
           next == RowsAfter(view, Head(frames))
<1>1. /\ m \in Nat /\ Len(frames) = m + 1 /\ Len(frames) \in Nat
      /\ frames[1] = Head(frames) /\ \A n \in 1 .. m : frames[n + 1] = rest[n]
  OBVIOUS
<1> HIDE DEF rest, m
<1>2. PICK g : Follows(g, view, frames, m + 1) /\ Handled(view, frames) = g[m + 1]
  BY <1>1, HandledFollows
<1>3. PICK h : Follows(h, next, rest, m) /\ Handled(next, rest) = h[m]
  BY <1>1, HandledFollows DEF m
<1>4. g[1] = next
  <2>1. g[0] = view
    BY <1>1, <1>2 DEF Follows
  <2>2. g[1] = RowsAfter(g[1 - 1], frames[1])
    BY <1>1, <1>2 DEF Follows
  <2> QED BY <1>1, <2>1, <2>2
<1> HIDE DEF next
<1>5. Repeats(frames, rest, m, 1)
  BY <1>1 DEF Repeats
<1>6. PICK k \in Nat : k = m + 1 /\ m + 1 <= k /\ Follows(g, view, frames, k)
  BY <1>1, <1>2
<1>7. g[m + 1] = h[m]
  BY <1>1, <1>3, <1>4, <1>5, <1>6, FollowsAgree
<1> QED BY <1>2, <1>3, <1>6, <1>7 DEF rest, next

-----------------------------------------------------------------------------
(* The counts. *)

LEMMA ItemsAreFinite == IsFiniteSet(Items) /\ Items # {}
<1>1. 1 \in Int /\ ItemCount \in Int /\ 1 <= ItemCount
  BY CoordinatorAssumption
<1>2. IsFiniteSet(1 .. ItemCount)
  BY <1>1, FS_Interval
<1>3. 1 \in Items
  BY <1>1 DEF Items
<1> QED BY <1>2, <1>3 DEF Items

LEMMA PartsAreFinite ==
  ASSUME NEW r, NEW states
  PROVE IsFiniteSet(ItemsIn(r, states)) /\ Cardinality(ItemsIn(r, states)) \in Nat
<1>1. IsFiniteSet(ItemsIn(r, states))
  BY FS_Subset, ItemsAreFinite DEF ItemsIn
<1> QED BY <1>1, FS_CardinalityType

(* The counts call a job done only when all of it has settled. *)
LEMMA ProgressTells ==
  ASSUME NEW r \in [Items -> Row], Whole(r)
  PROVE Progress(r) \in Counts /\ (Progress(r).done => \A i \in Items : r[i].state \in Settled)
<1> DEFINE present == ItemsIn(r, RowStates \ {"ABSENT"})
           completed == ItemsIn(r, {"COMPLETED"})
           failed == ItemsIn(r, {"FAILED"})
           pending == ItemsIn(r, Pending)
           isDone == /\ Cardinality(present) > 0
                     /\ Cardinality(completed) + Cardinality(failed) = Cardinality(present)
<1>1. /\ IsFiniteSet(present) /\ IsFiniteSet(completed) /\ IsFiniteSet(failed) /\ IsFiniteSet(pending)
      /\ Cardinality(present) \in Nat /\ Cardinality(completed) \in Nat
      /\ Cardinality(failed) \in Nat /\ Cardinality(pending) \in Nat
  BY PartsAreFinite
<1>2. Progress(r) = [total |-> Cardinality(present), completed |-> Cardinality(completed),
                     failed |-> Cardinality(failed), done |-> isDone]
  BY DEF Progress
<1>3. ASSUME isDone PROVE \A i \in Items : r[i].state \in Settled
  <2> DEFINE over == completed \cup failed
  <2>1. present = over \cup pending /\ completed \cap failed = {} /\ over \cap pending = {}
    BY DEF ItemsIn, RowStates, Pending, Row
  <2> HIDE DEF present, completed, failed, pending
  <2>2. Cardinality(over) = Cardinality(completed) + Cardinality(failed) /\ IsFiniteSet(over)
    BY <1>1, <2>1, FS_Union, FS_EmptySet
  <2> HIDE DEF over
  <2>3. Cardinality(present) = Cardinality(over) + Cardinality(pending)
    <3>1. Cardinality(over \cup pending)
            = Cardinality(over) + Cardinality(pending) - Cardinality(over \cap pending)
      BY <1>1, <2>2, FS_Union
    <3>2. Cardinality(over \cap pending) = 0
      BY <2>1, FS_EmptySet
    <3> QED BY <1>1, <2>1, <2>2, <3>1, <3>2
  <2>4. Cardinality(pending) = 0
    BY <1>1, <1>3, <2>1, <2>2, <2>3
  <2>5. pending = {}
    BY <1>1, <2>4, FS_EmptySet
  <2>6. present # {}
    BY <1>3, <1>1, FS_EmptySet
  <2>7. \A i \in Items : r[i].state # "ABSENT" /\ r[i].state \notin Pending
    BY <2>5, <2>6 DEF present, pending, ItemsIn, Whole
  <2> QED BY <2>7 DEF Row, RowStates, Pending, Settled
<1> HIDE DEF present, completed, failed, pending, isDone
<1>4. isDone \in BOOLEAN
  BY DEF isDone
<1>5. Progress(r) \in Counts
  BY <1>1, <1>2, <1>4 DEF Counts
<1>6. Progress(r).done = isDone
  BY <1>2
<1> QED BY <1>3, <1>5, <1>6

-----------------------------------------------------------------------------
LEMMA InitInv == Init => IInv
<1> SUFFICES ASSUME Init PROVE IInv
  OBVIOUS
<1>1. NoRow \in Row /\ NoRow.state = "ABSENT"
  BY DEF NoRow, Row, RowStates
<1>2. NoRows \in [Items -> Row] /\ Whole(NoRows) /\ Progress(NoRows) \in Counts
      /\ ~Progress(NoRows).done
  <2>1. NoRows \in [Items -> Row] /\ Whole(NoRows)
    BY <1>1 DEF NoRows, Whole
  <2>2. PICK i \in Items : TRUE
    BY ItemsAreFinite
  <2>3. NoRows[i].state \notin Settled
    BY <1>1 DEF NoRows, Settled
  <2> QED BY <2>1, <2>2, <2>3, ProgressTells
<1>3. ledger = NoRows
  BY DEF Init, CoordInit, NoRows
<1>4. inbox \in [Subscribers -> Seq(Frames)] /\ \A s \in Subscribers : inbox[s] = <<>>
  BY DEF Init, CoordInit
<1>5. TypeOK
  BY <1>2, <1>3, <1>4 DEF Init, CoordInit, TypeOK
<1>6. Truthful
  BY <1>2, <1>4 DEF Init, Truthful
<1>7. attached = {} /\ unheard = {}
  BY DEF Init, CoordInit
<1> QED BY <1>2, <1>3, <1>5, <1>6, <1>7 DEF IInv, Requeued

(* A row once settled is never changed. *)
LEMMA FinalStep ==
  ASSUME TypeOK, [Next]_vars, NEW i \in Items, ledger[i].state \in Settled
  PROVE ledger'[i] = ledger[i]
<1>1. ledger \in [Items -> Row]
  BY DEF TypeOK
<1>2. CASE Open
  BY <1>1, <1>2 DEF Open, Settled
<1>3. ASSUME NEW k \in Items, StartItem(k) \/ DeferItem(k) \/ Requeue(k) PROVE ledger'[i] = ledger[i]
  BY <1>1, <1>3 DEF StartItem, DeferItem, Requeue, Running, Settled
<1>4. CASE ClaimNextItem
  <2>1. PICK k \in Items : ledger[k].state = "QUEUED" /\ ledger' = Running(k)
    BY <1>4 DEF ClaimNextItem, ItemsIn
  <2> QED BY <1>1, <2>1 DEF Running, Settled
<1>5. ASSUME NEW k \in Items, NEW outcome \in Outcomes, RecordResult(k, outcome)
      PROVE ledger'[i] = ledger[i]
  BY <1>1, <1>5 DEF RecordResult, Settled, Pending
<1>6. ASSUME NEW k \in Items, NEW cause \in Causes, RecordFailure(k, cause)
      PROVE ledger'[i] = ledger[i]
  BY <1>1, <1>6 DEF RecordFailure, Settled, Pending
<1>7. ASSUME NEW cause \in Causes, Abort(cause) PROVE ledger'[i] = ledger[i]
  BY <1>1, <1>7 DEF Abort, Settled, Pending
<1>8. CASE UNCHANGED ledger
  BY <1>8
<1>9. CASE Call
  BY <1>9, <1>2, <1>3, <1>4, <1>5, <1>6, <1>7 DEF Call, Announced
<1>10. (\E s \in Subscribers : Page(s) \/ ConnectionLost(s) \/ AskResync(s)) => UNCHANGED ledger
  BY DEF Page, HandleEvent, Connect, Attach, ConnectionLost, Detach, AskResync, Resync
<1> QED BY <1>8, <1>9, <1>10 DEF Next, vars, coordVars

LEMMA DoneStays ==
  ASSUME TypeOK, [Next]_vars, Done PROVE Done'
BY FinalStep DEF Done

-----------------------------------------------------------------------------
(* What a call does to the pages. *)

(* A page that handles what is on its way and then the frames of a call. *)
LEMMA ThenHandles ==
  ASSUME TypeOK, NEW s \in attached, NEW frames \in Seq(Frames),
         Broadcast(frames), UNCHANGED rows
  PROVE /\ inbox'[s] = inbox[s] \o frames
        /\ CaughtUp(s)' = Handled(CaughtUp(s), frames)
<1>1. s \in Subscribers /\ inbox[s] \in Seq(Frames)
  BY DEF TypeOK
<1>2. inbox'[s] = inbox[s] \o frames
  BY <1>1 DEF Broadcast
<1>3. CaughtUp(s)' = Handled(rows[s], inbox[s] \o frames)
  BY <1>2 DEF CaughtUp
<1>4. CaughtUp(s)' = Handled(Handled(rows[s], inbox[s]), frames)
  BY <1>1, <1>3, HandledConcat
<1> QED BY <1>2, <1>4 DEF CaughtUp

(* A call that tells the pages nothing false keeps the invariant. *)
LEMMA Spread ==
  ASSUME IInv, [Next]_vars, NEW frames \in Seq(Frames), Broadcast(frames),
         UNCHANGED <<attached, rows, shown, drops, resyncs>>,
         aborted' \in Causes \cup {None}, ledger' \in [Items -> Row], unheard' \subseteq Items,
         Whole(ledger'), Requeued',
         \A n \in 1 .. Len(frames) : frames[n].progress.done => Done',
         \A v, w : Tracks(v) /\ w = Handled(v, frames) => Tracks(w)'
  PROVE IInv'
<1>1. TypeOK /\ (Done => Done')
  BY DoneStays DEF IInv
<1>2. inbox' \in [Subscribers -> Seq(Frames)]
  <2>1. ASSUME NEW s \in Subscribers PROVE inbox[s] \o frames \in Seq(Frames) /\ inbox[s] \in Seq(Frames)
    BY <1>1 DEF TypeOK
  <2> QED BY <2>1 DEF Broadcast
<1>3. TypeOK'
  BY <1>1, <1>2 DEF TypeOK
<1>4. Truthful'
  <2>1. ASSUME NEW s \in Subscribers PROVE shown'[s].done => Done'
    BY <1>1 DEF IInv, Truthful
  <2>2. ASSUME NEW s \in Subscribers, NEW n \in 1 .. Len(inbox'[s]), inbox'[s][n].progress.done
        PROVE Done'
    <3>1. inbox[s] \in Seq(Frames) /\ (inbox'[s] = inbox[s] \/ inbox'[s] = inbox[s] \o frames)
      BY <1>1 DEF TypeOK, Broadcast
    <3>2. CASE n \in 1 .. Len(inbox[s])
      <4>1. inbox'[s][n] = inbox[s][n]
        BY <3>1, <3>2
      <4>2. inbox[s][n].progress.done
        BY <2>2, <4>1
      <4> QED BY <1>1, <3>2, <4>2 DEF IInv, Truthful
    <3>3. CASE n \notin 1 .. Len(inbox[s])
      <4>1. inbox'[s] = inbox[s] \o frames
        BY <3>1, <3>3
      <4>2. PICK k \in 1 .. Len(frames) : n = Len(inbox[s]) + k
        <5>1. /\ Len(inbox[s]) \in Nat /\ Len(frames) \in Nat
              /\ Len(inbox'[s]) = Len(inbox[s]) + Len(frames)
          BY <3>1, <4>1
        <5>2. n - Len(inbox[s]) \in 1 .. Len(frames) /\ n = Len(inbox[s]) + (n - Len(inbox[s]))
          BY <3>3, <5>1
        <5> QED BY <5>2
      <4>3. inbox'[s][n] = frames[k]
        BY <3>1, <4>1, <4>2
      <4>4. frames[k].progress.done
        BY <2>2, <4>3
      <4> QED BY <4>4
    <3> QED BY <3>2, <3>3
  <2> QED BY <2>1, <2>2 DEF Truthful
<1>5. ASSUME NEW s \in attached' PROVE Tracks(CaughtUp(s))'
  <2>1. s \in attached /\ Tracks(CaughtUp(s))
    BY DEF IInv
  <2>2. CaughtUp(s)' = Handled(CaughtUp(s), frames)
    BY <1>1, <2>1, ThenHandles
  <2>3. PICK w : w = Handled(CaughtUp(s), frames)
    OBVIOUS
  <2>4. Tracks(w)'
    BY <2>1, <2>3
  <2> QED BY <2>2, <2>3, <2>4 DEF Tracks
<1> QED BY <1>3, <1>4, <1>5 DEF IInv

(* A call that changes one row, and what the pages have of that row with it. *)
LEMMA RowTold ==
  ASSUME NEW i \in Items, NEW v, NEW w, Tracks(v), w \in [Items -> Row],
         unheard' = {k \in unheard : ledger'[k] = ledger[k]},
         \A k \in Items \ {i} : ledger'[k] = ledger[k] /\ w[k] = v[k],
         w[i].state # "ABSENT" =>
           /\ ledger'[i].state # "ABSENT"
           /\ w[i].outcome = ledger'[i].outcome /\ w[i].cause = ledger'[i].cause
           /\ w[i].state = ledger'[i].state
  PROVE Tracks(w)'
<1> SUFFICES ASSUME NEW k \in Items, w[k].state # "ABSENT"
             PROVE /\ ledger'[k].state # "ABSENT"
                   /\ w[k].outcome = ledger'[k].outcome /\ w[k].cause = ledger'[k].cause
                   /\ k \notin unheard' => w[k].state = ledger'[k].state
  BY DEF Tracks
<1>1. CASE k = i
  BY <1>1
<1>2. CASE k # i
  BY <1>2 DEF Tracks
<1> QED BY <1>1, <1>2

(* The counts a frame carries. *)
LEMMA CountsTell ==
  ASSUME ledger' \in [Items -> Row], Whole(ledger')
  PROVE Progress(ledger') \in Counts /\ (Progress(ledger').done => Done')
<1>1. PICK r : r = ledger'
  OBVIOUS
<1>2. Progress(r) \in Counts /\ (Progress(r).done => \A i \in Items : r[i].state \in Settled)
  BY <1>1, ProgressTells
<1> QED BY <1>1, <1>2 DEF Done

(* A call that takes row i to another pending state and says so. *)
LEMMA MoveStep ==
  ASSUME IInv, [Next]_vars, NEW i \in Items, NEW type, NEW state,
         \/ type = "item.started" /\ state = "RUNNING" /\ ledger[i].state = "QUEUED"
         \/ type = "item.deferred" /\ state = "QUEUED" /\ ledger[i].state = "RUNNING",
         ledger' \in [Items -> Row], \A k \in Items \ {i} : ledger'[k] = ledger[k],
         ledger'[i].state = state, ledger'[i].outcome = ledger[i].outcome,
         ledger'[i].cause = ledger[i].cause,
         Broadcast(<<ItemFrame(type, i)>>),
         unheard' = {k \in unheard : ledger'[k] = ledger[k]},
         UNCHANGED <<aborted, attached, rows, shown, drops, resyncs>>
  PROVE IInv'
<1>1. Whole(ledger') /\ Requeued'
  BY DEF IInv, Whole, Requeued, TypeOK
<1>2. Progress(ledger') \in Counts /\ (Progress(ledger').done => Done')
  BY <1>1, CountsTell
<1>3. PICK p \in Counts : p = Progress(ledger')
  BY <1>2
<1>4. PICK f : f = [type |-> type, item |-> i, progress |-> p]
  OBVIOUS
<1>5. f \in Frames /\ f.progress = p /\ Broadcast(<<f>>)
  <2>1. type \in {"item.started", "item.deferred"}
    OBVIOUS
  <2>2. f \in Frames
    BY <1>4, <2>1 DEF Frames
  <2> QED BY <1>3, <1>4, <2>2 DEF ItemFrame
<1>6. ASSUME NEW v, NEW w, Tracks(v), w = Handled(v, <<f>>) PROVE Tracks(w)'
  <2>1. v \in [Items -> Row]
    BY <1>6 DEF Tracks
  <2>2. w = Restated(v, i, state)
    <3>1. w = RowsAfter(v, f)
      BY <1>6, HandledOne
    <3>2. f.type = type /\ f.item = i
      BY <1>4
    <3> QED BY <3>1, <3>2 DEF RowsAfter
  <2>3. w \in [Items -> Row] /\ \A k \in Items \ {i} : w[k] = v[k]
    BY <2>1, <2>2 DEF Restated, Row, RowStates
  <2>4. w[i].state # "ABSENT" =>
          /\ w[i].state = state /\ v[i].state # "ABSENT"
          /\ w[i].outcome = v[i].outcome /\ w[i].cause = v[i].cause
    BY <2>1, <2>2 DEF Restated, Row
  <2>5. w[i].state # "ABSENT" =>
          /\ ledger'[i].state # "ABSENT"
          /\ w[i].outcome = ledger'[i].outcome /\ w[i].cause = ledger'[i].cause
          /\ w[i].state = ledger'[i].state
    BY <1>6, <2>4 DEF Tracks
  <2> QED BY <1>6, <2>3, <2>5, RowTold
<1>7. PICK frames \in Seq(Frames) : frames = <<f>> /\ \A n \in 1 .. Len(frames) : frames[n] = f
  <2>1. <<f>> \in Seq(Frames) /\ \A n \in 1 .. Len(<<f>>) : <<f>>[n] = f
    BY <1>5
  <2> QED BY <2>1
<1>8. unheard' \subseteq Items /\ aborted' \in Causes \cup {None}
  BY DEF IInv, TypeOK
<1>9. \A n \in 1 .. Len(frames) : frames[n].progress.done => Done'
  BY <1>2, <1>3, <1>5, <1>7
<1>10. Broadcast(frames) /\ \A v, w : Tracks(v) /\ w = Handled(v, frames) => Tracks(w)'
  BY <1>5, <1>6, <1>7
<1> QED BY <1>1, <1>8, <1>9, <1>10, Spread

(* A call that sends nothing. *)
LEMMA QuietStep ==
  ASSUME IInv, [Next]_vars, UNCHANGED <<attached, inbox, rows, shown, drops, resyncs>>,
         aborted' \in Causes \cup {None}, ledger' \in [Items -> Row], unheard' \subseteq Items,
         Whole(ledger'), Requeued', \A v : Tracks(v) => Tracks(v)'
  PROVE IInv'
<1>1. PICK frames \in Seq(Frames) : frames = <<>>
  <2>1. <<>> \in Seq(Frames)
    OBVIOUS
  <2> QED BY <2>1, Zenon
<1>2. Broadcast(frames)
  <2>1. inbox \in [Subscribers -> Seq(Frames)]
    BY DEF IInv, TypeOK
  <2>2. \A s \in Subscribers : inbox[s] \o frames = inbox[s]
    BY <1>1, <2>1
  <2>3. inbox = [s \in Subscribers |-> IF s \in attached THEN inbox[s] \o frames ELSE inbox[s]]
    BY <2>1, <2>2, Zenon
  <2> QED BY <2>3 DEF Broadcast
<1>3. \A n \in 1 .. Len(frames) : frames[n].progress.done => Done'
  BY <1>1
<1>4. \A v, w : Tracks(v) /\ w = Handled(v, frames) => Tracks(w)'
  BY <1>1, HandledNothing
<1> QED BY <1>2, <1>3, <1>4, Spread

LEMMA OpenStep ==
  ASSUME IInv, [Next]_vars, Open, unheard' = {k \in unheard : ledger'[k] = ledger[k]},
         UNCHANGED <<rows, shown, drops, resyncs>>
  PROVE IInv'
<1>1. ledger \in [Items -> Row] /\ unheard \subseteq Items
  BY DEF IInv, TypeOK
<1>2. NewRow \in Row /\ NewRow.state = "QUEUED"
  BY DEF NewRow, NoRow, Row, RowStates
<1>3. ledger' \in [Items -> Row] /\ \A k \in Items : ledger'[k].state # "ABSENT"
  BY <1>1, <1>2 DEF Open
<1>4. Whole(ledger')
  BY <1>3 DEF Whole
<1>5. Requeued'
  BY <1>1 DEF IInv, Requeued
<1>6. ASSUME NEW v, Tracks(v) PROVE Tracks(v)'
  <2>1. ASSUME NEW k \in Items, ledger[k].state # "ABSENT" PROVE ledger'[k] = ledger[k]
    BY <1>1, <2>1 DEF Open
  <2> QED BY <1>6, <2>1 DEF Tracks
<1>7. aborted' \in Causes \cup {None} /\ UNCHANGED <<attached, inbox>>
  BY DEF IInv, TypeOK, Open
<1> QED BY <1>1, <1>3, <1>4, <1>5, <1>6, <1>7, QuietStep

(* A call that finds nothing to change. *)
LEMMA NoStep ==
  ASSUME IInv, [Next]_vars, UNCHANGED vars PROVE IInv'
<1>1. UNCHANGED <<aborted, ledger, attached, inbox, rows, shown, unheard, drops, resyncs>>
  BY DEF vars, coordVars, pageVars
<1>2. ledger' \in [Items -> Row] /\ aborted' \in Causes \cup {None} /\ unheard' \subseteq Items
  BY <1>1 DEF IInv, TypeOK
<1>3. Whole(ledger') /\ Requeued'
  BY <1>1 DEF IInv, Whole, Requeued
<1>4. \A v : Tracks(v) => Tracks(v)'
  BY <1>1 DEF Tracks
<1> QED BY <1>1, <1>2, <1>3, <1>4, QuietStep

(* One frame, or none. *)
LEMMA OneOrNone ==
  ASSUME NEW F, NEW f \in F, NEW seq, seq = <<f>> \/ seq = <<>> PROVE seq \in Seq(F)
<1>1. <<f>> \in Seq(F) /\ <<>> \in Seq(F)
  OBVIOUS
<1> QED BY <1>1, Zenon

(* A call that settles row i, or finds it settled, and says how it stands. *)
LEMMA SettleStep ==
  ASSUME IInv, [Next]_vars, NEW i \in Items, NEW type \in {"item.completed", "item.failed"},
         ledger' \in [Items -> Row], \A k \in Items \ {i} : ledger'[k] = ledger[k],
         ledger'[i].state = "ABSENT" <=> ledger[i].state = "ABSENT",
         Settle(i, type),
         unheard' = {k \in unheard : ledger'[k] = ledger[k]},
         UNCHANGED <<aborted, attached, rows, shown, drops, resyncs>>
  PROVE IInv'
<1>1. Whole(ledger') /\ Requeued'
  BY DEF IInv, Whole, Requeued, TypeOK
<1>2. Progress(ledger') \in Counts /\ (Progress(ledger').done => Done')
  BY <1>1, CountsTell
<1>3. PICK p \in Counts : p = Progress(ledger')
  BY <1>2
<1>4. PICK row \in Row : row = ledger'[i]
  OBVIOUS
<1>5. PICK f \in Frames : f = [type |-> type, item |-> i, row |-> row, progress |-> p]
  <2>1. [type |-> type, item |-> i, row |-> row, progress |-> p] \in Frames
    BY DEF Frames
  <2> QED BY <2>1
<1>6. PICK g \in Frames : g = [type |-> "job.completed", progress |-> p]
  <2>1. [type |-> "job.completed", progress |-> p] \in Frames
    BY DEF Frames
  <2> QED BY <2>1
<1>7. PICK first \in Seq({f, g}), next \in Seq({f, g}) :
        /\ Broadcast(first \o next)
        /\ first = IF row.state = "ABSENT" THEN <<>> ELSE <<f>>
        /\ next = <<g>> \/ next = <<>>
  <2> DEFINE told == IF row.state = "ABSENT" THEN <<>> ELSE <<f>>
             over == IF p.done THEN <<g>> ELSE <<>>
  <2>1. RowFrame(type, i) = f /\ [type |-> "job.completed", progress |-> Progress(ledger')] = g
    BY <1>3, <1>4, <1>5, <1>6 DEF RowFrame
  <2>2. Broadcast(told \o over)
    BY <1>3, <1>4, <2>1 DEF Settle
  <2>3. (told = <<f>> \/ told = <<>>) /\ (over = <<g>> \/ over = <<>>)
    OBVIOUS
  <2>4. told = IF row.state = "ABSENT" THEN <<>> ELSE <<f>>
    OBVIOUS
  <2> HIDE DEF told, over
  <2>5. told \in Seq({f, g}) /\ over \in Seq({f, g})
    BY <2>3, OneOrNone
  <2> QED BY <2>2, <2>3, <2>4, <2>5
<1>8. PICK frames \in Seq({f, g}) : frames = first \o next /\ Broadcast(frames)
  <2>1. first \o next \in Seq({f, g})
    OBVIOUS
  <2> QED BY <1>7, <2>1
<1>9. frames \in Seq(Frames) /\ \A n \in 1 .. Len(frames) : frames[n] \in {f, g}
  OBVIOUS
<1>10. ASSUME NEW v, NEW w, Tracks(v), w = Handled(v, frames) PROVE Tracks(w)'
  <2>1. v \in [Items -> Row]
    BY <1>10 DEF Tracks
  <2>2. RowsAfter(v, f) = Upsert(v, i, row)
    BY <1>5 DEF RowsAfter
  <2>3. \A u : RowsAfter(u, g) = u
    BY <1>6 DEF RowsAfter
  <2>4. w = Upsert(v, i, row) \/ (w = v /\ row.state = "ABSENT")
    <3>1. PICK u : u = Handled(v, first)
      OBVIOUS
    <3>2. w = Handled(u, next)
      BY <1>8, <1>10, <3>1, HandledConcat
    <3>3. w = u
      BY <1>7, <2>3, <3>2, HandledNothing, HandledOne
    <3>4. u = Upsert(v, i, row) \/ (u = v /\ row.state = "ABSENT")
      BY <1>7, <2>2, <3>1, HandledNothing, HandledOne
    <3> QED BY <3>3, <3>4
  <2>5. /\ w \in [Items -> Row] /\ \A k \in Items \ {i} : w[k] = v[k]
        /\ w[i] = row \/ (w[i] = v[i] /\ row.state = "ABSENT")
    BY <2>1, <2>4 DEF Upsert
  <2>6. row.state = "ABSENT" => v[i].state = "ABSENT"
    BY <1>4, <1>10 DEF Tracks
  <2>7. w[i].state # "ABSENT" =>
          /\ ledger'[i].state # "ABSENT"
          /\ w[i].outcome = ledger'[i].outcome /\ w[i].cause = ledger'[i].cause
          /\ w[i].state = ledger'[i].state
    BY <1>4, <2>5, <2>6
  <2> QED BY <1>10, <2>5, <2>7, RowTold
<1>11. f.progress = p /\ g.progress = p
  BY <1>5, <1>6
<1>12. \A n \in 1 .. Len(frames) : frames[n].progress.done => Done'
  BY <1>2, <1>3, <1>9, <1>11
<1>13. unheard' \subseteq Items /\ aborted' \in Causes \cup {None}
  BY DEF IInv, TypeOK
<1>14. \A v, w : Tracks(v) /\ w = Handled(v, frames) => Tracks(w)'
  BY <1>10
<1> QED BY <1>1, <1>8, <1>9, <1>12, <1>13, <1>14, Spread

(* abort settles every row that has not, and the snapshot it sends is the ledger. *)
LEMMA AbortStep ==
  ASSUME IInv, [Next]_vars, NEW cause \in Causes, Abort(cause),
         unheard' = {k \in unheard : ledger'[k] = ledger[k]},
         UNCHANGED <<rows, shown, drops, resyncs>>
  PROVE IInv'
<1>1. ledger \in [Items -> Row]
  BY DEF IInv, TypeOK
<1>2. \A k \in Items : /\ ledger'[k] \in Row
                       /\ ledger'[k].state = "ABSENT" <=> ledger[k].state = "ABSENT"
  <2>1. ASSUME NEW row \in Row, row.state \in Pending
        PROVE [row EXCEPT !.state = "FAILED", !.cause = cause] \in Row
    BY DEF Row, RowStates
  <2>2. ASSUME NEW k \in Items
        PROVE /\ ledger'[k] \in Row
              /\ ledger'[k].state = "ABSENT" <=> ledger[k].state = "ABSENT"
    <3>1. PICK row \in Row : row = ledger[k]
      BY <1>1
    <3>2. ledger'[k] = IF row.state \in Pending
                         THEN [row EXCEPT !.state = "FAILED", !.cause = cause] ELSE row
      BY <3>1 DEF Abort
    <3>3. row.state \in Pending => /\ row.state # "ABSENT"
                                  /\ [row EXCEPT !.state = "FAILED", !.cause = cause].state # "ABSENT"
      BY DEF Pending, Row
    <3> QED BY <2>1, <3>1, <3>2, <3>3
  <2> QED BY <2>2
<1>3. ledger' \in [Items -> Row]
  BY <1>2 DEF Abort
<1>4. Whole(ledger') /\ Requeued'
  <2>1. Whole(ledger')
    BY <1>2 DEF IInv, Whole
  <2>2. Requeued'
    BY DEF IInv, Requeued
  <2> QED BY <2>1, <2>2
<1>5. Progress(ledger') \in Counts /\ (Progress(ledger').done => Done')
  BY <1>3, <1>4, CountsTell
<1>6. PICK p \in Counts, r \in [Items -> Row] : p = Progress(ledger') /\ r = ledger'
  BY <1>3, <1>5
<1>7. PICK f \in Frames, g \in Frames : /\ f = [type |-> "job.aborted", progress |-> p]
                                       /\ g = [type |-> "snapshot", rows |-> r, progress |-> p]
  <2>1. /\ [type |-> "job.aborted", progress |-> p] \in Frames
        /\ [type |-> "snapshot", rows |-> r, progress |-> p] \in Frames
    BY DEF Frames
  <2> QED BY <2>1
<1>8. Broadcast(<<f, g>>)
  BY <1>6, <1>7 DEF Abort, Snapshot
<1>9. ASSUME NEW v, NEW w, Tracks(v), w = Handled(v, <<f, g>>) PROVE Tracks(w)'
  <2>1. w = r
    <3>1. w = RowsAfter(RowsAfter(v, f), g)
      BY <1>9, HandledTwo
    <3> QED BY <1>7, <3>1 DEF RowsAfter
  <2> QED BY <1>6, <2>1 DEF Tracks
<1>10. PICK frames \in Seq(Frames) :
         frames = <<f, g>> /\ \A n \in 1 .. Len(frames) : frames[n].progress.done => Done'
  <2>1. <<f, g>> \in Seq(Frames) /\ \A n \in 1 .. Len(<<f, g>>) : <<f, g>>[n] \in {f, g}
    OBVIOUS
  <2>2. f.progress = p /\ g.progress = p
    BY <1>7
  <2>3. \A n \in 1 .. Len(<<f, g>>) : <<f, g>>[n].progress.done => Done'
    BY <1>5, <1>6, <2>1, <2>2
  <2> QED BY <2>1, <2>3
<1>11. unheard' \subseteq Items /\ aborted' \in Causes \cup {None} /\ UNCHANGED attached
  BY DEF IInv, TypeOK, Abort
<1>12. Broadcast(frames) /\ \A v, w : Tracks(v) /\ w = Handled(v, frames) => Tracks(w)'
  BY <1>8, <1>9, <1>10
<1> QED BY <1>3, <1>4, <1>10, <1>11, <1>12, Spread

LEMMA RequeueStep ==
  ASSUME IInv, [Next]_vars, NEW i \in Items, Requeue(i),
         unheard' = IF ledger'[i] = ledger[i] THEN unheard ELSE unheard \cup {i},
         UNCHANGED <<rows, shown, drops, resyncs>>
  PROVE IInv'
<1>1. ledger \in [Items -> Row] /\ unheard \subseteq Items
  BY DEF IInv, TypeOK
<1>2. CASE ledger[i].state # "RUNNING"
  <2>1. UNCHANGED vars
    BY <1>2 DEF Requeue, vars, coordVars, pageVars
  <2> QED BY <2>1, NoStep
<1>3. CASE ledger[i].state = "RUNNING"
  <2>1. ledger' \in [Items -> Row]
    <3>1. PICK row \in Row : row = [ledger[i] EXCEPT !.state = "QUEUED"]
      BY <1>1 DEF Row, RowStates
    <3>2. ledger' = [ledger EXCEPT ![i] = row]
      BY <1>3, <3>1 DEF Requeue
    <3> QED BY <1>1, <3>2
  <2>2. /\ \A k \in Items \ {i} : ledger'[k] = ledger[k]
        /\ ledger'[i].state = "QUEUED" /\ ledger'[i].outcome = ledger[i].outcome
        /\ ledger'[i].cause = ledger[i].cause
    BY <1>1, <1>3 DEF Requeue, Row
  <2>3. unheard' = unheard \cup {i}
    BY <1>3, <2>2
  <2>4. Whole(ledger')
    BY <1>3, <2>2 DEF IInv, Whole
  <2>5. Requeued'
    BY <1>1, <2>2, <2>3 DEF IInv, Requeued
  <2>6. ASSUME NEW v, Tracks(v) PROVE Tracks(v)'
    BY <2>2, <2>3, <2>6 DEF Tracks
  <2>7. unheard' \subseteq Items /\ aborted' \in Causes \cup {None} /\ UNCHANGED <<attached, inbox>>
    BY <1>1, <2>3 DEF IInv, TypeOK, Requeue
  <2> QED BY <2>1, <2>4, <2>5, <2>6, <2>7, QuietStep
<1> QED BY <1>2, <1>3

(* The calls that start, defer or settle one row. *)
LEMMA StartStep ==
  ASSUME IInv, [Next]_vars, NEW i \in Items, ledger[i].state = "QUEUED",
         ledger' = Running(i), Broadcast(<<ItemFrame("item.started", i)>>),
         unheard' = {k \in unheard : ledger'[k] = ledger[k]},
         UNCHANGED <<aborted, attached, rows, shown, drops, resyncs>>
  PROVE IInv'
<1>1. ledger \in [Items -> Row]
  BY DEF IInv, TypeOK
<1>2. PICK old \in Row : old = ledger[i]
  BY <1>1
<1>3. PICK row : row = [old EXCEPT !.state = "RUNNING", !.attempts = old.attempts + 1]
  OBVIOUS
<1>4. row \in Row /\ row.state = "RUNNING" /\ row.outcome = old.outcome /\ row.cause = old.cause
  <2>1. old.attempts + 1 \in Nat
    BY DEF Row
  <2>2. PICK n \in Nat : n = old.attempts + 1
    BY <2>1
  <2> QED BY <1>3, <2>2 DEF Row, RowStates
<1>5. ledger' = [ledger EXCEPT ![i] = row]
  BY <1>1, <1>2, <1>3 DEF Running, Row
<1>6. /\ ledger' \in [Items -> Row] /\ ledger'[i] = row
      /\ \A k \in Items \ {i} : ledger'[k] = ledger[k]
  BY <1>1, <1>4, <1>5
<1> QED BY <1>2, <1>4, <1>6, MoveStep

LEMMA DeferStep ==
  ASSUME IInv, [Next]_vars, NEW i \in Items, ledger[i].state = "RUNNING",
         ledger' = [ledger EXCEPT ![i].state = "QUEUED"],
         Broadcast(<<ItemFrame("item.deferred", i)>>),
         unheard' = {k \in unheard : ledger'[k] = ledger[k]},
         UNCHANGED <<aborted, attached, rows, shown, drops, resyncs>>
  PROVE IInv'
<1>1. ledger \in [Items -> Row]
  BY DEF IInv, TypeOK
<1>2. PICK old \in Row : old = ledger[i]
  BY <1>1
<1>3. PICK row : row = [old EXCEPT !.state = "QUEUED"]
  OBVIOUS
<1>4. row \in Row /\ row.state = "QUEUED" /\ row.outcome = old.outcome /\ row.cause = old.cause
  BY <1>3 DEF Row, RowStates
<1>5. ledger' = [ledger EXCEPT ![i] = row]
  BY <1>1, <1>2, <1>3
<1>6. /\ ledger' \in [Items -> Row] /\ ledger'[i] = row
      /\ \A k \in Items \ {i} : ledger'[k] = ledger[k]
  BY <1>1, <1>4, <1>5
<1> QED BY <1>2, <1>4, <1>6, MoveStep

LEMMA ResultStep ==
  ASSUME IInv, [Next]_vars, NEW i \in Items, NEW outcome \in Outcomes, RecordResult(i, outcome),
         unheard' = {k \in unheard : ledger'[k] = ledger[k]},
         UNCHANGED <<rows, shown, drops, resyncs>>
  PROVE IInv'
<1>1. ledger \in [Items -> Row]
  BY DEF IInv, TypeOK
<1>2. PICK old \in Row : old = ledger[i]
  BY <1>1
<1>3. PICK row : row = IF old.state \in Pending
                         THEN [old EXCEPT !.state = "COMPLETED", !.outcome = outcome, !.cause = None]
                         ELSE old
  OBVIOUS
<1>4. row \in Row /\ (row.state = "ABSENT" <=> old.state = "ABSENT")
  BY <1>3 DEF Row, RowStates, Pending
<1>5. ledger' = [ledger EXCEPT ![i] = row]
  BY <1>1, <1>2, <1>3 DEF RecordResult
<1>6. /\ ledger' \in [Items -> Row] /\ ledger'[i] = row
      /\ \A k \in Items \ {i} : ledger'[k] = ledger[k]
  BY <1>1, <1>4, <1>5
<1>7. Settle(i, "item.completed") /\ UNCHANGED <<aborted, attached>>
  BY DEF RecordResult
<1> QED BY <1>2, <1>4, <1>6, <1>7, SettleStep

LEMMA FailureStep ==
  ASSUME IInv, [Next]_vars, NEW i \in Items, NEW cause \in Causes, RecordFailure(i, cause),
         unheard' = {k \in unheard : ledger'[k] = ledger[k]},
         UNCHANGED <<rows, shown, drops, resyncs>>
  PROVE IInv'
<1>1. ledger \in [Items -> Row]
  BY DEF IInv, TypeOK
<1>2. PICK old \in Row : old = ledger[i]
  BY <1>1
<1>3. PICK row : row = IF old.state \in Pending
                         THEN [old EXCEPT !.state = "FAILED", !.cause = cause] ELSE old
  OBVIOUS
<1>4. row \in Row /\ (row.state = "ABSENT" <=> old.state = "ABSENT")
  BY <1>3 DEF Row, RowStates, Pending
<1>5. ledger' = [ledger EXCEPT ![i] = row]
  BY <1>1, <1>2, <1>3 DEF RecordFailure
<1>6. /\ ledger' \in [Items -> Row] /\ ledger'[i] = row
      /\ \A k \in Items \ {i} : ledger'[k] = ledger[k]
  BY <1>1, <1>4, <1>5
<1>7. Settle(i, "item.failed") /\ UNCHANGED <<aborted, attached>>
  BY DEF RecordFailure
<1> QED BY <1>2, <1>4, <1>6, <1>7, SettleStep

LEMMA CallStep ==
  ASSUME IInv, [Next]_vars, Call PROVE IInv'
<1>1. UNCHANGED <<rows, shown, drops, resyncs>> /\ unheard \subseteq Items
  BY DEF Call, pageVars, IInv, TypeOK
<1>2. ASSUME NEW i \in Items, Requeue(i),
             unheard' = IF ledger'[i] = ledger[i] THEN unheard ELSE unheard \cup {i}
      PROVE IInv'
  BY <1>1, <1>2, RequeueStep
<1>3. ASSUME unheard' = {k \in unheard : ledger'[k] = ledger[k]},
             UNCHANGED <<aborted, ledger, attached, inbox>>
      PROVE IInv'
  <2>1. UNCHANGED vars
    BY <1>1, <1>3 DEF vars, coordVars, pageVars
  <2> QED BY <2>1, NoStep
<1>4. ASSUME unheard' = {k \in unheard : ledger'[k] = ledger[k]}, Open PROVE IInv'
  BY <1>1, <1>4, OpenStep
<1>5. ASSUME unheard' = {k \in unheard : ledger'[k] = ledger[k]}, NEW i \in Items, StartItem(i) PROVE IInv'
  BY <1>1, <1>3, <1>5, StartStep DEF StartItem
<1>6. ASSUME unheard' = {k \in unheard : ledger'[k] = ledger[k]}, ClaimNextItem PROVE IInv'
  <2>1. PICK i \in Items : /\ ledger[i].state = "QUEUED" /\ ledger' = Running(i)
                           /\ Broadcast(<<ItemFrame("item.started", i)>>)
    BY <1>6 DEF ClaimNextItem, ItemsIn
  <2>2. UNCHANGED <<aborted, attached>>
    BY <1>6 DEF ClaimNextItem
  <2> QED BY <1>1, <1>6, <2>1, <2>2, StartStep
<1>7. ASSUME unheard' = {k \in unheard : ledger'[k] = ledger[k]}, NEW i \in Items, DeferItem(i) PROVE IInv'
  BY <1>1, <1>3, <1>7, DeferStep DEF DeferItem
<1>8. ASSUME unheard' = {k \in unheard : ledger'[k] = ledger[k]},
             NEW i \in Items, NEW outcome \in Outcomes, RecordResult(i, outcome)
      PROVE IInv'
  BY <1>1, <1>8, ResultStep
<1>9. ASSUME unheard' = {k \in unheard : ledger'[k] = ledger[k]},
             NEW i \in Items, NEW cause \in Causes, RecordFailure(i, cause)
      PROVE IInv'
  BY <1>1, <1>9, FailureStep
<1>10. ASSUME unheard' = {k \in unheard : ledger'[k] = ledger[k]}, NEW cause \in Causes, Abort(cause)
       PROVE IInv'
  BY <1>1, <1>10, AbortStep
<1>11. ASSUME Announced, unheard' = {k \in unheard : ledger'[k] = ledger[k]} PROVE IInv'
  BY <1>4, <1>5, <1>6, <1>7, <1>8, <1>9, <1>10, <1>11 DEF Announced
<1> QED BY <1>2, <1>11 DEF Call

-----------------------------------------------------------------------------
(* What a page does. *)

(* A step of the page s alone, which leaves the ledger and the other pages as they were. *)
LEMMA PageStep ==
  ASSUME IInv, NEW s \in Subscribers, UNCHANGED <<aborted, ledger, unheard>>,
         attached' \subseteq attached \cup {s},
         NEW view \in [Items -> Row], NEW frames \in Seq(Frames), NEW counts \in Counts,
         rows' = [rows EXCEPT ![s] = view], inbox' = [inbox EXCEPT ![s] = frames],
         shown' = [shown EXCEPT ![s] = counts],
         drops' \in Nat, resyncs' \in Nat,
         counts.done => Done, \A n \in 1 .. Len(frames) : frames[n].progress.done => Done,
         s \in attached' => Tracks(Handled(view, frames))
  PROVE IInv'
<1>1. TypeOK
  BY DEF IInv
<1>2. TypeOK'
  BY <1>1 DEF TypeOK
<1>3. /\ rows'[s] = view /\ inbox'[s] = frames /\ shown'[s] = counts
      /\ \A u \in Subscribers \ {s} : rows'[u] = rows[u] /\ inbox'[u] = inbox[u] /\ shown'[u] = shown[u]
  BY <1>1 DEF TypeOK
<1>4. Done' = Done
  BY DEF Done
<1>5. Whole(ledger') /\ Requeued'
  BY DEF IInv, Whole, Requeued
<1>6. Truthful'
  <2>1. ASSUME NEW u \in Subscribers, shown'[u].done PROVE Done'
    BY <1>3, <1>4, <2>1 DEF IInv, Truthful
  <2>2. ASSUME NEW u \in Subscribers, NEW n \in 1 .. Len(inbox'[u]), inbox'[u][n].progress.done
        PROVE Done'
    BY <1>3, <1>4, <2>2 DEF IInv, Truthful
  <2> QED BY <2>1, <2>2 DEF Truthful
<1>7. ASSUME NEW v, Tracks(v) PROVE Tracks(v)'
  BY <1>7 DEF Tracks
<1>8. ASSUME NEW u \in attached' PROVE Tracks(CaughtUp(u))'
  <2>1. CaughtUp(u)' = Handled(rows'[u], inbox'[u])
    BY DEF CaughtUp
  <2>2. PICK v : v = Handled(rows'[u], inbox'[u])
    OBVIOUS
  <2>3. CASE u = s
    <3>1. Tracks(v)
      BY <1>3, <2>2, <2>3
    <3>2. Tracks(v)'
      BY <1>7, <3>1
    <3> QED BY <2>1, <2>2, <3>2 DEF Tracks
  <2>4. CASE u # s
    <3>1. u \in attached /\ u \in Subscribers \ {s}
      BY <1>1, <2>4 DEF TypeOK
    <3>2. v = CaughtUp(u)
      BY <1>3, <2>2, <3>1 DEF CaughtUp
    <3>3. Tracks(v)
      BY <3>1, <3>2 DEF IInv
    <3>4. Tracks(v)'
      BY <1>7, <3>3
    <3> QED BY <2>1, <2>2, <3>4 DEF Tracks
  <2> QED BY <2>3, <2>4
<1> QED BY <1>2, <1>5, <1>6, <1>8 DEF IInv

LEMMA RestatedIsView ==
  ASSUME NEW v \in [Items -> Row], NEW i \in Items, NEW state \in RowStates
  PROVE Restated(v, i, state) \in [Items -> Row]
<1>1. PICK row \in Row : row = [v[i] EXCEPT !.state = state]
  BY DEF Row
<1>2. [v EXCEPT ![i] = row] \in [Items -> Row]
  OBVIOUS
<1> QED BY <1>1, <1>2 DEF Restated

LEMMA HandleStep ==
  ASSUME IInv, NEW s \in Subscribers, HandleEvent(s) PROVE IInv'
<1>1. PICK frames \in Seq(Frames) : frames = inbox[s]
  BY DEF IInv, TypeOK
<1>2. frames # <<>>
  BY <1>1 DEF HandleEvent
<1>3. PICK f \in Frames, rest \in Seq(Frames) : f = Head(frames) /\ rest = Tail(frames)
  <2>1. Head(frames) \in Frames /\ Tail(frames) \in Seq(Frames)
    BY <1>2
  <2> QED BY <2>1
<1>4. PICK old \in [Items -> Row] : old = rows[s]
  BY DEF IInv, TypeOK
<1>5. RowsAfter(old, f) \in [Items -> Row]
  <2>1. CASE f.type = "snapshot"
    <3>1. f.rows \in [Items -> Row]
      BY <2>1 DEF Frames
    <3> QED BY <2>1, <3>1 DEF RowsAfter
  <2>2. CASE f.type = "item.started"
    <3>1. f.item \in Items /\ RowsAfter(old, f) = Restated(old, f.item, "RUNNING")
      BY <2>2 DEF Frames, RowsAfter
    <3> QED BY <3>1, RestatedIsView DEF RowStates
  <2>3. CASE f.type = "item.deferred"
    <3>1. f.item \in Items /\ RowsAfter(old, f) = Restated(old, f.item, "QUEUED")
      BY <2>3 DEF Frames, RowsAfter
    <3> QED BY <3>1, RestatedIsView DEF RowStates
  <2>4. CASE f.type \in {"item.completed", "item.failed"}
    <3>1. f.item \in Items /\ f.row \in Row /\ RowsAfter(old, f) = Upsert(old, f.item, f.row)
      BY <2>4 DEF Frames, RowsAfter
    <3> QED BY <3>1 DEF Upsert
  <2>5. CASE f.type \in {"job.completed", "job.aborted"}
    BY <2>5 DEF RowsAfter
  <2>6. f.type \in {"snapshot", "item.started", "item.deferred", "item.completed", "item.failed",
                    "job.completed", "job.aborted"}
    BY DEF Frames
  <2> QED BY <2>1, <2>2, <2>3, <2>4, <2>5, <2>6
<1>6. PICK view \in [Items -> Row] : view = RowsAfter(old, f)
  BY <1>5
<1>7. PICK counts \in Counts : counts = f.progress
  <2>1. f.progress \in Counts
    BY DEF Frames
  <2> QED BY <2>1
<1>8. /\ rows' = [rows EXCEPT ![s] = view] /\ inbox' = [inbox EXCEPT ![s] = rest]
      /\ shown' = [shown EXCEPT ![s] = counts]
      /\ UNCHANGED <<aborted, ledger, unheard, attached, drops, resyncs>>
  BY <1>1, <1>3, <1>4, <1>6, <1>7 DEF HandleEvent
<1>9. counts.done => Done
  <2>1. 1 \in 1 .. Len(frames) /\ frames[1] = f
    BY <1>2, <1>3
  <2> QED BY <1>1, <1>7, <2>1 DEF IInv, Truthful
<1>10. ASSUME NEW n \in 1 .. Len(rest), rest[n].progress.done PROVE Done
  <2>1. n + 1 \in 1 .. Len(frames) /\ frames[n + 1] = rest[n]
    BY <1>2, <1>3
  <2>2. PICK k \in 1 .. Len(frames) : k = n + 1 /\ frames[k] = rest[n]
    <3>1. \E k \in 1 .. Len(frames) : k = n + 1
      BY <2>1
    <3> QED BY <2>1, <3>1
  <2>3. inbox[s][k].progress.done /\ k \in 1 .. Len(inbox[s])
    BY <1>1, <1>10, <2>2
  <2> QED BY <2>3 DEF IInv, Truthful
<1>11. s \in attached => Tracks(Handled(view, rest))
  <2>1. Handled(RowsAfter(old, Head(frames)), Tail(frames)) = Handled(old, frames)
    BY <1>2, HandledFirst
  <2>2. Handled(view, rest) = CaughtUp(s)
    BY <1>1, <1>3, <1>4, <1>6, <2>1 DEF CaughtUp
  <2> QED BY <2>2 DEF IInv
<1>12. drops' \in Nat /\ resyncs' \in Nat /\ attached' \subseteq attached \cup {s}
  BY <1>8 DEF IInv, TypeOK
<1> QED BY <1>8, <1>9, <1>10, <1>11, <1>12, PageStep

(* The ledger as a snapshot tells it. *)
LEMMA SnapshotTells ==
  ASSUME IInv
  PROVE /\ Snapshot(ledger) \in Frames /\ (Snapshot(ledger).progress.done => Done)
        /\ Tracks(ledger) /\ \A v : RowsAfter(v, Snapshot(ledger)) = ledger
<1>1. ledger \in [Items -> Row] /\ Whole(ledger)
  BY DEF IInv, TypeOK
<1>2. Progress(ledger) \in Counts /\ (Progress(ledger).done => \A i \in Items : ledger[i].state \in Settled)
  BY <1>1, ProgressTells
<1>3. Snapshot(ledger) \in Frames
  BY <1>1, <1>2 DEF Snapshot, Frames
<1>4. Snapshot(ledger).progress.done => Done
  BY <1>2 DEF Snapshot, Done
<1>5. Tracks(ledger)
  BY <1>1 DEF Tracks
<1>6. \A v : RowsAfter(v, Snapshot(ledger)) = ledger
  BY DEF RowsAfter, Snapshot
<1> QED BY <1>3, <1>4, <1>5, <1>6

LEMMA ConnectStep ==
  ASSUME IInv, NEW s \in Subscribers, Connect(s) PROVE IInv'
<1>1. PICK f \in Frames : f = Snapshot(ledger)
  BY SnapshotTells
<1>2. PICK view \in [Items -> Row], counts \in Counts : view = rows[s] /\ counts = shown[s]
  BY DEF IInv, TypeOK
<1>3. PICK frames \in Seq(Frames) : frames = <<f>> /\ \A n \in 1 .. Len(frames) : frames[n] = f
  <2>1. <<f>> \in Seq(Frames) /\ \A n \in 1 .. Len(<<f>>) : <<f>>[n] = f
    OBVIOUS
  <2> QED BY <2>1
<1>4. /\ UNCHANGED <<aborted, ledger, unheard, rows, shown, drops, resyncs>>
      /\ attached' = attached \cup {s} /\ inbox' = [inbox EXCEPT ![s] = frames]
  BY <1>1, <1>3 DEF Connect, Attach, pageVars
<1>5. rows' = [rows EXCEPT ![s] = view] /\ shown' = [shown EXCEPT ![s] = counts]
  BY <1>2, <1>4 DEF IInv, TypeOK
<1>6. counts.done => Done
  BY <1>2 DEF IInv, Truthful
<1>7. \A n \in 1 .. Len(frames) : frames[n].progress.done => Done
  BY <1>1, <1>3, SnapshotTells
<1>8. Handled(view, frames) = ledger
  BY <1>1, <1>3, HandledOne, SnapshotTells
<1>9. Tracks(Handled(view, frames))
  BY <1>8, SnapshotTells
<1>10. drops' \in Nat /\ resyncs' \in Nat
  BY <1>4 DEF IInv, TypeOK
<1> QED BY <1>4, <1>5, <1>6, <1>7, <1>9, <1>10, PageStep

LEMMA LostStep ==
  ASSUME IInv, NEW s \in Subscribers, ConnectionLost(s) PROVE IInv'
<1>1. PICK view \in [Items -> Row], counts \in Counts : view = rows[s] /\ counts = shown[s]
  BY DEF IInv, TypeOK
<1>2. PICK frames \in Seq(Frames) : frames = <<>>
  <2>1. <<>> \in Seq(Frames)
    OBVIOUS
  <2> QED BY <2>1, Zenon
<1>3. /\ UNCHANGED <<aborted, ledger, unheard, rows, shown, resyncs>> /\ drops' = drops + 1
      /\ attached' = attached \ {s} /\ inbox' = [inbox EXCEPT ![s] = frames]
  BY <1>2 DEF ConnectionLost, Detach, pageVars
<1>4. rows' = [rows EXCEPT ![s] = view] /\ shown' = [shown EXCEPT ![s] = counts]
  BY <1>1, <1>3 DEF IInv, TypeOK
<1>5. counts.done => Done
  BY <1>1 DEF IInv, Truthful
<1>6. \A n \in 1 .. Len(frames) : frames[n].progress.done => Done
  BY <1>2
<1>7. drops' \in Nat /\ resyncs' \in Nat
  BY <1>3 DEF IInv, TypeOK
<1> QED BY <1>3, <1>4, <1>5, <1>6, <1>7, PageStep

LEMMA ResyncStep ==
  ASSUME IInv, NEW s \in Subscribers, AskResync(s) PROVE IInv'
<1>1. PICK f \in Frames : f = Snapshot(ledger)
  BY SnapshotTells
<1>2. PICK view \in [Items -> Row], counts \in Counts : view = rows[s] /\ counts = shown[s]
  BY DEF IInv, TypeOK
<1>3. PICK old \in Seq(Frames) : old = inbox[s]
  BY DEF IInv, TypeOK
<1>4. PICK last \in Seq(Frames) : last = <<f>> /\ Append(old, f) = old \o last
  <2>1. <<f>> \in Seq(Frames) /\ Append(old, f) = old \o <<f>>
    OBVIOUS
  <2> QED BY <2>1
<1>5. PICK frames \in Seq(Frames) : frames = old \o last /\ frames = Append(old, f)
  <2>1. Append(old, f) \in Seq(Frames)
    OBVIOUS
  <2> QED BY <1>4, <2>1
<1>6. /\ UNCHANGED <<aborted, ledger, unheard, attached, rows, shown, drops>> /\ resyncs' = resyncs + 1
      /\ inbox' = [inbox EXCEPT ![s] = frames]
  BY <1>1, <1>3, <1>5 DEF AskResync, Resync, pageVars
<1>7. rows' = [rows EXCEPT ![s] = view] /\ shown' = [shown EXCEPT ![s] = counts]
  BY <1>2, <1>6 DEF IInv, TypeOK
<1>8. counts.done => Done
  BY <1>2 DEF IInv, Truthful
<1>9. ASSUME NEW n \in 1 .. Len(frames), frames[n].progress.done PROVE Done
  <2>1. frames[n] = f \/ (n \in 1 .. Len(old) /\ frames[n] = old[n])
    BY <1>5
  <2>2. CASE frames[n] = f
    BY <1>1, <1>9, <2>2, SnapshotTells
  <2>3. CASE n \in 1 .. Len(old) /\ frames[n] = old[n]
    BY <1>3, <1>9, <2>3 DEF IInv, Truthful
  <2> QED BY <2>1, <2>2, <2>3
<1>10. Handled(view, frames) = ledger
  <2>1. Handled(view, frames) = Handled(Handled(view, old), last)
    <3>1. Handled(view, old \o last) = Handled(Handled(view, old), last)
      BY HandledConcat
    <3> QED BY <1>5, <3>1
  <2>2. PICK v : v = Handled(view, old)
    OBVIOUS
  <2>3. Handled(v, last) = RowsAfter(v, f)
    BY <1>4, HandledOne
  <2>4. RowsAfter(v, f) = ledger
    BY <1>1, SnapshotTells
  <2> QED BY <2>1, <2>2, <2>3, <2>4
<1>11. Tracks(Handled(view, frames))
  BY <1>10, SnapshotTells
<1>12. drops' \in Nat /\ resyncs' \in Nat /\ attached' \subseteq attached \cup {s}
  BY <1>6 DEF IInv, TypeOK
<1> QED BY <1>6, <1>7, <1>8, <1>9, <1>11, <1>12, PageStep

-----------------------------------------------------------------------------
LEMMA Invariance == Spec => []IInv
<1>1. ASSUME IInv, [Next]_vars PROVE IInv'
  <2>1. CASE Call
    BY <1>1, <2>1, CallStep
  <2>2. ASSUME NEW s \in Subscribers, Page(s) \/ ConnectionLost(s) \/ AskResync(s) PROVE IInv'
    BY <1>1, <2>2, HandleStep, ConnectStep, LostStep, ResyncStep DEF Page
  <2>3. CASE UNCHANGED vars
    BY <1>1, <2>3, NoStep
  <2> QED BY <1>1, <2>1, <2>2, <2>3 DEF Next
<1> QED BY <1>1, InitInv, PTL DEF Spec

(* A row that reached COMPLETED or FAILED is never changed again, whatever late, repeated   *)
(* or contradictory call follows it, for any number of items and calls (the guards of the   *)
(* ledger's UPDATE statements).                                                             *)
THEOREM Final == Spec => SettledIsFinal
<1>1. ASSUME IInv, [Next]_vars
      PROVE \A i \in Items : ledger[i].state \in Settled => ledger'[i] = ledger[i]
  BY <1>1, FinalStep DEF IInv
<1>2. IInv /\ [Next]_vars => [\A i \in Items : ledger[i].state \in Settled => ledger'[i] = ledger[i]]_vars
  BY <1>1
<1> QED BY <1>2, Invariance, PTL DEF Spec, SettledIsFinal

(* Every variable keeps to its kind, the frames in flight included, for any number of items *)
(* and pages.                                                                               *)
THEOREM TypeCorrect == Spec => []TypeOK
<1>1. IInv => TypeOK
  BY DEF IInv
<1> QED BY <1>1, Invariance, PTL

(* A page offers to start again only when nothing is outstanding in the ledger, however old *)
(* the frame it last rendered and whether or not it is still connected (renderProgress).    *)
THEOREM Finish == Spec => []NoFalseFinish
<1>1. IInv => NoFalseFinish
  BY DEF IInv, Truthful, NoFalseFinish
<1> QED BY <1>1, Invariance, PTL

(* Once the frames on their way are handled, every row of an attached page is the ledger's, *)
(* but for the rows requeue changed without a word: however many frames, reconnects and     *)
(* resync answers are in flight, in any order (#broadcast, fetch, handleEvent).             *)
THEOREM Tracked == Spec => []PageTracksLedger
<1>1. ASSUME IInv, NEW s \in attached, NEW i \in Items \ unheard, CaughtUp(s)[i].state # "ABSENT"
      PROVE Face(CaughtUp(s)[i]) = Face(ledger[i])
  <2>1. Tracks(CaughtUp(s))
    BY <1>1 DEF IInv
  <2>2. /\ CaughtUp(s)[i].state = ledger[i].state /\ CaughtUp(s)[i].outcome = ledger[i].outcome
        /\ CaughtUp(s)[i].cause = ledger[i].cause
    BY <1>1, <2>1 DEF Tracks
  <2> QED BY <2>2 DEF Face
<1>2. IInv => PageTracksLedger
  BY <1>1 DEF PageTracksLedger
<1> QED BY <1>2, Invariance, PTL
=============================================================================
