------------------------------ MODULE JobStream ------------------------------
(***************************************************************************)
(* The coordinator and the pages that watch it: every ledger operation in  *)
(* any order the callers may make it, the socket each page holds, and the  *)
(* worklist each page rebuilds from the frames it receives (handleEvent    *)
(* and connect in src/src/ui/page.ts).                                     *)
(***************************************************************************)
EXTENDS JobCoordinator

CONSTANTS
  MaxStarts,    \* bound: how often one item is started
  MaxInFlight,  \* bound: frames on the way to one page when a call is made
  MaxDrops,     \* bound: how many connections are lost
  MaxResyncs    \* bound: how many resync requests are sent

ASSUME StreamAssumption ==
  /\ MaxStarts \in Nat \ {0}
  /\ MaxInFlight \in Nat
  /\ MaxDrops \in Nat
  /\ MaxResyncs \in Nat

VARIABLES
  rows,     \* per page, the rows map
  shown,    \* per page, the progress it last rendered
  unheard,  \* history: the rows requeue has changed and no frame has told of since
  drops, resyncs

pageVars == <<rows, shown>>
vars == <<coordVars, pageVars, unheard, drops, resyncs>>

NoRows == [i \in Items |-> NoRow]

-----------------------------------------------------------------------------
(* What one frame does to a page that shows view. *)
Upsert(view, i, row) == [view EXCEPT ![i] = row]

Restated(view, i, state) ==
  IF view[i].state = "ABSENT" THEN view ELSE [view EXCEPT ![i].state = state]

RowsAfter(view, frame) ==
  CASE frame.type = "snapshot" -> frame.rows
    [] frame.type = "item.started" -> Restated(view, frame.item, "RUNNING")
    [] frame.type = "item.deferred" -> Restated(view, frame.item, "QUEUED")
    [] frame.type \in {"item.completed", "item.failed"} -> Upsert(view, frame.item, frame.row)
    [] OTHER -> view

HandleEvent(s) ==
  /\ inbox[s] # <<>>
  /\ rows' = [rows EXCEPT ![s] = RowsAfter(@, Head(inbox[s]))]
  /\ shown' = [shown EXCEPT ![s] = Head(inbox[s]).progress]
  /\ inbox' = [inbox EXCEPT ![s] = Tail(@)]
  /\ UNCHANGED <<aborted, ledger, attached, unheard, drops, resyncs>>

(* connect: on load, and again 1.5s after the live socket closed. *)
Connect(s) ==
  /\ Attach(s)
  /\ UNCHANGED <<pageVars, unheard, drops, resyncs>>

ConnectionLost(s) ==
  /\ drops < MaxDrops
  /\ drops' = drops + 1
  /\ Detach(s)
  /\ UNCHANGED <<pageVars, unheard, resyncs>>

AskResync(s) ==
  /\ resyncs < MaxResyncs
  /\ resyncs' = resyncs + 1
  /\ Resync(s)
  /\ UNCHANGED <<pageVars, unheard, drops>>

(* The job is opened before any of its items can be worked on (startBatch). *)
Opened == \E i \in Items : ledger[i].state # "ABSENT"

MayStart(i) == ledger[i].attempts < MaxStarts

(* The calls that tell the pages of every row they change. *)
Announced ==
  \/ Open
  \/ /\ Opened
     /\ \/ \E i \in Items : MayStart(i) /\ StartItem(i)
        \/ (\A i \in Items : MayStart(i)) /\ ClaimNextItem
        \/ \E i \in Items : DeferItem(i)
        \/ \E i \in Items, outcome \in Outcomes : RecordResult(i, outcome)
        \/ \E i \in Items, cause \in Causes : RecordFailure(i, cause)
        \/ \E cause \in Causes : Abort(cause)

(* Nothing in the repository calls requeue; the coordinator offers it all the same. *)
Call ==
  /\ \A s \in attached : Len(inbox[s]) <= MaxInFlight
  /\ \/ Announced /\ unheard' = {i \in unheard : ledger'[i] = ledger[i]}
     \/ \E i \in Items : /\ Requeue(i)
                        /\ unheard' = IF ledger'[i] = ledger[i] THEN unheard ELSE unheard \cup {i}
  /\ UNCHANGED <<pageVars, drops, resyncs>>

Init ==
  /\ CoordInit
  /\ rows = [s \in Subscribers |-> NoRows]
  /\ shown = [s \in Subscribers |-> Progress(NoRows)]
  /\ unheard = {}
  /\ drops = 0
  /\ resyncs = 0

Page(s) == HandleEvent(s) \/ Connect(s)

Next ==
  \/ Call
  \/ \E s \in Subscribers : Page(s) \/ ConnectionLost(s) \/ AskResync(s)

(* A page reconnects by timer and handles what it is sent; nobody is bound *)
(* to call the coordinator.                                                *)
Spec == Init /\ [][Next]_vars /\ \A s \in Subscribers : WF_vars(Page(s))
-----------------------------------------------------------------------------
(* Properties. *)

(* A row that reached COMPLETED or FAILED is never changed again, whatever late, repeated *)
(* or contradictory call follows it: abort after a result, a result after an abort, a     *)
(* second failure, a re-open (the guards of the ledger's UPDATE statements).              *)
SettledIsFinal ==
  [][\A i \in Items : ledger[i].state \in Settled => ledger'[i] = ledger[i]]_vars

(* A row as a page shows it: the worklist renders no attempt count. *)
Face(row) == [state |-> row.state, outcome |-> row.outcome, cause |-> row.cause]

(* What a page that shows view will show once it has handled the frames. *)
Handled(view, frames) ==
  LET after[n \in 0 .. Len(frames)] ==
        IF n = 0 THEN view ELSE RowsAfter(after[n - 1], frames[n])
  IN after[Len(frames)]

CaughtUp(s) == Handled(rows[s], inbox[s])

(* A row on an attached page becomes, once the frames in flight are handled, exactly the  *)
(* ledger's row: no transition but requeue's goes unannounced, none is announced with an  *)
(* earlier state, and a reconnect loses nothing (#broadcast, fetch, handleEvent).         *)
PageTracksLedger ==
  \A s \in attached, i \in Items \ unheard :
    CaughtUp(s)[i].state # "ABSENT" => Face(CaughtUp(s)[i]) = Face(ledger[i])

(* A page offers to start again only when the ledger really has nothing outstanding, even *)
(* when the frame it last rendered is old or its socket is gone (renderProgress).         *)
NoFalseFinish ==
  \A s \in Subscribers : shown[s].done => Done

(* A job that finishes is shown as finished by every page, lost connections included: a   *)
(* closed lid does not lose a job (connect's reconnect, B7).                              *)
FinishReachesPages ==
  \A s \in Subscribers : Done ~> shown[s].done
=============================================================================
