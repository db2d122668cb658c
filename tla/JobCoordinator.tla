--------------------------- MODULE JobCoordinator ---------------------------
(***************************************************************************)
(* The Durable Object that owns one job (src/src/job-coordinator.ts): its  *)
(* item ledger, its abort mark, and the sockets it fans events out to.     *)
(* Each operation is one atomic step, as constraint 1 of that file asks:   *)
(* every UPDATE carries its own condition and nothing is read, decided on  *)
(* and written back.  A broadcast is part of the operation that makes it.  *)
(*                                                                         *)
(* Items are numbered by their place in the list open() is given, which is *)
(* the order of the ledger's AUTOINCREMENT column.  A job's name, an       *)
(* item's source name and its summary text are left out.                   *)
(***************************************************************************)
EXTENDS Naturals, Sequences, FiniteSets

CONSTANTS
  ItemCount,     \* how many items the job was opened with
  Outcomes,      \* the verdict outcomes recordResult may store
  Causes,        \* the failure causes recordFailure and abort may store
  Subscribers,   \* the sockets that may attach to the job's stream
  None           \* SQL NULL

ASSUME CoordinatorAssumption ==
  /\ ItemCount \in Nat \ {0}
  /\ None \notin Outcomes
  /\ None \notin Causes

VARIABLES
  aborted,    \* meta.aborted: the reason, or None
  ledger,     \* the item table
  attached,   \* the sockets ctx.getWebSockets() returns
  inbox       \* per socket, the frames sent and not yet received

coordVars == <<aborted, ledger, attached, inbox>>

Items == 1 .. ItemCount

RowStates == {"ABSENT", "QUEUED", "RUNNING", "COMPLETED", "FAILED"}
Pending == {"QUEUED", "RUNNING"}
Settled == {"COMPLETED", "FAILED"}

Row == [state : RowStates, outcome : Outcomes \cup {None},
        cause : Causes \cup {None}, attempts : Nat]

NoRow == [state |-> "ABSENT", outcome |-> None, cause |-> None, attempts |-> 0]
NewRow == [NoRow EXCEPT !.state = "QUEUED"]

ItemsIn(rows, states) == {i \in Items : rows[i].state \in states}

(* Mutant: done once nothing is running. *)
Progress_IgnoresQueue(rows) ==
  LET total == Cardinality(ItemsIn(rows, RowStates \ {"ABSENT"}))
      completed == Cardinality(ItemsIn(rows, {"COMPLETED"}))
      failed == Cardinality(ItemsIn(rows, {"FAILED"}))
  IN [total |-> total, completed |-> completed, failed |-> failed,
      done |-> total > 0 /\ ItemsIn(rows, {"RUNNING"}) = {}]

(* #progress: the counts, and the ledger's own judgement that nothing is outstanding. *)
Progress(rows) ==
  LET total == Cardinality(ItemsIn(rows, RowStates \ {"ABSENT"}))
      completed == Cardinality(ItemsIn(rows, {"COMPLETED"}))
      failed == Cardinality(ItemsIn(rows, {"FAILED"}))
  IN [total |-> total, completed |-> completed, failed |-> failed,
      done |-> total > 0 /\ completed + failed = total]

(* #broadcast: every attached socket is sent the frames, in order. *)
Broadcast(frames) ==
  inbox' = [s \in Subscribers |->
              IF s \in attached THEN inbox[s] \o frames ELSE inbox[s]]

Snapshot(rows) == [type |-> "snapshot", rows |-> rows, progress |-> Progress(rows)]
ItemFrame(type, i) == [type |-> type, item |-> i, progress |-> Progress(ledger')]
RowFrame(type, i) ==
  [type |-> type, item |-> i, row |-> ledger'[i], progress |-> Progress(ledger')]

-----------------------------------------------------------------------------
(* The operations. *)

Open ==
  /\ ledger' = [i \in Items |-> IF ledger[i].state = "ABSENT" THEN NewRow ELSE ledger[i]]
  /\ UNCHANGED <<aborted, attached, inbox>>

(* QUEUED -> RUNNING and one more attempt: shared by startItem and claimNextItem. *)
Running(i) ==
  [ledger EXCEPT ![i].state = "RUNNING", ![i].attempts = @ + 1]

StartItem(i) ==
  /\ IF ledger[i].state = "QUEUED"
       THEN ledger' = Running(i) /\ Broadcast(<<ItemFrame("item.started", i)>>)
       ELSE UNCHANGED <<ledger, inbox>>
  /\ UNCHANGED <<aborted, attached>>

(* The lowest-numbered queued item; with none queued it returns null. *)
ClaimNextItem ==
  /\ \E i \in ItemsIn(ledger, {"QUEUED"}) :
       /\ \A j \in ItemsIn(ledger, {"QUEUED"}) : i <= j
       /\ ledger' = Running(i)
       /\ Broadcast(<<ItemFrame("item.started", i)>>)
  /\ UNCHANGED <<aborted, attached>>

(* Mutant: the UPDATE does not ask for a running row. *)
DeferItem_Unguarded(i) ==
  /\ ledger' = [ledger EXCEPT ![i].state = "QUEUED"]
  /\ Broadcast(<<ItemFrame("item.deferred", i)>>)
  /\ UNCHANGED <<aborted, attached>>

DeferItem(i) ==
  /\ IF ledger[i].state = "RUNNING"
       THEN /\ ledger' = [ledger EXCEPT ![i].state = "QUEUED"]
            /\ Broadcast(<<ItemFrame("item.deferred", i)>>)
       ELSE UNCHANGED <<ledger, inbox>>
  /\ UNCHANGED <<aborted, attached>>

(* The quiet twin of deferItem: it tells no subscriber. *)
Requeue(i) ==
  /\ ledger' = IF ledger[i].state = "RUNNING"
                 THEN [ledger EXCEPT ![i].state = "QUEUED"] ELSE ledger
  /\ UNCHANGED <<aborted, attached, inbox>>

(* #settle announces the row as it now stands, whether or not the UPDATE matched. *)
Settle(i, type) ==
  LET completed == [type |-> "job.completed", progress |-> Progress(ledger')]
      row == IF ledger'[i].state = "ABSENT" THEN <<>> ELSE <<RowFrame(type, i)>>
  IN Broadcast(row \o IF Progress(ledger').done THEN <<completed>> ELSE <<>>)

(* Mutant: only a running row takes a result. *)
RecordResult_RunningOnly(i, outcome) ==
  /\ ledger' = IF ledger[i].state = "RUNNING"
                 THEN [ledger EXCEPT ![i].state = "COMPLETED", ![i].outcome = outcome,
                                     ![i].cause = None]
                 ELSE ledger
  /\ Settle(i, "item.completed")
  /\ UNCHANGED <<aborted, attached>>

RecordResult(i, outcome) ==
  /\ ledger' = IF ledger[i].state \in Pending
                 THEN [ledger EXCEPT ![i].state = "COMPLETED", ![i].outcome = outcome,
                                     ![i].cause = None]
                 ELSE ledger
  /\ Settle(i, "item.completed")
  /\ UNCHANGED <<aborted, attached>>

(* Mutant: a failure overwrites whatever the row holds. *)
RecordFailure_Unguarded(i, cause) ==
  /\ ledger' = [ledger EXCEPT ![i].state = "FAILED", ![i].cause = cause]
  /\ Settle(i, "item.failed")
  /\ UNCHANGED <<aborted, attached>>

RecordFailure(i, cause) ==
  /\ ledger' = IF ledger[i].state \in Pending
                 THEN [ledger EXCEPT ![i].state = "FAILED", ![i].cause = cause]
                 ELSE ledger
  /\ Settle(i, "item.failed")
  /\ UNCHANGED <<aborted, attached>>

(* Mutant: no snapshot follows the abort frame. *)
Abort_NoSnapshot(reason) ==
  /\ aborted' = reason
  /\ ledger' = [i \in Items |->
                  IF ledger[i].state \in Pending
                    THEN [ledger[i] EXCEPT !.state = "FAILED", !.cause = reason]
                    ELSE ledger[i]]
  /\ Broadcast(<<[type |-> "job.aborted", progress |-> Progress(ledger')]>>)
  /\ UNCHANGED attached

(* Every pending row settles at once, so a snapshot follows the abort frame. *)
Abort(reason) ==
  /\ aborted' = reason
  /\ ledger' = [i \in Items |->
                  IF ledger[i].state \in Pending
                    THEN [ledger[i] EXCEPT !.state = "FAILED", !.cause = reason]
                    ELSE ledger[i]]
  /\ Broadcast(<<[type |-> "job.aborted", progress |-> Progress(ledger')],
                 Snapshot(ledger')>>)
  /\ UNCHANGED attached

(* Mutant: a socket is accepted and sent nothing. *)
Attach_Silent(s) ==
  /\ s \notin attached
  /\ attached' = attached \cup {s}
  /\ UNCHANGED <<aborted, ledger, inbox>>

(* fetch: accept the socket and send it the ledger as it stands. *)
Attach(s) ==
  /\ s \notin attached
  /\ attached' = attached \cup {s}
  /\ inbox' = [inbox EXCEPT ![s] = <<Snapshot(ledger)>>]
  /\ UNCHANGED <<aborted, ledger>>

(* webSocketMessage: the one message a subscriber may send. *)
Resync(s) ==
  /\ s \in attached
  /\ inbox' = [inbox EXCEPT ![s] = Append(@, Snapshot(ledger))]
  /\ UNCHANGED <<aborted, ledger, attached>>

(* webSocketClose, or a connection simply lost: what was in flight goes with it. *)
Detach(s) ==
  /\ s \in attached
  /\ attached' = attached \ {s}
  /\ inbox' = [inbox EXCEPT ![s] = <<>>]
  /\ UNCHANGED <<aborted, ledger>>

-----------------------------------------------------------------------------
CoordInit ==
  /\ aborted = None
  /\ ledger = [i \in Items |-> NoRow]
  /\ attached = {}
  /\ inbox = [s \in Subscribers |-> <<>>]

CoordTypeOK ==
  /\ aborted \in Causes \cup {None}
  /\ ledger \in [Items -> Row]
  /\ attached \subseteq Subscribers
  /\ DOMAIN inbox = Subscribers

(* Nothing is outstanding: every item has reached a state it will not leave. *)
Done == \A i \in Items : ledger[i].state \in Settled
=============================================================================
