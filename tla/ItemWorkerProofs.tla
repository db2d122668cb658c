--------------------------- MODULE ItemWorkerProofs ---------------------------
(***************************************************************************)
(* What holds of a job's stores for any number of items, workers, retries, *)
(* faults, crashes, expired deliveries and presses of the reset button.    *)
(*                                                                         *)
(* The argument about the stores has two halves.  StoreStep is what one    *)
(* call to a store may do; each kind of call is shown to be one.  Owed is  *)
(* what a worker must already have written by the time it stands at a      *)
(* step; Advance shows that a worker which pays what its next step owes,   *)
(* by a StoreStep, keeps the whole invariant.                              *)
(*                                                                         *)
(* Three counting arguments stand on it: events against verdicts           *)
(* (Covered), deliveries against the budgets and the losses (Supplied),    *)
(* and verdicts of one item against what may still happen to it (Once).    *)
(***************************************************************************)
EXTENDS ItemWorker, FiniteSetTheorems, TLAPS

Decided(i) == submission[i] # "QUEUED"

(* What the steps of a worker, and of the reset handler, presuppose of D1. *)
Owes(i, step) ==
  /\ step \in {"audit", "record", "auditFailed", "recordFailure", "recordMisconfigured"} => Decided(i)
  /\ step \in {"audit", "record"} => verdicts[i] > 0
  /\ step \in {"auditAbandoned", "abort"} => \A j \in Items : Decided(j)

Owed ==
  /\ \A w \in Workers : pc[w] # "idle" => item[w] \in Items /\ Owes(item[w], pc[w])
  /\ resetting = "abort" => \A j \in Items : Decided(j)

Stores == DurableBeforeLedger /\ CompletedIsBacked /\ AbortHasNoSurvivors

(* The inductive invariant. *)
IInv == TypeOK /\ Owed /\ Stores

(* What one step may do to the stores. *)
StoreStep ==
  /\ CoordTypeOK'
  /\ submission' \in [Items -> SubmissionStates]
  /\ verdicts' \in [Items -> Nat]
  /\ chained' \in [Items -> Nat]
  /\ \A i \in Items :
       /\ Decided(i) => Decided(i)'
       /\ verdicts'[i] >= verdicts[i]
       /\ submission'[i] = "COMPLETED" => submission[i] = "COMPLETED" \/ verdicts'[i] > 0
       /\ ledger'[i].state \in Settled => ledger[i].state \in Settled \/ Decided(i)'
       /\ ledger'[i].state = "COMPLETED" => ledger[i].state = "COMPLETED" \/ verdicts'[i] > 0
  /\ AbortHasNoSurvivors'

-----------------------------------------------------------------------------
(* The calls a step may make. *)

LEMMA Nothing ==
  ASSUME IInv, UNCHANGED <<coordVars, durable>>
  PROVE  StoreStep
  BY DEF IInv, TypeOK, Stores, AbortHasNoSurvivors, StoreStep, CoordTypeOK, Decided, coordVars, durable

(* A call on D1 leaves the ledger alone. *)
LEMMA DurableCall ==
  ASSUME IInv, UNCHANGED coordVars,
         submission' \in [Items -> SubmissionStates],
         verdicts' \in [Items -> Nat],
         chained' \in [Items -> Nat],
         \A i \in Items :
           /\ Decided(i) => Decided(i)'
           /\ verdicts'[i] >= verdicts[i]
           /\ submission'[i] = "COMPLETED" => submission[i] = "COMPLETED" \/ verdicts'[i] > 0
  PROVE  StoreStep
  BY DEF IInv, TypeOK, Stores, AbortHasNoSurvivors, StoreStep, CoordTypeOK, coordVars

LEMMA SetStateCall ==
  ASSUME IInv, UNCHANGED coordVars, NEW i \in Items,
         NEW s \in {"FAILED", "REJECTED"}, SetState(i, s)
  PROVE  StoreStep /\ Decided(i)'
<1>1. /\ submission' = [submission EXCEPT ![i] = s]
      /\ UNCHANGED <<verdicts, chained>>
  BY DEF SetState
<1>2. submission' \in [Items -> SubmissionStates] /\ Decided(i)'
  BY <1>1 DEF IInv, TypeOK, SubmissionStates, Decided
<1>3. \A j \in Items : Decided(j) => Decided(j)'
  BY <1>1 DEF IInv, TypeOK, Decided
<1>4. \A j \in Items : submission'[j] = "COMPLETED" => submission[j] = "COMPLETED"
  BY <1>1 DEF IInv, TypeOK
<1> QED BY <1>1, <1>2, <1>3, <1>4, DurableCall DEF IInv, TypeOK

LEMMA FailPendingCall ==
  ASSUME IInv, UNCHANGED coordVars, FailPending
  PROVE  StoreStep /\ \A i \in Items : Decided(i)'
<1>1. /\ submission' = [i \in Items |-> IF submission[i] = "QUEUED" THEN "FAILED" ELSE submission[i]]
      /\ UNCHANGED <<verdicts, chained>>
  BY DEF FailPending
<1>2. submission' \in [Items -> SubmissionStates] /\ \A i \in Items : Decided(i)'
  BY <1>1 DEF IInv, TypeOK, SubmissionStates, Decided
<1>3. \A i \in Items : submission'[i] = "COMPLETED" => submission[i] = "COMPLETED"
  BY <1>1
<1> QED BY <1>1, <1>2, <1>3, DurableCall DEF IInv, TypeOK

(* A call on the coordinator leaves D1 alone. *)
LEMMA CoordinatorCall ==
  ASSUME IInv, UNCHANGED durable,
         aborted' \in Causes \cup {None}, ledger' \in [Items -> Row],
         attached' = attached, DOMAIN inbox' = Subscribers,
         \A i \in Items :
           /\ ledger'[i].state \in Settled => ledger[i].state \in Settled \/ Decided(i)
           /\ ledger'[i].state = "COMPLETED" => ledger[i].state = "COMPLETED" \/ verdicts[i] > 0,
         AbortHasNoSurvivors'
  PROVE  StoreStep
  BY DEF IInv, TypeOK, CoordTypeOK, StoreStep, Decided, durable

LEMMA SameLedger ==
  ASSUME IInv, UNCHANGED durable, UNCHANGED <<aborted, ledger, attached>>, DOMAIN inbox' = Subscribers
  PROVE  StoreStep
  BY CoordinatorCall DEF IInv, TypeOK, CoordTypeOK, Stores, AbortHasNoSurvivors

(* A call that rewrites one row: it may settle the row only if D1 already has, and may not *)
(* make a settled row wait again.                                                          *)
LEMMA RowCall ==
  ASSUME IInv, UNCHANGED durable, NEW i \in Items, NEW r \in Row,
         aborted' = aborted, attached' = attached, DOMAIN inbox' = Subscribers,
         ledger' = [ledger EXCEPT ![i] = r],
         r.state \in Settled => Decided(i),
         r.state = "COMPLETED" => verdicts[i] > 0,
         r.state \in Pending => ledger[i].state \in Pending
  PROVE  StoreStep
<1>1. ledger' \in [Items -> Row] /\ \A j \in Items : ledger'[j] = IF j = i THEN r ELSE ledger[j]
  BY DEF IInv, TypeOK, CoordTypeOK
<1>2. AbortHasNoSurvivors'
  BY <1>1 DEF IInv, Stores, AbortHasNoSurvivors
<1> QED BY <1>1, <1>2, CoordinatorCall DEF IInv, TypeOK, CoordTypeOK

LEMMA StartCall ==
  ASSUME IInv, UNCHANGED durable, NEW i \in Items, StartItem(i)
  PROVE  StoreStep
<1> DEFINE r == [ledger[i] EXCEPT !.state = "RUNNING", !.attempts = ledger[i].attempts + 1]
<1>0. Running(i) = [ledger EXCEPT ![i] = r]
  BY DEF Running, IInv, TypeOK, CoordTypeOK, Row
<1>1. /\ aborted' = aborted
      /\ attached' = attached
      /\ DOMAIN inbox' = Subscribers
      /\ \/ ledger' = ledger
         \/ ledger[i].state = "QUEUED" /\ ledger' = [ledger EXCEPT ![i] = r]
  <2> HIDE DEF r
  <2> QED BY <1>0 DEF StartItem, Broadcast, IInv, TypeOK, CoordTypeOK
<1>2. ledger[i] \in Row
  BY DEF IInv, TypeOK, CoordTypeOK
<1>3. r \in Row /\ r.state = "RUNNING"
  <2>1. /\ ledger[i].attempts + 1 \in Nat
        /\ ledger[i].outcome \in Outcomes \cup {None}
        /\ ledger[i].cause \in Causes \cup {None}
    BY <1>2 DEF Row
  <2>2. [ledger[i] EXCEPT !.state = "RUNNING"] \in Row
    BY <1>2 DEF Row, RowStates
  <2> QED BY <2>1, <2>2 DEF Row
<1> HIDE DEF r
<1> QED BY <1>1, <1>3, RowCall, SameLedger DEF Settled, Pending

LEMMA DeferCall ==
  ASSUME IInv, UNCHANGED durable, NEW i \in Items, DeferItem(i)
  PROVE  StoreStep
<1> DEFINE r == [ledger[i] EXCEPT !.state = "QUEUED"]
<1>1. /\ aborted' = aborted
      /\ attached' = attached
      /\ DOMAIN inbox' = Subscribers
      /\ \/ ledger' = ledger
         \/ ledger[i].state = "RUNNING" /\ ledger' = [ledger EXCEPT ![i] = r]
  BY DEF DeferItem, Broadcast, IInv, TypeOK, CoordTypeOK
<1>2. ledger[i] \in Row
  BY DEF IInv, TypeOK, CoordTypeOK
<1>3. r \in Row /\ r.state = "QUEUED"
  BY <1>2 DEF Row, RowStates
<1> HIDE DEF r
<1> QED BY <1>1, <1>3, RowCall, SameLedger DEF Settled, Pending

LEMMA ResultCall ==
  ASSUME IInv, UNCHANGED durable, NEW i \in Items, NEW o \in Outcomes, RecordResult(i, o),
         Decided(i), verdicts[i] > 0
  PROVE  StoreStep
<1> DEFINE r == [ledger[i] EXCEPT !.state = "COMPLETED", !.outcome = o, !.cause = None]
<1>1. /\ aborted' = aborted
      /\ attached' = attached
      /\ DOMAIN inbox' = Subscribers
      /\ \/ ledger' = ledger
         \/ ledger[i].state \in Pending /\ ledger' = [ledger EXCEPT ![i] = r]
  BY DEF RecordResult, Settle, Broadcast, IInv, TypeOK, CoordTypeOK
<1>2. ledger[i] \in Row
  BY DEF IInv, TypeOK, CoordTypeOK
<1>3. r \in Row /\ r.state = "COMPLETED"
  BY <1>2 DEF Row, RowStates
<1> HIDE DEF r
<1> QED BY <1>1, <1>3, RowCall, SameLedger DEF Settled, Pending

LEMMA FailureCall ==
  ASSUME IInv, UNCHANGED durable, NEW i \in Items, NEW c \in Causes, RecordFailure(i, c),
         Decided(i)
  PROVE  StoreStep
<1> DEFINE r == [ledger[i] EXCEPT !.state = "FAILED", !.cause = c]
<1>1. /\ aborted' = aborted
      /\ attached' = attached
      /\ DOMAIN inbox' = Subscribers
      /\ \/ ledger' = ledger
         \/ ledger[i].state \in Pending /\ ledger' = [ledger EXCEPT ![i] = r]
  BY DEF RecordFailure, Settle, Broadcast, IInv, TypeOK, CoordTypeOK
<1>2. ledger[i] \in Row
  BY DEF IInv, TypeOK, CoordTypeOK
<1>3. r \in Row /\ r.state = "FAILED"
  BY <1>2 DEF Row, RowStates
<1> HIDE DEF r
<1> QED BY <1>1, <1>3, RowCall, SameLedger DEF Settled, Pending

LEMMA AbortCall ==
  ASSUME IInv, UNCHANGED durable, NEW c \in Causes, Abort(c), \A i \in Items : Decided(i)
  PROVE  StoreStep
<1>1. /\ aborted' = c
      /\ attached' = attached
      /\ DOMAIN inbox' = Subscribers
      /\ ledger' = [i \in Items |->
                      IF ledger[i].state \in Pending
                        THEN [ledger[i] EXCEPT !.state = "FAILED", !.cause = c] ELSE ledger[i]]
  BY DEF Abort, Broadcast
<1>2. ASSUME NEW i \in Items
      PROVE  /\ ledger'[i] \in Row
             /\ \/ ledger'[i].state = ledger[i].state /\ ledger[i].state \notin Pending
                \/ ledger'[i].state = "FAILED"
  <2>1. ledger[i] \in Row
    BY DEF IInv, TypeOK, CoordTypeOK
  <2>2. CASE ledger[i].state \in Pending
    <3>1. ledger'[i] = [ledger[i] EXCEPT !.state = "FAILED", !.cause = c]
      BY <1>1, <2>2
    <3> QED BY <2>1, <3>1 DEF Row, RowStates
  <2>3. CASE ledger[i].state \notin Pending
    BY <1>1, <2>1, <2>3
  <2> QED BY <2>2, <2>3
<1>3. ledger' \in [Items -> Row]
  BY <1>1, <1>2
<1>4. AbortHasNoSurvivors'
  BY <1>2 DEF AbortHasNoSurvivors, Pending
<1>5. \A i \in Items : ledger'[i].state = "COMPLETED" => ledger[i].state = "COMPLETED"
  BY <1>2
<1> QED BY <1>1, <1>3, <1>4, <1>5, CoordinatorCall

-----------------------------------------------------------------------------
(* Moving one worker. *)

(* The steps a fault can send a worker to: they presuppose nothing of D1. *)
Landing == {"failItem", "defer", "fail", "ack", "retry"}

(* Worker w goes to step; the queue, the reset handler and its message stay as they are. *)
Moved(w, step) ==
  /\ pc' = [pc EXCEPT ![w] = step]
  /\ item' = item /\ attempt' = attempt
  /\ fault' \in [Workers -> Faults \cup {None}]
  /\ launches' \in [Workers -> Nat]
  /\ message' = message
  /\ resetting' = resetting
  /\ spent' \in [faults : Nat, crashes : Nat, expiries : Nat, resets : Nat]

(* What the stores owe to those who have not moved, they still owe after the step. *)
LEMMA Others ==
  ASSUME IInv, StoreStep, NEW i \in Items, NEW step, Owes(i, step)
  PROVE  Owes(i, step)'
  BY DEF IInv, TypeOK, StoreStep, Owes

LEMMA KeepsStores ==
  ASSUME IInv, StoreStep
  PROVE  Stores'
<1>1. DurableBeforeLedger'
  BY DEF IInv, Stores, StoreStep, DurableBeforeLedger, Decided
<1>2. CompletedIsBacked'
  BY DEF IInv, TypeOK, Stores, StoreStep, CompletedIsBacked
<1> QED BY <1>1, <1>2 DEF Stores, StoreStep

(* A worker that pays what its next step owes keeps the invariant. *)
LEMMA Advance ==
  ASSUME IInv, StoreStep, NEW w \in Workers, pc[w] # "idle",
         NEW step \in Steps \ {"idle"}, Moved(w, step), Owes(item[w], step)'
  PROVE  IInv'
<1>1. TypeOK'
  BY DEF IInv, TypeOK, StoreStep, Moved
<1>2. Owed'
  <2>1. ASSUME NEW v \in Workers, pc'[v] # "idle"
        PROVE  item'[v] \in Items /\ Owes(item[v], pc[v])'
    <3>1. CASE v = w
      <4>1. pc'[v] = step /\ item'[v] = item[w]
        BY <3>1 DEF IInv, TypeOK, Moved
      <4> QED BY <3>1, <4>1 DEF IInv, Owed, Owes, Decided
    <3>2. CASE v # w
      <4>1. pc'[v] = pc[v] /\ item'[v] = item[v]
        BY <3>2 DEF IInv, TypeOK, Moved
      <4>2. PICK i \in Items, s \in Steps : item[v] = i /\ pc[v] = s /\ Owes(i, s)
        BY <2>1, <4>1 DEF IInv, TypeOK, Owed, Owes
      <4>3. Owes(i, s)'
        BY <4>2, Others
      <4> QED BY <4>1, <4>2, <4>3 DEF Owes, Decided
    <3> QED BY <3>1, <3>2
  <2>2. resetting' = "abort" => \A j \in Items : Decided(j)'
    BY DEF IInv, Owed, StoreStep, Moved
  <2> QED BY <2>1, <2>2 DEF Owed
<1> QED BY <1>1, <1>2, KeepsStores DEF IInv

(* A fault owes nothing where it lands. *)
LEMMA Lands ==
  ASSUME IInv, StoreStep, NEW w \in Workers, pc[w] # "idle",
         NEW step \in Landing, Moved(w, step)
  PROVE  IInv'
<1>1. step \in Steps \ {"idle"} /\ Owes(item[w], step)'
  BY DEF Landing, Steps, Owes
<1> QED BY <1>1, Advance

LEMMA CatchMoves ==
  ASSUME IInv, NEW w \in Workers, NEW f \in Faults, Catch(w, f),
         UNCHANGED <<message, resetting>>,
         spent' \in [faults : Nat, crashes : Nat, expiries : Nat, resets : Nat]
  PROVE  \E step \in Landing : Moved(w, step)
<1>1. CatchStep(w, f) \in Landing
  BY DEF CatchStep, Landing
<1>2. Moved(w, CatchStep(w, f))
  BY DEF Catch, Moved, IInv, TypeOK
<1> QED BY <1>1, <1>2

LEMMA ThrowMoves ==
  ASSUME IInv, NEW w \in Workers, Throw(w), UNCHANGED <<message, resetting>>,
         spent' \in [faults : Nat, crashes : Nat, expiries : Nat, resets : Nat]
  PROVE  \E step \in Landing : Moved(w, step)
<1>1. CASE pc[w] \in Guarded
  BY <1>1, CatchMoves DEF Throw, Faults
<1>2. CASE pc[w] \notin Guarded
  <2>1. PICK step \in {"ack", "retry"} : Go(w, step)
    BY <1>2 DEF Throw, Uncaught
  <2>2. Moved(w, step)
    BY <2>1 DEF Go, Moved, locals, IInv, TypeOK
  <2> QED BY <2>1, <2>2 DEF Landing
<1> QED BY <1>1, <1>2

LEMMA SpentMore ==
  ASSUME IInv, spent' = [spent EXCEPT !.faults = @ + 1]
  PROVE  spent' \in [faults : Nat, crashes : Nat, expiries : Nat, resets : Nat]
  BY DEF IInv, TypeOK

LEMMA GoMoves ==
  ASSUME IInv, NEW w \in Workers, NEW step \in Steps, Go(w, step),
         UNCHANGED <<message, resetting, spent>>
  PROVE  Moved(w, step)
  BY DEF Go, Moved, locals, IInv, TypeOK

(* A call that returned, and one that threw. *)
LEMMA Returns ==
  ASSUME IInv, StoreStep, NEW w \in Workers, pc[w] # "idle",
         NEW next \in Steps \ {"idle"}, Go(w, next), UNCHANGED <<message, resetting, spent>>,
         Owes(item[w], next)'
  PROVE  IInv'
  BY GoMoves, Advance

LEMMA Faulted ==
  ASSUME IInv, StoreStep, NEW w \in Workers, pc[w] # "idle", Throw(w),
         UNCHANGED <<message, resetting>>, spent' = [spent EXCEPT !.faults = @ + 1]
  PROVE  IInv'
<1>1. PICK step \in Landing : Moved(w, step)
  BY SpentMore, ThrowMoves
<1> QED BY <1>1, Lands

LEMMA Caught ==
  ASSUME IInv, NEW w \in Workers, pc[w] # "idle", NEW f \in Faults, Catch(w, f), Within
  PROVE  IInv'
<1>1. StoreStep /\ UNCHANGED <<message, resetting, spent>>
  BY Nothing DEF Within
<1>2. PICK step \in Landing : Moved(w, step)
  BY <1>1, CatchMoves DEF IInv, TypeOK
<1> QED BY <1>1, <1>2, Lands

LEMMA Goes ==
  ASSUME IInv, NEW w \in Workers, pc[w] # "idle", NEW next \in Steps \ {"idle"},
         Go(w, next), Within, Owes(item[w], next)
  PROVE  IInv'
<1>1. StoreStep /\ UNCHANGED <<message, resetting, spent, submission, verdicts>>
  BY Nothing DEF Within, durable
<1>2. Owes(item[w], next)'
  BY <1>1 DEF Owes, Decided, Go, locals
<1> QED BY <1>1, <1>2, Returns

LEMMA AsksKeeps ==
  ASSUME IInv, NEW w \in Workers, pc[w] # "idle", NEW next \in Steps \ {"idle"},
         Asks(w, next), Owes(item[w], next)
  PROVE  IInv'
<1>1. StoreStep /\ UNCHANGED <<message, resetting, submission, verdicts>>
  BY Nothing DEF Asks, Calls, durable
<1>2. CASE Go(w, next) /\ UNCHANGED spent
  <2>1. Owes(item[w], next)'
    BY <1>1, <1>2 DEF Owes, Decided, Go, locals
  <2> QED BY <1>1, <1>2, <2>1, Returns
<1>3. CASE Throw(w) /\ spent' = [spent EXCEPT !.faults = @ + 1]
  BY <1>1, <1>3, Faulted
<1> QED BY <1>2, <1>3 DEF Asks, Calls

-----------------------------------------------------------------------------
(* The queue. *)

MessageType == [status : {"ready", "held", "gone", "dead"}, attempts : Nat,
                holder : Workers \cup {None}]

LEMMA DeliverKeeps ==
  ASSUME IInv, NEW w \in Workers, NEW i \in Items, Deliver(w, i)
  PROVE  IInv'
<1>1. StoreStep /\ UNCHANGED <<coordVars, durable, fault, launches, resetting, spent>>
  BY Nothing DEF Deliver
<1>2. message[i] \in MessageType
  BY DEF IInv, TypeOK, MessageType
<1>3. /\ message' \in [Items -> MessageType]
      /\ message'[i].attempts \in Nat
  BY <1>2 DEF Deliver, IInv, TypeOK, MessageType
<1>4. TypeOK'
  BY <1>1, <1>3 DEF Deliver, IInv, TypeOK, StoreStep, MessageType, Steps
<1>5. Owed'
  <2>1. ASSUME NEW v \in Workers, pc'[v] # "idle"
        PROVE  item'[v] \in Items /\ Owes(item[v], pc[v])'
    <3>1. CASE v = w
      BY <3>1 DEF Deliver, IInv, TypeOK, Owes
    <3>2. CASE v # w
      BY <1>1, <2>1, <3>2 DEF Deliver, IInv, TypeOK, Owed, Owes, Decided, durable
    <3> QED BY <3>1, <3>2
  <2> QED BY <1>1, <2>1 DEF IInv, Owed, Decided, durable
<1> QED BY <1>1, <1>4, <1>5, KeepsStores DEF IInv

LEMMA ReleaseKeeps ==
  ASSUME IInv, NEW w \in Workers, NEW m \in MessageType, Release(w, m),
         spent' \in [faults : Nat, crashes : Nat, expiries : Nat, resets : Nat]
  PROVE  IInv'
<1>1. StoreStep /\ UNCHANGED <<coordVars, durable, resetting>>
  BY Nothing DEF Release
<1>2. TypeOK'
  BY <1>1 DEF Release, IInv, TypeOK, StoreStep, MessageType, Steps
<1>3. Owed'
  <2>1. ASSUME NEW v \in Workers, pc'[v] # "idle"
        PROVE  item'[v] \in Items /\ Owes(item[v], pc[v])'
    BY <1>1, <2>1 DEF Release, IInv, TypeOK, Owed, Owes, Decided, durable
  <2> QED BY <1>1, <2>1 DEF IInv, Owed, Decided, durable
<1> QED BY <1>1, <1>2, <1>3, KeepsStores DEF IInv

LEMMA ReturnedType ==
  ASSUME NEW m \in MessageType
  PROVE  Returned(m) \in MessageType
  BY DEF Returned, MessageType

LEMMA QueueKeeps ==
  ASSUME IInv, NEW w \in Workers, pc[w] # "idle", Ack(w) \/ Retry(w) \/ Crash(w) \/ Expire(w)
  PROVE  IInv'
<1>1. message[item[w]] \in MessageType
  BY DEF IInv, TypeOK, Owed, MessageType
<1>2. Returned(message[item[w]]) \in MessageType
  BY <1>1, ReturnedType
<1>3. CASE Ack(w)
  <2>1. [message[item[w]] EXCEPT !.status = "gone", !.holder = None] \in MessageType
    BY <1>1 DEF MessageType
  <2> QED BY <1>3, <2>1, ReleaseKeeps DEF Ack, IInv, TypeOK
<1>4. CASE Retry(w)
  BY <1>2, <1>4, ReleaseKeeps DEF Retry, IInv, TypeOK
<1>5. CASE Crash(w)
  <2>1. spent' \in [faults : Nat, crashes : Nat, expiries : Nat, resets : Nat]
    BY <1>5 DEF Crash, IInv, TypeOK
  <2> QED BY <1>2, <1>5, <2>1, ReleaseKeeps DEF Crash
<1>6. CASE Expire(w)
  <2>1. StoreStep /\ UNCHANGED <<coordVars, durable, workerVars, resetting>>
    BY <1>6, Nothing DEF Expire
  <2>2. /\ spent' \in [faults : Nat, crashes : Nat, expiries : Nat, resets : Nat]
        /\ message' \in [Items -> MessageType]
    <3>1. /\ message' = [message EXCEPT ![item[w]] = Returned(message[item[w]])]
          /\ spent' = [spent EXCEPT !.expiries = @ + 1]
      BY <1>6 DEF Expire
    <3>2. message \in [Items -> MessageType]
      BY DEF IInv, TypeOK, MessageType
    <3>3. message' \in [Items -> MessageType]
      BY <1>2, <3>1, <3>2
    <3> QED BY <3>1, <3>3 DEF IInv, TypeOK
  <2>3. TypeOK'
    BY <2>1, <2>2 DEF IInv, TypeOK, StoreStep, MessageType, workerVars, locals
  <2>4. UNCHANGED <<pc, item, submission, verdicts, resetting>>
    BY <2>1 DEF durable, workerVars, locals
  <2>5. Owed'
    BY <2>4 DEF IInv, Owed, Owes, Decided
  <2> QED BY <2>1, <2>3, <2>5, KeepsStores DEF IInv
<1> QED BY <1>3, <1>4, <1>5, <1>6

-----------------------------------------------------------------------------
(* The calls that write. *)

(* A call whose effect is a StoreStep, whether its reply came back or not. *)
LEMMA Either ==
  ASSUME IInv, StoreStep, NEW w \in Workers, pc[w] # "idle",
         NEW next \in Steps \ {"idle"}, UNCHANGED <<message, resetting>>,
         \/ Go(w, next) /\ UNCHANGED spent
         \/ Throw(w) /\ spent' = [spent EXCEPT !.faults = @ + 1],
         Go(w, next) => Owes(item[w], next)'
  PROVE  IInv'
  BY Returns, Faulted

LEMMA SetStateKeeps ==
  ASSUME IInv, NEW w \in Workers, pc[w] # "idle", NEW s \in {"FAILED", "REJECTED"},
         NEW next \in {"recordMisconfigured", "failJob", "auditFailed"},
         Writes(w, SetState(item[w], s), next)
  PROVE  IInv'
<1>1. /\ UNCHANGED <<message, resetting>> /\ UNCHANGED coordVars
      /\ next \in Steps \ {"idle"}
  BY DEF Writes, Calls, Steps
<1>2. PICK i \in Items : item[w] = i
  BY DEF IInv, Owed
<1>3. CASE SetState(i, s)
  <2>1. StoreStep /\ Decided(i)'
    BY <1>1, <1>3, SetStateCall
  <2>2. Go(w, next) => Owes(item[w], next)'
    BY <1>2, <2>1 DEF Owes, Decided, Go, locals
  <2> QED BY <1>1, <2>1, <2>2, Either DEF Writes, Calls
<1>4. CASE UNCHANGED durable /\ Throw(w) /\ spent' = [spent EXCEPT !.faults = @ + 1]
  BY <1>1, <1>4, Nothing, Faulted
<1> QED BY <1>2, <1>3, <1>4 DEF Writes, Calls

LEMMA FailJobKeeps ==
  ASSUME IInv, NEW w \in Workers, FailJob(w)
  PROVE  IInv'
<1>1. /\ pc[w] # "idle" /\ UNCHANGED <<message, resetting>> /\ UNCHANGED coordVars
      /\ "auditAbandoned" \in Steps \ {"idle"}
  BY DEF FailJob, Writes, Calls, Steps
<1>2. CASE FailPending
  <2>1. StoreStep /\ \A i \in Items : Decided(i)'
    BY <1>1, <1>2, FailPendingCall
  <2>2. Owes(item[w], "auditAbandoned")'
    BY <2>1 DEF Owes
  <2> QED BY <1>1, <2>1, <2>2, Either DEF FailJob, Writes, Calls
<1>3. CASE UNCHANGED durable /\ Throw(w) /\ spent' = [spent EXCEPT !.faults = @ + 1]
  BY <1>1, <1>3, Nothing, Faulted
<1> QED BY <1>2, <1>3 DEF FailJob, Writes, Calls

LEMMA PersistKeeps ==
  ASSUME IInv, NEW w \in Workers, Persist(w)
  PROVE  IInv'
<1> DEFINE Stored ==
      /\ verdicts' = [verdicts EXCEPT ![item[w]] = @ + 1]
      /\ submission' = [submission EXCEPT ![item[w]] = "COMPLETED"]
      /\ UNCHANGED chained
<1>1. /\ pc[w] # "idle" /\ UNCHANGED <<message, resetting>> /\ UNCHANGED coordVars
      /\ "audit" \in Steps \ {"idle"}
  BY DEF Persist, Writes, Calls, Steps
<1>2. item[w] \in Items
  BY <1>1 DEF IInv, Owed
<1>3. CASE Stored
  <2>1. /\ verdicts' \in [Items -> Nat]
        /\ submission' \in [Items -> SubmissionStates]
        /\ verdicts'[item[w]] > 0 /\ submission'[item[w]] = "COMPLETED"
    BY <1>2, <1>3 DEF IInv, TypeOK, SubmissionStates
  <2>2. \A i \in Items :
          /\ Decided(i) => Decided(i)'
          /\ verdicts'[i] >= verdicts[i]
          /\ submission'[i] = "COMPLETED" => submission[i] = "COMPLETED" \/ verdicts'[i] > 0
    BY <1>2, <1>3 DEF IInv, TypeOK, Decided
  <2>3. StoreStep
    BY <1>1, <1>3, <2>1, <2>2, DurableCall DEF IInv, TypeOK
  <2>4. Go(w, "audit") => Owes(item[w], "audit")'
    BY <2>1 DEF Owes, Decided, Go, locals
  <2> QED BY <1>1, <2>3, <2>4, Either DEF Persist, Writes, Calls
<1>4. CASE UNCHANGED durable /\ Throw(w) /\ spent' = [spent EXCEPT !.faults = @ + 1]
  BY <1>1, <1>4, Nothing, Faulted
<1> QED BY <1>3, <1>4 DEF Persist, Writes, Calls

LEMMA AuditKeeps ==
  ASSUME IInv, NEW w \in Workers, Audit(w)
  PROVE  IInv'
<1>1. /\ pc[w] = "audit" /\ UNCHANGED <<message, resetting>> /\ UNCHANGED coordVars
      /\ "record" \in Steps \ {"idle"}
      /\ UNCHANGED <<submission, verdicts>>
      /\ \/ chained' = [chained EXCEPT ![item[w]] = @ + 1]
         \/ UNCHANGED chained
  BY DEF Audit, Writes, Calls, Steps, durable
<1>2. chained' \in [Items -> Nat] /\ item[w] \in Items /\ Owes(item[w], "audit")
  BY <1>1 DEF IInv, TypeOK, Owed
<1>3. StoreStep
  BY <1>1, <1>2, DurableCall DEF IInv, TypeOK, Decided
<1>4. Go(w, "record") => Owes(item[w], "record")'
  BY <1>1, <1>2 DEF Owes, Decided, Go, locals
<1> QED BY <1>1, <1>3, <1>4, Either DEF Audit, Writes, Calls

(* The calls on the coordinator. *)
LEMMA TellsKeeps ==
  ASSUME IInv, NEW w \in Workers,
         Start(w) \/ Record(w) \/ Defer(w) \/ RecordFailed(w) \/ RecordMisconfigured(w) \/ AbandonJob(w)
  PROVE  IInv'
<1>1. /\ pc[w] # "idle" /\ UNCHANGED durable /\ UNCHANGED <<message, resetting>>
      /\ item[w] \in Items /\ Owes(item[w], pc[w])
  BY DEF Start, Record, Defer, RecordFailed, RecordMisconfigured, AbandonJob, Tells, Calls, IInv, Owed
<1>2. PICK i \in Items : item[w] = i
  BY <1>1
<1>3. PICK next \in {"stage", "ack", "retry"} :
        \/ Go(w, next) /\ UNCHANGED spent
        \/ Throw(w) /\ spent' = [spent EXCEPT !.faults = @ + 1]
  BY DEF Start, Record, Defer, RecordFailed, RecordMisconfigured, AbandonJob, Tells, Calls
<1>4. next \in Steps \ {"idle"} /\ Owes(item[w], next)'
  BY <1>3 DEF Steps, Owes
<1>5. StoreStep
  <2>1. CASE Start(w)
    BY <1>1, <1>2, <2>1, StartCall, Nothing DEF Start, Tells, Calls
  <2>2. CASE Record(w)
    BY <1>1, <1>2, <2>2, ResultCall, Nothing DEF Record, Tells, Calls, Owes
  <2>3. CASE Defer(w)
    BY <1>1, <1>2, <2>3, DeferCall, Nothing DEF Defer, Tells, Calls
  <2>4. CASE RecordFailed(w)
    BY <1>1, <1>2, <2>4, FailureCall, Nothing DEF RecordFailed, Tells, Calls, Owes
  <2>5. CASE RecordMisconfigured(w)
    BY <1>1, <1>2, <2>5, FailureCall, Nothing DEF RecordMisconfigured, Tells, Calls, Owes
  <2>6. CASE AbandonJob(w)
    BY <1>1, <2>6, AbortCall, Nothing DEF AbandonJob, Tells, Calls, Owes
  <2> QED BY <2>1, <2>2, <2>3, <2>4, <2>5, <2>6
<1> QED BY <1>1, <1>3, <1>4, <1>5, Either

-----------------------------------------------------------------------------
(* The steps that only read, or stay inside the worker. *)

LEMMA RasteriseKeeps ==
  ASSUME IInv, NEW w \in Workers, Rasterise(w)
  PROVE  IInv'
<1>1. pc[w] = "rasterise" /\ Within
  BY DEF Rasterise
<1>2. CASE Go(w, "extract")
  BY <1>1, <1>2, Goes DEF Steps, Owes
<1>3. CASE \E f \in Readings \cap {"refused", "transient"} : Catch(w, f)
  BY <1>1, <1>3, Caught DEF Faults
<1>4. CASE /\ launches' = [launches EXCEPT ![w] = @ + 1]
           /\ UNCHANGED <<pc, item, attempt, fault>>
  <2>1. StoreStep /\ UNCHANGED <<message, resetting, spent>>
    BY <1>1, Nothing DEF Within
  <2>2. Moved(w, "rasterise")
    BY <1>1, <1>4, <2>1 DEF Moved, IInv, TypeOK
  <2> QED BY <1>1, <2>1, <2>2, Advance DEF Steps, Owes
<1>5. CASE /\ launches' = [launches EXCEPT ![w] = @ + 1]
           /\ pc' = [pc EXCEPT ![w] = CatchStep(w, "rate-limited")]
           /\ fault' = [fault EXCEPT ![w] = "rate-limited"]
           /\ UNCHANGED <<item, attempt>>
  <2>1. StoreStep /\ UNCHANGED <<message, resetting, spent>>
    BY <1>1, Nothing DEF Within
  <2>2. CatchStep(w, "rate-limited") \in Landing
    BY DEF CatchStep, Landing
  <2>3. Moved(w, CatchStep(w, "rate-limited"))
    BY <1>5, <2>1 DEF Moved, IInv, TypeOK, Faults
  <2> QED BY <1>1, <2>1, <2>2, <2>3, Lands
<1> QED BY <1>2, <1>3, <1>4, <1>5 DEF Rasterise

LEMMA ReadsKeep ==
  ASSUME IInv, WorkerAssumption, NEW w \in Workers,
         BuildProvider(w) \/ CheckAbandoned(w) \/ CheckSettled(w) \/ ReadStaged(w)
           \/ Extract(w) \/ StoreCrop(w) \/ AuditAbandoned(w) \/ AuditFailed(w)
  PROVE  IInv'
<1>1. pc[w] # "idle"
  BY DEF BuildProvider, CheckAbandoned, CheckSettled, ReadStaged, Extract, StoreCrop,
         AuditAbandoned, AuditFailed
<1>2. Owes(item[w], pc[w])
  BY <1>1 DEF IInv, Owed
<1>3. CASE BuildProvider(w)
  <2>1. PICK next \in {"ack", "misconfigured", "abandoned"} : Go(w, next)
    BY <1>3 DEF BuildProvider
  <2> QED BY <1>1, <1>3, <2>1, Goes DEF BuildProvider, Steps, Owes
<1>4. CASE CheckAbandoned(w) \/ CheckSettled(w)
  <2>1. PICK next \in {"ack", "settled", "start"} : Asks(w, next)
    BY <1>4 DEF CheckAbandoned, CheckSettled
  <2> QED BY <1>1, <2>1, AsksKeeps DEF Steps, Owes
<1>5. CASE ReadStaged(w)
  <2>1. CASE Asks(w, "rasterise")
    BY <1>1, <2>1, AsksKeeps DEF Steps, Owes
  <2>2. CASE Catch(w, "refused") /\ Within
    BY <1>1, <2>2, Caught DEF Faults
  <2> QED BY <1>5, <2>1, <2>2 DEF ReadStaged
<1>6. CASE Extract(w)
  <2>1. CASE Asks(w, "crop")
    BY <1>1, <2>1, AsksKeeps DEF Steps, Owes
  <2>2. CASE \E f \in Readings \ {"read", "refused"} : Catch(w, f) /\ Within
    <3>1. PICK f \in Faults : Catch(w, f) /\ Within
      BY <2>2 DEF WorkerAssumption
    <3> QED BY <1>1, <3>1, Caught
  <2> QED BY <1>6, <2>1, <2>2 DEF Extract
<1>7. CASE StoreCrop(w)
  BY <1>1, <1>7, AsksKeeps DEF StoreCrop, Steps, Owes
<1>8. CASE AuditAbandoned(w)
  BY <1>1, <1>2, <1>8, AsksKeeps DEF AuditAbandoned, Steps, Owes
<1>9. CASE AuditFailed(w)
  BY <1>1, <1>2, <1>9, AsksKeeps DEF AuditFailed, Steps, Owes
<1> QED BY <1>3, <1>4, <1>5, <1>6, <1>7, <1>8, <1>9

LEMMA FailsKeep ==
  ASSUME IInv, NEW w \in Workers, FailMisconfigured(w) \/ FailItem(w) \/ Fail(w)
  PROVE  IInv'
<1>1. PICK s \in {"FAILED", "REJECTED"}, next \in {"recordMisconfigured", "failJob", "auditFailed"} :
        pc[w] # "idle" /\ Writes(w, SetState(item[w], s), next)
  <2>1. CASE FailMisconfigured(w)
    BY <2>1 DEF FailMisconfigured
  <2>2. CASE FailItem(w)
    BY <2>2 DEF FailItem
  <2>3. CASE Fail(w)
    BY <2>3 DEF Fail
  <2> QED BY <2>1, <2>2, <2>3
<1> QED BY <1>1, SetStateKeeps

-----------------------------------------------------------------------------
(* The reset handler, which holds no item and owes what resetting says. *)

LEMMA ResetKeeps ==
  ASSUME IInv, PressReset \/ ResetRecord \/ ResetLedger
  PROVE  IInv'
<1>1. /\ UNCHANGED <<message, workerVars>>
      /\ spent' \in [faults : Nat, crashes : Nat, expiries : Nat, resets : Nat]
      /\ resetting' \in {"idle", "record", "abort"}
  <2>1. CASE PressReset
    BY <2>1 DEF PressReset, IInv, TypeOK
  <2>2. CASE ResetRecord
    BY <2>2 DEF ResetRecord, Resets, IInv, TypeOK
  <2>3. CASE ResetLedger
    BY <2>3 DEF ResetLedger, Resets, IInv, TypeOK
  <2> QED BY <2>1, <2>2, <2>3
<1>2. StoreStep /\ (resetting' = "abort" => \A i \in Items : Decided(i)')
  <2>1. CASE PressReset
    BY <2>1, Nothing DEF PressReset
  <2>2. CASE ResetRecord
    <3>1. CASE FailPending /\ UNCHANGED coordVars
      BY <3>1, FailPendingCall
    <3>2. CASE UNCHANGED <<coordVars, durable>> /\ resetting' = "idle"
      BY <3>2, Nothing
    <3> QED BY <2>2, <3>1, <3>2 DEF ResetRecord, Resets
  <2>3. CASE ResetLedger
    <3>1. (\A i \in Items : Decided(i)) /\ resetting' = "idle"
      BY <2>3 DEF ResetLedger, Resets, IInv, Owed
    <3> QED BY <2>3, <3>1, AbortCall, Nothing DEF ResetLedger, Resets
  <2> QED BY <2>1, <2>2, <2>3
<1>3. TypeOK'
  BY <1>1, <1>2 DEF IInv, TypeOK, StoreStep, workerVars, locals
<1>4. Owed'
  <2>1. ASSUME NEW v \in Workers, pc'[v] # "idle"
        PROVE  item'[v] \in Items /\ Owes(item[v], pc[v])'
    <3>1. PICK i \in Items, s \in Steps : item[v] = i /\ pc[v] = s /\ Owes(i, s)
      BY <1>1, <2>1 DEF IInv, TypeOK, Owed, workerVars, locals
    <3>2. Owes(i, s)'
      BY <1>2, <3>1, Others
    <3> QED BY <1>1, <3>1, <3>2 DEF Owes, Decided, workerVars, locals
  <2> QED BY <1>2, <2>1 DEF Owed
<1> QED BY <1>2, <1>3, <1>4, KeepsStores DEF IInv

-----------------------------------------------------------------------------
LEMMA InitInv == ASSUME WorkerAssumption PROVE Init => IInv
<1> SUFFICES ASSUME Init PROVE IInv
  OBVIOUS
<1>1. CoordTypeOK
  BY DEF Init, CoordTypeOK, Row, RowStates, NewRow, NoRow
<1>2. TypeOK
  BY <1>1 DEF Init, TypeOK, SubmissionStates, Steps
<1>3. Owed
  BY DEF Init, Owed
<1>4. Stores
  BY DEF Init, Stores, DurableBeforeLedger, CompletedIsBacked, AbortHasNoSurvivors,
         NewRow, NoRow, Settled
<1> QED BY <1>2, <1>3, <1>4 DEF IInv

LEMMA StepInv ==
  ASSUME WorkerAssumption, IInv, [Next]_vars
  PROVE  IInv'
<1>1. CASE UNCHANGED vars
  <2>1. StoreStep /\ UNCHANGED <<pc, item, submission, verdicts, resetting>>
    BY <1>1, Nothing DEF vars, durable, workerVars, locals
  <2>2. TypeOK'
    BY <1>1, <2>1 DEF IInv, TypeOK, StoreStep, vars, durable, workerVars, locals
  <2>3. Owed'
    BY <2>1 DEF IInv, Owed, Owes, Decided
  <2> QED BY <2>1, <2>2, <2>3, KeepsStores DEF IInv
<1>2. ASSUME NEW w \in Workers, NEW i \in Items, Deliver(w, i)
      PROVE  IInv'
  BY <1>2, DeliverKeeps
<1>3. ASSUME NEW w \in Workers, Invocation(w)
      PROVE  IInv'
  <2>1. CASE Ack(w) \/ Retry(w)
    BY <2>1, QueueKeeps DEF Ack, Retry
  <2>2. CASE Start(w) \/ Record(w) \/ Defer(w) \/ RecordFailed(w) \/ RecordMisconfigured(w)
               \/ AbandonJob(w)
    BY <2>2, TellsKeeps
  <2>3. CASE BuildProvider(w) \/ CheckAbandoned(w) \/ CheckSettled(w) \/ ReadStaged(w)
               \/ Extract(w) \/ StoreCrop(w) \/ AuditAbandoned(w) \/ AuditFailed(w)
    BY <2>3, ReadsKeep
  <2>4. CASE FailMisconfigured(w) \/ FailItem(w) \/ Fail(w)
    BY <2>4, FailsKeep
  <2>5. CASE Rasterise(w) \/ Persist(w) \/ Audit(w) \/ FailJob(w)
    BY <2>5, RasteriseKeeps, PersistKeeps, AuditKeeps, FailJobKeeps
  <2> QED BY <1>3, <2>1, <2>2, <2>3, <2>4, <2>5 DEF Invocation
<1>4. CASE Environment
  <2>1. ASSUME NEW w \in Workers, Crash(w) \/ Expire(w)
        PROVE  IInv'
    BY <2>1, QueueKeeps DEF Crash, Expire
  <2> QED BY <1>4, <2>1, ResetKeeps DEF Environment
<1> QED BY <1>1, <1>2, <1>3, <1>4 DEF Next

(* IInv holds of every state. *)
LEMMA Invariance == Spec => []IInv
<1>1. Init => IInv
  BY InitInv, WorkerAssumption
<1>2. IInv /\ [Next]_vars => IInv'
  BY StepInv, WorkerAssumption
<1> QED BY <1>1, <1>2, PTL DEF Spec

(* Every variable keeps to its kind, for any number of items and workers. *)
THEOREM TypeCorrect == Spec => []TypeOK
<1>1. IInv => TypeOK
  BY DEF IInv
<1> QED BY <1>1, Invariance, PTL

(* D1 settles before the ledger does: whatever is redelivered, lost, aborted or reset, no  *)
(* row of the ledger is finished while its submission still counts as running.             *)
THEOREM DurableFirst == Spec => []DurableBeforeLedger
<1>1. IInv => DurableBeforeLedger
  BY DEF IInv, Stores
<1> QED BY <1>1, Invariance, PTL

(* What either store calls COMPLETED has a verdict in D1 to show for it.                   *)
THEOREM Backed == Spec => []CompletedIsBacked
<1>1. IInv => CompletedIsBacked
  BY DEF IInv, Stores
<1> QED BY <1>1, Invariance, PTL

(* An abandoned job has no row left waiting, and no late worker brings one back.           *)
THEOREM NoSurvivors == Spec => []AbortHasNoSurvivors
<1>1. IInv => AbortHasNoSurvivors
  BY DEF IInv, Stores
<1> QED BY <1>1, Invariance, PTL

-----------------------------------------------------------------------------
(* Where each step of an invocation leads, and what it leaves alone: what the counting      *)
(* arguments below need to know of the code.                                                *)

Onward(w, step) ==
  /\ pc' = [pc EXCEPT ![w] = step]
  /\ item' = item /\ attempt' = attempt /\ message' = message

(* Where a call that throws may send its worker. *)
Falls(w) ==
  IF pc[w] \in Guarded THEN {CatchStep(w, f) : f \in Faults \ {"refused"}}
  ELSE {IF attempt[w] >= MAX_ATTEMPTS THEN "ack" ELSE "retry"}

Thrown(w) == \E step \in Falls(w) : Onward(w, step)

(* A call that returns, or throws. *)
Called(w, next) ==
  \/ Onward(w, next) /\ spent' = spent
  \/ Thrown(w) /\ spent' = [spent EXCEPT !.faults = @ + 1]

(* A reading that failed. *)
Stumbled(w) ==
  \E f \in Faults : Onward(w, CatchStep(w, f)) /\ spent' = spent /\ aborted' = aborted

LEMMA CallMoves ==
  ASSUME NEW w \in Workers, NEW effect, NEW nothing, NEW next, Calls(w, effect, nothing, next)
  PROVE  Called(w, next)
<1>1. Go(w, next) /\ UNCHANGED spent /\ UNCHANGED message => Onward(w, next) /\ spent' = spent
  BY DEF Go, Onward, locals
<1>2. Throw(w) /\ UNCHANGED message => Thrown(w)
  BY DEF Throw, Catch, Uncaught, Go, Onward, Falls, Thrown, locals
<1> QED BY <1>1, <1>2 DEF Calls, Called

LEMMA CatchStumbles ==
  ASSUME NEW w \in Workers, NEW f \in Faults, Catch(w, f), Within
  PROVE  Stumbled(w)
BY DEF Catch, Within, Stumbled, Onward, coordVars

(* The steps before the verdict, which leave D1 alone. *)
LEMMA Before ==
  ASSUME WorkerAssumption, TypeOK, NEW w \in Workers
  PROVE  /\ BuildProvider(w) =>
              /\ pc[w] = "provider" /\ UNCHANGED durable /\ spent' = spent /\ aborted' = aborted
              /\ \/ Onward(w, "ack") /\ "unbound" \in Deployments
                 \/ Onward(w, "misconfigured") /\ "misconfigured" \in Deployments
                 \/ Onward(w, "abandoned")
         /\ CheckAbandoned(w) =>
              /\ pc[w] = "abandoned" /\ UNCHANGED durable /\ aborted' = aborted
              /\ Called(w, IF aborted # None THEN "ack" ELSE "settled")
         /\ CheckSettled(w) =>
              /\ pc[w] = "settled" /\ UNCHANGED durable /\ aborted' = aborted
              /\ Called(w, IF isAlreadySettled(submission[item[w]]) THEN "ack" ELSE "start")
         /\ Start(w) =>
              pc[w] = "start" /\ UNCHANGED durable /\ aborted' = aborted /\ Called(w, "stage")
         /\ ReadStaged(w) =>
              /\ pc[w] = "stage" /\ UNCHANGED durable /\ aborted' = aborted
              /\ Called(w, "rasterise") \/ Stumbled(w)
         /\ Rasterise(w) =>
              /\ pc[w] = "rasterise" /\ UNCHANGED durable /\ spent' = spent /\ aborted' = aborted
              /\ Onward(w, "extract") \/ Onward(w, "rasterise") \/ Stumbled(w)
         /\ Extract(w) =>
              /\ pc[w] = "extract" /\ UNCHANGED durable /\ aborted' = aborted
              /\ Called(w, "crop") \/ Stumbled(w)
         /\ StoreCrop(w) =>
              pc[w] = "crop" /\ UNCHANGED durable /\ aborted' = aborted /\ Called(w, "persist")
<1>1. BuildProvider(w) =>
        /\ pc[w] = "provider" /\ UNCHANGED durable /\ spent' = spent /\ aborted' = aborted
        /\ \/ Onward(w, "ack") /\ "unbound" \in Deployments
           \/ Onward(w, "misconfigured") /\ "misconfigured" \in Deployments
           \/ Onward(w, "abandoned")
  BY DEF BuildProvider, Go, Within, Onward, locals, coordVars
<1>2. ASSUME NEW next, Asks(w, next)
      PROVE  UNCHANGED durable /\ aborted' = aborted /\ Called(w, next)
  BY <1>2, CallMoves DEF Asks, Calls, coordVars
<1>3. CheckAbandoned(w) =>
        /\ pc[w] = "abandoned" /\ UNCHANGED durable /\ aborted' = aborted
        /\ Called(w, IF aborted # None THEN "ack" ELSE "settled")
  BY <1>2 DEF CheckAbandoned
<1>4. CheckSettled(w) =>
        /\ pc[w] = "settled" /\ UNCHANGED durable /\ aborted' = aborted
        /\ Called(w, IF isAlreadySettled(submission[item[w]]) THEN "ack" ELSE "start")
  BY <1>2 DEF CheckSettled
<1>5. Start(w) => pc[w] = "start" /\ UNCHANGED durable /\ aborted' = aborted /\ Called(w, "stage")
  BY CallMoves DEF Start, Tells, Calls, StartItem, coordVars
<1>6. ReadStaged(w) =>
        /\ pc[w] = "stage" /\ UNCHANGED durable /\ aborted' = aborted
        /\ Called(w, "rasterise") \/ Stumbled(w)
  BY <1>2, CatchStumbles DEF ReadStaged, Faults, Within, coordVars
<1>7. Rasterise(w) =>
        /\ pc[w] = "rasterise" /\ UNCHANGED durable /\ spent' = spent /\ aborted' = aborted
        /\ Onward(w, "extract") \/ Onward(w, "rasterise") \/ Stumbled(w)
  <2> SUFFICES ASSUME Rasterise(w)
               PROVE  /\ pc[w] = "rasterise" /\ UNCHANGED durable /\ spent' = spent
                      /\ aborted' = aborted
                      /\ Onward(w, "extract") \/ Onward(w, "rasterise") \/ Stumbled(w)
    OBVIOUS
  <2>1. /\ pc[w] = "rasterise" /\ Within
        /\ UNCHANGED durable /\ spent' = spent /\ aborted' = aborted /\ message' = message
    BY DEF Rasterise, Within, coordVars
  <2>2. CASE Go(w, "extract")
    BY <2>1, <2>2 DEF Go, Onward, locals
  <2>3. CASE \E f \in Readings \cap {"refused", "transient"} : Catch(w, f)
    BY <2>1, <2>3, CatchStumbles DEF Faults
  <2>4. CASE UNCHANGED <<pc, item, attempt, fault>>
    <3>1. pc' = [pc EXCEPT ![w] = "rasterise"]
      BY <2>1, <2>4 DEF TypeOK
    <3> QED BY <2>1, <2>4, <3>1 DEF Onward
  <2>5. CASE /\ pc' = [pc EXCEPT ![w] = CatchStep(w, "rate-limited")]
             /\ UNCHANGED <<item, attempt>>
    BY <2>1, <2>5 DEF Stumbled, Onward, Faults
  <2> QED BY <2>1, <2>2, <2>3, <2>4, <2>5 DEF Rasterise
<1>8. Extract(w) =>
        /\ pc[w] = "extract" /\ UNCHANGED durable /\ aborted' = aborted
        /\ Called(w, "crop") \/ Stumbled(w)
  <2>1. Readings \ {"read", "refused"} \subseteq Faults
    BY DEF WorkerAssumption
  <2> QED BY <1>2, <2>1, CatchStumbles DEF Extract, Within, coordVars
<1>9. StoreCrop(w) => pc[w] = "crop" /\ UNCHANGED durable /\ aborted' = aborted /\ Called(w, "persist")
  BY <1>2 DEF StoreCrop
<1> QED BY <1>1, <1>3, <1>4, <1>5, <1>6, <1>7, <1>8, <1>9

(* The steps that tell the coordinator, or only ask, after the readings. *)
LEMMA Reports ==
  ASSUME NEW w \in Workers
  PROVE  /\ RecordMisconfigured(w) =>
              /\ pc[w] = "recordMisconfigured" /\ UNCHANGED durable /\ aborted' = aborted
              /\ Called(w, "ack")
         /\ Record(w) =>
              pc[w] = "record" /\ UNCHANGED durable /\ aborted' = aborted /\ Called(w, "ack")
         /\ AuditAbandoned(w) =>
              /\ pc[w] = "auditAbandoned" /\ UNCHANGED durable /\ aborted' = aborted
              /\ Called(w, "abort")
         /\ AbandonJob(w) => pc[w] = "abort" /\ UNCHANGED durable /\ Called(w, "ack")
         /\ Defer(w) =>
              pc[w] = "defer" /\ UNCHANGED durable /\ aborted' = aborted /\ Called(w, "retry")
         /\ AuditFailed(w) =>
              /\ pc[w] = "auditFailed" /\ UNCHANGED durable /\ aborted' = aborted
              /\ Called(w, "recordFailure")
         /\ RecordFailed(w) =>
              pc[w] = "recordFailure" /\ UNCHANGED durable /\ aborted' = aborted /\ Called(w, "ack")
<1>1. ASSUME NEW effect, NEW next, Tells(w, effect, next), effect => aborted' = aborted
      PROVE  UNCHANGED durable /\ aborted' = aborted /\ Called(w, next)
  BY <1>1, CallMoves DEF Tells, Calls, coordVars
<1>2. ASSUME NEW next, Asks(w, next)
      PROVE  UNCHANGED durable /\ aborted' = aborted /\ Called(w, next)
  BY <1>2, CallMoves DEF Asks, Calls, coordVars
<1>3. RecordMisconfigured(w) =>
        /\ pc[w] = "recordMisconfigured" /\ UNCHANGED durable /\ aborted' = aborted
        /\ Called(w, "ack")
  BY <1>1 DEF RecordMisconfigured, RecordFailure
<1>4. Record(w) => pc[w] = "record" /\ UNCHANGED durable /\ aborted' = aborted /\ Called(w, "ack")
  BY <1>1 DEF Record, RecordResult
<1>5. AuditAbandoned(w) =>
        /\ pc[w] = "auditAbandoned" /\ UNCHANGED durable /\ aborted' = aborted
        /\ Called(w, "abort")
  BY <1>2 DEF AuditAbandoned
<1>6. AbandonJob(w) => pc[w] = "abort" /\ UNCHANGED durable /\ Called(w, "ack")
  BY CallMoves DEF AbandonJob, Tells
<1>7. Defer(w) => pc[w] = "defer" /\ UNCHANGED durable /\ aborted' = aborted /\ Called(w, "retry")
  BY <1>1 DEF Defer, DeferItem
<1>8. AuditFailed(w) =>
        /\ pc[w] = "auditFailed" /\ UNCHANGED durable /\ aborted' = aborted
        /\ Called(w, "recordFailure")
  BY <1>2 DEF AuditFailed
<1>9. RecordFailed(w) =>
        pc[w] = "recordFailure" /\ UNCHANGED durable /\ aborted' = aborted /\ Called(w, "ack")
  BY <1>1 DEF RecordFailed, RecordFailure
<1> QED BY <1>3, <1>4, <1>5, <1>6, <1>7, <1>8, <1>9

(* The steps that write D1. *)
LEMMA WritesD1 ==
  ASSUME NEW w \in Workers
  PROVE  /\ FailMisconfigured(w) =>
              /\ pc[w] = "misconfigured" /\ UNCHANGED <<verdicts, chained>> /\ aborted' = aborted
              /\ submission' = submission \/ submission' = [submission EXCEPT ![item[w]] = "FAILED"]
              /\ Called(w, "recordMisconfigured")
         /\ FailItem(w) =>
              /\ pc[w] = "failItem" /\ UNCHANGED <<verdicts, chained>> /\ aborted' = aborted
              /\ submission' = submission \/ submission' = [submission EXCEPT ![item[w]] = "FAILED"]
              /\ Called(w, "failJob")
         /\ FailJob(w) =>
              /\ pc[w] = "failJob" /\ UNCHANGED <<verdicts, chained>> /\ aborted' = aborted
              /\ submission' = submission \/ FailPending
              /\ Called(w, "auditAbandoned")
         /\ Fail(w) =>
              /\ pc[w] = "fail" /\ UNCHANGED <<verdicts, chained>> /\ aborted' = aborted
              /\ \/ submission' = submission
                 \/ \E s \in {"FAILED", "REJECTED"} : submission' = [submission EXCEPT ![item[w]] = s]
              /\ Called(w, "auditFailed")
         /\ Persist(w) =>
              /\ pc[w] = "persist" /\ chained' = chained /\ aborted' = aborted
              /\ \/ /\ verdicts' = [verdicts EXCEPT ![item[w]] = @ + 1]
                    /\ submission' = [submission EXCEPT ![item[w]] = "COMPLETED"]
                    /\ Called(w, "audit")
                 \/ UNCHANGED <<verdicts, submission>> /\ Thrown(w)
                      /\ spent' = [spent EXCEPT !.faults = @ + 1]
         /\ Audit(w) =>
              /\ pc[w] = "audit" /\ UNCHANGED <<submission, verdicts>> /\ aborted' = aborted
              /\ chained' = chained \/ chained' = [chained EXCEPT ![item[w]] = @ + 1]
              /\ Called(w, "record")
<1>1. ASSUME NEW i, NEW s, NEW next, Writes(w, SetState(i, s), next)
      PROVE  /\ UNCHANGED <<verdicts, chained>> /\ aborted' = aborted
             /\ submission' = submission \/ submission' = [submission EXCEPT ![i] = s]
             /\ Called(w, next)
  BY <1>1, CallMoves DEF Writes, Calls, SetState, durable, coordVars
<1>2. FailMisconfigured(w) =>
        /\ pc[w] = "misconfigured" /\ UNCHANGED <<verdicts, chained>> /\ aborted' = aborted
        /\ submission' = submission \/ submission' = [submission EXCEPT ![item[w]] = "FAILED"]
        /\ Called(w, "recordMisconfigured")
  BY <1>1 DEF FailMisconfigured
<1>3. FailItem(w) =>
        /\ pc[w] = "failItem" /\ UNCHANGED <<verdicts, chained>> /\ aborted' = aborted
        /\ submission' = submission \/ submission' = [submission EXCEPT ![item[w]] = "FAILED"]
        /\ Called(w, "failJob")
  BY <1>1 DEF FailItem
<1>4. FailJob(w) =>
        /\ pc[w] = "failJob" /\ UNCHANGED <<verdicts, chained>> /\ aborted' = aborted
        /\ submission' = submission \/ FailPending
        /\ Called(w, "auditAbandoned")
  BY CallMoves DEF FailJob, Writes, Calls, FailPending, durable, coordVars
<1>5. Fail(w) =>
        /\ pc[w] = "fail" /\ UNCHANGED <<verdicts, chained>> /\ aborted' = aborted
        /\ \/ submission' = submission
           \/ \E s \in {"FAILED", "REJECTED"} : submission' = [submission EXCEPT ![item[w]] = s]
        /\ Called(w, "auditFailed")
  BY <1>1 DEF Fail
<1>6. Persist(w) =>
        /\ pc[w] = "persist" /\ chained' = chained /\ aborted' = aborted
        /\ \/ /\ verdicts' = [verdicts EXCEPT ![item[w]] = @ + 1]
              /\ submission' = [submission EXCEPT ![item[w]] = "COMPLETED"]
              /\ Called(w, "audit")
           \/ UNCHANGED <<verdicts, submission>> /\ Thrown(w)
                /\ spent' = [spent EXCEPT !.faults = @ + 1]
  <2> DEFINE effect == /\ verdicts' = [verdicts EXCEPT ![item[w]] = @ + 1]
                       /\ submission' = [submission EXCEPT ![item[w]] = "COMPLETED"]
                       /\ UNCHANGED chained
  <2> SUFFICES ASSUME Persist(w)
               PROVE  /\ pc[w] = "persist" /\ chained' = chained /\ aborted' = aborted
                      /\ \/ effect /\ Called(w, "audit")
                         \/ /\ UNCHANGED <<verdicts, submission>> /\ Thrown(w)
                            /\ spent' = [spent EXCEPT !.faults = @ + 1]
    OBVIOUS
  <2>1. pc[w] = "persist" /\ aborted' = aborted /\ Calls(w, effect, UNCHANGED durable, "audit")
    BY DEF Persist, Writes, coordVars
  <2>2. Called(w, "audit")
    BY <2>1, CallMoves
  <2>3. effect \/ (UNCHANGED durable /\ Throw(w) /\ spent' = [spent EXCEPT !.faults = @ + 1])
    BY <2>1 DEF Calls
  <2>4. Throw(w) => Thrown(w)
    BY <2>1 DEF Calls, Throw, Catch, Uncaught, Go, Onward, Falls, Thrown, locals
  <2> QED BY <2>1, <2>2, <2>3, <2>4 DEF durable
<1>7. Audit(w) =>
        /\ pc[w] = "audit" /\ UNCHANGED <<submission, verdicts>> /\ aborted' = aborted
        /\ chained' = chained \/ chained' = [chained EXCEPT ![item[w]] = @ + 1]
        /\ Called(w, "record")
  BY CallMoves DEF Audit, Writes, Calls, durable, coordVars
<1> QED BY <1>2, <1>3, <1>4, <1>5, <1>6, <1>7

-----------------------------------------------------------------------------
(* The history and the verdicts.  A verdict is stored before it is chained, so every event  *)
(* and every worker about to chain one has a verdict of its own.                            *)

Chaining(i) == {w \in Workers : pc[w] = "audit" /\ item[w] = i}

Covered == \A i \in Items :
  IsFiniteSet(Chaining(i)) /\ chained[i] + Cardinality(Chaining(i)) <= verdicts[i]

(* Nobody new is about to chain. *)
LEMMA FewerChain ==
  ASSUME TypeOK, TypeOK', Covered, verdicts' = verdicts, chained' = chained,
         \A i \in Items : Chaining(i)' \subseteq Chaining(i)
  PROVE  Covered'
<1> SUFFICES ASSUME NEW i \in Items
             PROVE  IsFiniteSet(Chaining(i)') /\ chained'[i] + Cardinality(Chaining(i)') <= verdicts'[i]
  BY DEF Covered
<1>1. PICK A, B : A = Chaining(i) /\ B = Chaining(i)' /\ B \in SUBSET A
  OBVIOUS
<1>2. IsFiniteSet(A) /\ chained[i] + Cardinality(A) <= verdicts[i]
  BY <1>1 DEF Covered
<1>3. IsFiniteSet(B) /\ Cardinality(B) <= Cardinality(A)
  BY <1>1, <1>2, FS_Subset
<1>4. Cardinality(A) \in Nat /\ Cardinality(B) \in Nat
  BY <1>2, <1>3, FS_CardinalityType
<1>5. chained[i] \in Nat /\ verdicts[i] \in Nat
  BY DEF TypeOK
<1> QED BY <1>1, <1>2, <1>3, <1>4, <1>5

(* Where a fault sends a worker, it does not chain. *)
LEMMA FallsElsewhere ==
  ASSUME NEW w \in Workers
  PROVE  "audit" \notin Falls(w) /\ \A f \in Faults : CatchStep(w, f) # "audit"
BY DEF Falls, CatchStep

LEMMA ElsewhereChains ==
  ASSUME TypeOK, NEW w \in Workers, NEW step, step # "audit", Onward(w, step)
  PROVE  \A i \in Items : Chaining(i)' \subseteq Chaining(i) \ {w}
BY DEF Onward, Chaining, TypeOK

LEMMA CalledElsewhere ==
  ASSUME TypeOK, NEW w \in Workers, NEW next, next # "audit", Called(w, next) \/ Stumbled(w)
  PROVE  \A i \in Items : Chaining(i)' \subseteq Chaining(i) \ {w}
<1>1. PICK step : step # "audit" /\ Onward(w, step)
  BY FallsElsewhere DEF Called, Thrown, Stumbled
<1> QED BY <1>1, ElsewhereChains

LEMMA PersistCovers ==
  ASSUME IInv, TypeOK', Covered, NEW w \in Workers, Persist(w)
  PROVE  Covered'
<1>0. TypeOK
  BY DEF IInv
<1>1. pc[w] = "persist" /\ chained' = chained /\ item[w] \in Items
  BY WritesD1 DEF IInv, Owed
<1>2. CASE UNCHANGED <<verdicts, submission>> /\ Thrown(w)
  <2>1. PICK step : step # "audit" /\ Onward(w, step)
    BY <1>2, FallsElsewhere DEF Thrown
  <2> QED BY <1>0, <1>1, <1>2, <2>1, ElsewhereChains, FewerChain
<1>3. CASE /\ verdicts' = [verdicts EXCEPT ![item[w]] = @ + 1]
           /\ Called(w, "audit")
  <2> SUFFICES ASSUME NEW i \in Items
               PROVE  /\ IsFiniteSet(Chaining(i)')
                      /\ chained'[i] + Cardinality(Chaining(i)') <= verdicts'[i]
    BY DEF Covered
  <2>1. PICK A, B : A = Chaining(i) /\ B = Chaining(i)'
    OBVIOUS
  <2>2. IsFiniteSet(A) /\ Cardinality(A) \in Nat /\ chained[i] + Cardinality(A) <= verdicts[i]
    BY <2>1, FS_CardinalityType DEF Covered
  <2>3. chained[i] \in Nat /\ verdicts[i] \in Nat /\ verdicts'[i] \in Nat /\ chained'[i] = chained[i]
    BY <1>0, <1>1 DEF TypeOK
  <2>4. \A v \in Workers : item'[v] = item[v] /\ (v # w => pc'[v] = pc[v])
    BY <1>0, <1>3 DEF Called, Thrown, Onward, TypeOK
  <2>5. CASE i = item[w]
    <3>1. B \in SUBSET (A \cup {w})
      BY <2>1, <2>4 DEF Chaining
    <3>2. IsFiniteSet(A \cup {w}) /\ Cardinality(A \cup {w}) <= Cardinality(A) + 1
      <4>1. /\ IsFiniteSet(A \cup {w})
            /\ Cardinality(A \cup {w}) = IF w \in A THEN Cardinality(A) ELSE Cardinality(A) + 1
        BY <2>2, FS_AddElement
      <4> QED BY <2>2, <4>1
    <3>3. IsFiniteSet(B) /\ Cardinality(B) <= Cardinality(A \cup {w})
      BY <3>1, <3>2, FS_Subset
    <3>4. Cardinality(B) \in Nat /\ Cardinality(A \cup {w}) \in Nat
      BY <3>2, <3>3, FS_CardinalityType
    <3>5. verdicts'[i] = verdicts[i] + 1
      BY <1>0, <1>1, <1>3, <2>5 DEF TypeOK
    <3> QED BY <2>1, <2>2, <2>3, <3>2, <3>3, <3>4, <3>5
  <2>6. CASE i # item[w]
    <3>1. B \in SUBSET A
      BY <2>1, <2>4, <2>6 DEF Chaining
    <3>2. IsFiniteSet(B) /\ Cardinality(B) <= Cardinality(A)
      BY <2>2, <3>1, FS_Subset
    <3>3. Cardinality(B) \in Nat
      BY <3>2, FS_CardinalityType
    <3>4. verdicts'[i] = verdicts[i]
      BY <1>0, <1>1, <1>3, <2>6 DEF TypeOK
    <3> QED BY <2>1, <2>2, <2>3, <3>2, <3>3, <3>4
  <2> QED BY <2>5, <2>6
<1> QED BY <1>2, <1>3, WritesD1

LEMMA AuditCovers ==
  ASSUME IInv, TypeOK', Covered, NEW w \in Workers, Audit(w)
  PROVE  Covered'
<1>0. TypeOK
  BY DEF IInv
<1>1. /\ pc[w] = "audit" /\ verdicts' = verdicts /\ item[w] \in Items
      /\ chained' = chained \/ chained' = [chained EXCEPT ![item[w]] = @ + 1]
      /\ Called(w, "record")
  BY WritesD1 DEF IInv, Owed
<1> SUFFICES ASSUME NEW i \in Items
             PROVE  /\ IsFiniteSet(Chaining(i)')
                    /\ chained'[i] + Cardinality(Chaining(i)') <= verdicts'[i]
  BY DEF Covered
<1>2. PICK A, B : A = Chaining(i) /\ B = Chaining(i)' /\ B \in SUBSET (A \ {w})
  BY <1>0, <1>1, CalledElsewhere
<1>3. IsFiniteSet(A) /\ Cardinality(A) \in Nat /\ chained[i] + Cardinality(A) <= verdicts[i]
  BY <1>2, FS_CardinalityType DEF Covered
<1>4. /\ IsFiniteSet(A \ {w})
      /\ Cardinality(A \ {w}) = IF w \in A THEN Cardinality(A) - 1 ELSE Cardinality(A)
  BY <1>3, FS_RemoveElement
<1>5. IsFiniteSet(B) /\ Cardinality(B) <= Cardinality(A \ {w})
  BY <1>2, <1>4, FS_Subset
<1>6. Cardinality(B) \in Nat /\ Cardinality(A \ {w}) \in Nat
  BY <1>4, <1>5, FS_CardinalityType
<1>7. /\ chained[i] \in Nat /\ verdicts[i] \in Nat /\ chained'[i] \in Nat
      /\ chained'[i] <= chained[i] + 1 /\ (i # item[w] => chained'[i] = chained[i])
  BY <1>0, <1>1 DEF TypeOK
<1>8. i = item[w] => w \in A
  BY <1>1, <1>2 DEF Chaining
<1>9. chained'[i] + Cardinality(B) <= chained[i] + Cardinality(A)
  <2>1. CASE i = item[w]
    BY <1>3, <1>4, <1>5, <1>6, <1>7, <1>8, <2>1
  <2>2. CASE i # item[w]
    BY <1>3, <1>4, <1>5, <1>6, <1>7, <2>2
  <2> QED BY <2>1, <2>2
<1> QED BY <1>1, <1>2, <1>3, <1>5, <1>6, <1>7, <1>9

LEMMA CoveredStep ==
  ASSUME WorkerAssumption, IInv, IInv', Covered, [Next]_vars
  PROVE  Covered'
<1>0. TypeOK /\ TypeOK'
  BY DEF IInv
<1>1. ASSUME UNCHANGED <<verdicts, chained>>,
             \/ UNCHANGED <<pc, item>>
             \/ \E w \in Workers : \E next : next # "audit" /\ (Called(w, next) \/ Stumbled(w))
             \/ \E w \in Workers : \E next : next # "audit" /\ Onward(w, next)
      PROVE  Covered'
  <2>1. \A i \in Items : Chaining(i)' \subseteq Chaining(i)
    <3>1. CASE UNCHANGED <<pc, item>>
      BY <3>1 DEF Chaining
    <3>2. CASE \E w \in Workers : \E next : next # "audit" /\ (Called(w, next) \/ Stumbled(w))
      BY <1>0, <3>2, CalledElsewhere
    <3>3. CASE \E w \in Workers : \E next : next # "audit" /\ Onward(w, next)
      BY <1>0, <3>3, ElsewhereChains
    <3> QED BY <1>1, <3>1, <3>2, <3>3
  <2> QED BY <1>0, <1>1, <2>1, FewerChain
<1>2. CASE UNCHANGED vars \/ PressReset \/ ResetRecord \/ ResetLedger
  <2>1. UNCHANGED <<verdicts, chained>> /\ UNCHANGED <<pc, item>>
    BY <1>2 DEF vars, PressReset, ResetRecord, ResetLedger, Resets, FailPending, durable,
                workerVars, locals
  <2> QED BY <1>1, <2>1
<1>3. ASSUME NEW w \in Workers, NEW i \in Items, Deliver(w, i) PROVE Covered'
  <2>1. /\ UNCHANGED <<verdicts, chained>> /\ pc[w] = "idle"
        /\ pc' = [pc EXCEPT ![w] = "provider"] /\ item' = [item EXCEPT ![w] = i]
    BY <1>3 DEF Deliver, durable
  <2>2. \A j \in Items : Chaining(j)' \subseteq Chaining(j)
    BY <1>0, <2>1 DEF TypeOK, Chaining
  <2> QED BY <1>0, <2>1, <2>2, FewerChain
<1>4. ASSUME NEW w \in Workers, Ack(w) \/ Retry(w) \/ Crash(w) \/ Expire(w) PROVE Covered'
  <2>1. UNCHANGED <<verdicts, chained>>
    BY <1>4 DEF Ack, Retry, Crash, Expire, Release, durable
  <2>2. \/ UNCHANGED <<pc, item>>
        \/ pc' = [pc EXCEPT ![w] = "idle"] /\ item' = [item EXCEPT ![w] = None]
    BY <1>4 DEF Ack, Retry, Crash, Expire, Release, workerVars, locals
  <2>3. \A j \in Items : Chaining(j)' \subseteq Chaining(j)
    BY <1>0, <2>2 DEF TypeOK, Chaining
  <2> QED BY <1>0, <2>1, <2>3, FewerChain
<1>5. ASSUME NEW w \in Workers,
             \/ BuildProvider(w) \/ CheckAbandoned(w) \/ CheckSettled(w) \/ Start(w)
             \/ ReadStaged(w) \/ Rasterise(w) \/ Extract(w) \/ StoreCrop(w)
      PROVE  Covered'
  <2>1. UNCHANGED <<verdicts, chained>>
    BY <1>0, <1>5, Before DEF durable
  <2>2. \/ \E next : next # "audit" /\ (Called(w, next) \/ Stumbled(w))
        \/ \E next : next # "audit" /\ Onward(w, next)
    BY <1>0, <1>5, Before
  <2> QED BY <1>1, <2>1, <2>2
<1>6. ASSUME NEW w \in Workers,
             \/ RecordMisconfigured(w) \/ Record(w) \/ AuditAbandoned(w) \/ AbandonJob(w)
             \/ Defer(w) \/ AuditFailed(w) \/ RecordFailed(w)
      PROVE  Covered'
  <2>1. UNCHANGED <<verdicts, chained>> /\ \E next : next # "audit" /\ Called(w, next)
    BY <1>6, Reports DEF durable
  <2> QED BY <1>1, <2>1
<1>7. ASSUME NEW w \in Workers, FailMisconfigured(w) \/ FailItem(w) \/ FailJob(w) \/ Fail(w)
      PROVE  Covered'
  <2>1. UNCHANGED <<verdicts, chained>> /\ \E next : next # "audit" /\ Called(w, next)
    BY <1>7, WritesD1
  <2> QED BY <1>1, <2>1
<1>8. ASSUME NEW w \in Workers, Persist(w) \/ Audit(w) PROVE Covered'
  BY <1>0, <1>8, PersistCovers, AuditCovers
<1>9. ASSUME NEW w \in Workers, Invocation(w) PROVE Covered'
  BY <1>4, <1>5, <1>6, <1>7, <1>8, <1>9 DEF Invocation
<1> QED BY <1>2, <1>3, <1>4, <1>9 DEF Next, Environment

(* The history claims no verdict that was not stored, for any number of workers, faults and *)
(* redeliveries.                                                                            *)
THEOREM ChainedExist == Spec => []ChainedVerdictsExist
<1>1. Init => Covered
  <2> SUFFICES ASSUME Init PROVE Covered
    OBVIOUS
  <2>1. \A i \in Items : Chaining(i) = {} /\ chained[i] = 0 /\ verdicts[i] = 0
    BY DEF Init, Chaining
  <2> QED BY <2>1, FS_EmptySet DEF Covered
<1>2. WorkerAssumption /\ IInv /\ IInv' /\ Covered /\ [Next]_vars => Covered'
  BY CoveredStep
<1>3. IInv /\ Covered => ChainedVerdictsExist
  <2> SUFFICES ASSUME IInv, Covered, NEW i \in Items PROVE chained[i] <= verdicts[i]
    BY DEF ChainedVerdictsExist
  <2>1. chained[i] \in Nat /\ verdicts[i] \in Nat /\ Cardinality(Chaining(i)) \in Nat
    BY FS_CardinalityType DEF IInv, TypeOK, Covered
  <2>2. chained[i] + Cardinality(Chaining(i)) <= verdicts[i]
    BY DEF Covered
  <2> QED BY <2>1, <2>2
<1> QED BY <1>1, <1>2, <1>3, Invariance, WorkerAssumption, PTL DEF Spec

-----------------------------------------------------------------------------
(* The message and the invocation that holds it. *)

(* A message is held by a worker that is on it, on the attempt the message counts. *)
Held ==
  \A i \in Items, w \in Workers :
    message[i].holder = w =>
      /\ message[i].status = "held" /\ message[i].attempts = attempt[w]
      /\ pc[w] # "idle" /\ item[w] = i

(* An invocation is only put off while attempts are left. *)
PutOff == \A w \in Workers : pc[w] \in {"defer", "retry"} => attempt[w] < MAX_ATTEMPTS

(* Before the ledger is aborted, every submission is decided. *)
AbortFollows == aborted # None => \A i \in Items : Decided(i)

LEMMA MessageTyped ==
  ASSUME TypeOK, NEW i \in Items
  PROVE  /\ message[i].status \in {"ready", "held", "gone", "dead"}
         /\ message[i].attempts \in Nat /\ message[i].holder \in Workers \cup {None}
BY DEF TypeOK

LEMMA WorkersAreNot == ASSUME WorkerAssumption PROVE \A w \in Workers : w # None
BY DEF WorkerAssumption

(* What ending an invocation does to the message it was given. *)
LEMMA Released ==
  ASSUME TypeOK, NEW w \in Workers, item[w] \in Items, NEW outcome, Release(w, outcome)
  PROVE  /\ \A i \in Items : i # item[w] => message'[i] = message[i]
         /\ message'[item[w]] = IF message[item[w]].holder = w THEN outcome ELSE message[item[w]]
         /\ pc'[w] = "idle"
         /\ \A v \in Workers \ {w} : pc'[v] = pc[v] /\ item'[v] = item[v] /\ attempt'[v] = attempt[v]
         /\ UNCHANGED durable /\ aborted' = aborted
BY DEF Release, TypeOK, coordVars

LEMMA ReturnedIs ==
  ASSUME NEW m \in MessageType
  PROVE  /\ Returned(m).holder = None /\ Returned(m).attempts = m.attempts
         /\ Returned(m).status = IF m.attempts > MaxRetries THEN "dead" ELSE "ready"
BY DEF Returned, MessageType

LEMMA HeldStays ==
  ASSUME TypeOK, Held, message' = message,
         \A v \in Workers : /\ item'[v] = item[v] /\ attempt'[v] = attempt[v]
                            /\ pc[v] # "idle" => pc'[v] # "idle"
  PROVE  Held'
BY DEF Held

(* Where a fault sends a worker, attempts are left if it is to come back. *)
LEMMA FallPutsOff ==
  ASSUME WorkerAssumption, TypeOK, NEW w \in Workers
  PROVE  /\ \A step \in Falls(w) \cap {"defer", "retry"} : attempt[w] < MAX_ATTEMPTS
         /\ \A f \in Faults : CatchStep(w, f) \in {"defer", "retry"} => attempt[w] < MAX_ATTEMPTS
         /\ "idle" \notin Falls(w) /\ \A f \in Faults : CatchStep(w, f) # "idle"
         /\ \A f \in Faults : CatchStep(w, f) # "ack"
<1>1. attempt[w] \in Nat /\ MAX_ATTEMPTS \in Nat
  BY DEF TypeOK, WorkerAssumption
<1> QED BY <1>1 DEF Falls, CatchStep

LEMMA OnwardKeeps ==
  ASSUME TypeOK, Held, PutOff, NEW w \in Workers, pc[w] # "idle",
         NEW step, step # "idle", Onward(w, step),
         step \in {"defer", "retry"} => attempt[w] < MAX_ATTEMPTS
  PROVE  Held' /\ PutOff'
<1>1. /\ message' = message /\ pc'[w] = step
      /\ \A v \in Workers : item'[v] = item[v] /\ attempt'[v] = attempt[v]
      /\ \A v \in Workers : v # w => pc'[v] = pc[v]
  BY DEF Onward, TypeOK
<1>2. Held'
  BY <1>1, HeldStays
<1>3. PutOff'
  BY <1>1 DEF PutOff
<1> QED BY <1>2, <1>3

LEMMA CalledKeeps ==
  ASSUME WorkerAssumption, TypeOK, Held, PutOff, NEW w \in Workers, pc[w] # "idle",
         NEW next, next # "idle", next \in {"defer", "retry"} => attempt[w] < MAX_ATTEMPTS,
         Called(w, next) \/ Stumbled(w)
  PROVE  Held' /\ PutOff'
<1>1. PICK step : /\ step # "idle" /\ Onward(w, step)
                  /\ step \in {"defer", "retry"} => attempt[w] < MAX_ATTEMPTS
  BY FallPutsOff DEF Called, Thrown, Stumbled
<1> QED BY <1>1, OnwardKeeps

LEMMA DeliveredIs ==
  ASSUME WorkerAssumption, TypeOK, NEW w \in Workers, NEW i \in Items, Deliver(w, i)
  PROVE  /\ pc[w] = "idle" /\ message[i].status = "ready"
         /\ \A j \in Items : message[j].status # "held"
         /\ message'[i] = [status |-> "held", attempts |-> message[i].attempts + 1, holder |-> w]
         /\ \A j \in Items : j # i => message'[j] = message[j]
         /\ pc'[w] = "provider" /\ item'[w] = i /\ attempt'[w] = message'[i].attempts
         /\ \A v \in Workers \ {w} : pc'[v] = pc[v] /\ item'[v] = item[v] /\ attempt'[v] = attempt[v]
         /\ UNCHANGED durable /\ aborted' = aborted /\ spent' = spent
BY DEF Deliver, TypeOK, coordVars

LEMMA QueueHolds ==
  ASSUME WorkerAssumption, IInv, Held, PutOff, NEW w \in Workers, NEW i \in Items, Deliver(w, i)
  PROVE  Held' /\ PutOff'
<1>0. TypeOK
  BY DEF IInv
<1>1. /\ message'[i] = [status |-> "held", attempts |-> message[i].attempts + 1, holder |-> w]
      /\ \A j \in Items : message[j].status # "held"
  BY <1>0, DeliveredIs
<1>2. \A j \in Items : j # i => message'[j] = message[j]
  BY <1>0 DEF Deliver, TypeOK
<1>3. pc'[w] = "provider" /\ item'[w] = i /\ attempt'[w] = message'[i].attempts
  BY <1>0, DeliveredIs
<1>4. message'[i].holder = w /\ message'[i].status = "held"
  BY <1>1
<1>5. Held'
  <2> SUFFICES ASSUME NEW j \in Items, NEW v \in Workers, message'[j].holder = v
               PROVE  /\ message'[j].status = "held" /\ message'[j].attempts = attempt'[v]
                      /\ pc'[v] # "idle" /\ item'[v] = j
    BY DEF Held
  <2>1. CASE j = i
    <3>1. v = w
      BY <1>4, <2>1, Zenon
    <3> QED BY <1>3, <1>4, <2>1, <3>1, Zenon
  <2>2. CASE j # i
    <3>1. message[j].status = "held"
      BY <1>2, <2>2 DEF Held
    <3> QED BY <1>1, <3>1
  <2> QED BY <2>1, <2>2
<1>6. PutOff'
  BY <1>0, DeliveredIs DEF PutOff
<1> QED BY <1>5, <1>6

LEMMA ReleaseHolds ==
  ASSUME WorkerAssumption, IInv, Held, PutOff, NEW w \in Workers, pc[w] # "idle",
         NEW outcome, outcome.holder = None, Release(w, outcome)
  PROVE  Held' /\ PutOff'
<1>0. TypeOK /\ item[w] \in Items
  BY DEF IInv, Owed
<1>1. Held'
  <2> SUFFICES ASSUME NEW j \in Items, NEW v \in Workers, message'[j].holder = v
               PROVE  /\ message'[j].status = "held" /\ message'[j].attempts = attempt'[v]
                      /\ pc'[v] # "idle" /\ item'[v] = j
    BY DEF Held
  <2>1. message'[j] = message[j] /\ message[j].holder # w
    <3>1. CASE j = item[w]
      BY <1>0, <3>1, Released, WorkersAreNot
    <3>2. CASE j # item[w]
      BY <1>0, <3>2, Released DEF Held
    <3> QED BY <3>1, <3>2
  <2> QED BY <1>0, <2>1, Released DEF Held
<1>2. PutOff'
  BY <1>0, Released DEF PutOff
<1> QED BY <1>1, <1>2

LEMMA ExpireHolds ==
  ASSUME WorkerAssumption, IInv, Held, PutOff, NEW w \in Workers, Expire(w)
  PROVE  Held' /\ PutOff'
<1>0. TypeOK /\ item[w] \in Items /\ message[item[w]] \in MessageType
  BY DEF IInv, Owed, Expire, TypeOK, MessageType
<1>1. /\ message' = [message EXCEPT ![item[w]] = Returned(message[item[w]])]
      /\ pc' = pc /\ item' = item /\ attempt' = attempt
  BY DEF Expire, workerVars, locals
<1>2. Held'
  <2> SUFFICES ASSUME NEW j \in Items, NEW v \in Workers, message'[j].holder = v
               PROVE  /\ message'[j].status = "held" /\ message'[j].attempts = attempt[v]
                      /\ pc[v] # "idle" /\ item[v] = j
    BY <1>1 DEF Held
  <2>1. j # item[w]
    <3>1. message'[item[w]] = Returned(message[item[w]])
      BY <1>0, <1>1 DEF TypeOK
    <3> QED BY <1>0, <3>1, ReturnedIs, WorkersAreNot
  <2>2. message'[j] = message[j]
    BY <1>0, <1>1, <2>1 DEF TypeOK
  <2> QED BY <2>2 DEF Held
<1>3. PutOff'
  BY <1>1 DEF PutOff
<1> QED BY <1>2, <1>3

(* Every release hands the message on or away. *)
LEMMA Ends ==
  ASSUME TypeOK, NEW w \in Workers, item[w] \in Items, Ack(w) \/ Retry(w) \/ Crash(w)
  PROVE  \E outcome : outcome.holder = None /\ Release(w, outcome)
<1>1. message[item[w]] \in MessageType
  BY DEF TypeOK, MessageType
<1>2. CASE Ack(w)
  BY <1>1, <1>2 DEF Ack, MessageType
<1>3. CASE ~Ack(w)
  BY <1>1, <1>3, ReturnedIs DEF Retry, Crash
<1> QED BY <1>2, <1>3

LEMMA HeldStep ==
  ASSUME WorkerAssumption, IInv, Held, PutOff, [Next]_vars
  PROVE  Held' /\ PutOff'
<1>0. TypeOK
  BY DEF IInv
<1>1. CASE UNCHANGED vars \/ PressReset \/ ResetRecord \/ ResetLedger
  <2>1. UNCHANGED <<pc, item, attempt, message>>
    BY <1>1 DEF vars, PressReset, ResetRecord, ResetLedger, Resets, workerVars, locals
  <2> QED BY <2>1 DEF Held, PutOff
<1>2. ASSUME NEW w \in Workers, NEW i \in Items, Deliver(w, i) PROVE Held' /\ PutOff'
  BY <1>2, QueueHolds
<1>3. ASSUME NEW w \in Workers, Ack(w) \/ Retry(w) \/ Crash(w) PROVE Held' /\ PutOff'
  <2>1. pc[w] # "idle"
    BY <1>3 DEF Ack, Retry, Crash
  <2>2. item[w] \in Items
    BY <2>1 DEF IInv, Owed
  <2>3. PICK outcome : outcome.holder = None /\ Release(w, outcome)
    BY <1>0, <1>3, <2>2, Ends
  <2> QED BY <2>1, <2>3, ReleaseHolds
<1>4. ASSUME NEW w \in Workers, Expire(w) PROVE Held' /\ PutOff'
  BY <1>4, ExpireHolds
<1>5. ASSUME NEW w \in Workers,
             \/ BuildProvider(w) \/ CheckAbandoned(w) \/ CheckSettled(w) \/ Start(w)
             \/ ReadStaged(w) \/ Rasterise(w) \/ Extract(w) \/ StoreCrop(w)
      PROVE  Held' /\ PutOff'
  <2>1. pc[w] # "idle"
    BY <1>0, <1>5, Before
  <2>2. \/ \E next : next \notin {"idle", "defer", "retry"} /\ (Called(w, next) \/ Stumbled(w))
        \/ \E next : next \notin {"idle", "defer", "retry"} /\ Onward(w, next)
    BY <1>0, <1>5, Before
  <2> QED BY <1>0, <2>1, <2>2, CalledKeeps, OnwardKeeps
<1>6. ASSUME NEW w \in Workers,
             \/ RecordMisconfigured(w) \/ Record(w) \/ AuditAbandoned(w) \/ AbandonJob(w)
             \/ Defer(w) \/ AuditFailed(w) \/ RecordFailed(w)
      PROVE  Held' /\ PutOff'
  <2>1. pc[w] # "idle" /\ \E next : next # "idle" /\ Called(w, next)
                                      /\ (next \in {"defer", "retry"} => pc[w] = "defer")
    BY <1>6, Reports
  <2>2. pc[w] = "defer" => attempt[w] < MAX_ATTEMPTS
    BY DEF PutOff
  <2> QED BY <1>0, <2>1, <2>2, CalledKeeps
<1>7. ASSUME NEW w \in Workers,
             FailMisconfigured(w) \/ FailItem(w) \/ FailJob(w) \/ Fail(w) \/ Audit(w) \/ Persist(w)
      PROVE  Held' /\ PutOff'
  <2>1. pc[w] # "idle" /\ \E next : next \notin {"idle", "defer", "retry"} /\ Called(w, next)
    BY <1>7, WritesD1 DEF Called
  <2> QED BY <1>0, <2>1, CalledKeeps
<1>8. ASSUME NEW w \in Workers, Invocation(w) PROVE Held' /\ PutOff'
  BY <1>3, <1>5, <1>6, <1>7, <1>8 DEF Invocation
<1> QED BY <1>1, <1>2, <1>3, <1>4, <1>8 DEF Next, Environment

-----------------------------------------------------------------------------
(* The queue's budget.  A message is lost only by being acknowledged undecided or by being  *)
(* dead-lettered: nobody reaches an acknowledgement undecided, and each redelivery beyond   *)
(* the worker's own budget is paid for by a lost invocation.                                *)

Lost == spent.crashes + spent.expiries

Spared ==
  /\ "unbound" \notin Deployments
  /\ spent.faults = 0
  /\ Lost <= (MaxRetries - MAX_ATTEMPTS) + 1

AckDecided == \A w \in Workers : pc[w] = "ack" => Decided(item[w])

(* What a message counts is covered by the worker's budget and the invocations lost. *)
Afforded(m, lost) ==
  /\ m.status # "dead"
  /\ m.attempts <= MAX_ATTEMPTS + lost
  /\ m.status = "ready" => m.attempts < MAX_ATTEMPTS + lost

Messages ==
  \A i \in Items :
    /\ message[i].status = "gone" => Decided(i)
    /\ Afforded(message[i], Lost)

Supplied == Spared => AckDecided /\ Messages

(* No step takes a decision back. *)
LEMMA DecidedStays ==
  ASSUME WorkerAssumption, IInv, [Next]_vars, NEW i \in Items, Decided(i)
  PROVE  Decided(i)'
<1>0. TypeOK
  BY DEF IInv
<1>1. ASSUME \/ UNCHANGED submission
             \/ FailPending
             \/ \E j, s : submission' = [submission EXCEPT ![j] = s] /\ s # "QUEUED"
      PROVE  Decided(i)'
  BY <1>0, <1>1 DEF Decided, FailPending, TypeOK
<1>2. CASE UNCHANGED vars \/ PressReset \/ ResetRecord \/ ResetLedger
  BY <1>1, <1>2 DEF vars, PressReset, ResetRecord, ResetLedger, Resets, durable
<1>3. ASSUME NEW w \in Workers, NEW j \in Items, Deliver(w, j) PROVE Decided(i)'
  BY <1>1, <1>3 DEF Deliver, durable
<1>4. ASSUME NEW w \in Workers, Ack(w) \/ Retry(w) \/ Crash(w) \/ Expire(w) PROVE Decided(i)'
  BY <1>1, <1>4 DEF Ack, Retry, Crash, Expire, Release, durable
<1>5. ASSUME NEW w \in Workers,
             \/ BuildProvider(w) \/ CheckAbandoned(w) \/ CheckSettled(w) \/ Start(w)
             \/ ReadStaged(w) \/ Rasterise(w) \/ Extract(w) \/ StoreCrop(w)
      PROVE  Decided(i)'
  BY <1>0, <1>1, <1>5, Before DEF durable
<1>6. ASSUME NEW w \in Workers,
             \/ RecordMisconfigured(w) \/ Record(w) \/ AuditAbandoned(w) \/ AbandonJob(w)
             \/ Defer(w) \/ AuditFailed(w) \/ RecordFailed(w)
      PROVE  Decided(i)'
  BY <1>1, <1>6, Reports DEF durable
<1>7. ASSUME NEW w \in Workers,
             FailMisconfigured(w) \/ FailItem(w) \/ FailJob(w) \/ Fail(w) \/ Audit(w) \/ Persist(w)
      PROVE  Decided(i)'
  <2>1. \/ UNCHANGED submission
        \/ FailPending
        \/ \E j, s : submission' = [submission EXCEPT ![j] = s] /\ s # "QUEUED"
    <3>1. "FAILED" # "QUEUED" /\ "REJECTED" # "QUEUED" /\ "COMPLETED" # "QUEUED"
      OBVIOUS
    <3>2. CASE FailMisconfigured(w) \/ FailItem(w) \/ FailJob(w) \/ Audit(w)
      BY <3>1, <3>2, WritesD1
    <3>3. CASE Fail(w)
      BY <3>1, <3>3, WritesD1
    <3>4. CASE Persist(w)
      BY <3>1, <3>4, WritesD1
    <3> QED BY <1>7, <3>2, <3>3, <3>4
  <2> QED BY <1>1, <2>1
<1>8. ASSUME NEW w \in Workers, Invocation(w) PROVE Decided(i)'
  BY <1>4, <1>5, <1>6, <1>7, <1>8 DEF Invocation
<1> QED BY <1>2, <1>3, <1>4, <1>8 DEF Next, Environment

LEMMA AbortStep ==
  ASSUME WorkerAssumption, IInv, AbortFollows, [Next]_vars
  PROVE  AbortFollows'
<1>0. TypeOK
  BY DEF IInv
<1>1. aborted' = aborted \/ \A i \in Items : Decided(i)
  <2>1. CASE UNCHANGED vars \/ PressReset \/ ResetRecord
    BY <2>1 DEF vars, PressReset, ResetRecord, Resets, coordVars
  <2>2. CASE ResetLedger
    BY <2>2 DEF ResetLedger, IInv, Owed
  <2>3. ASSUME NEW w \in Workers, NEW j \in Items, Deliver(w, j) PROVE aborted' = aborted
    BY <2>3 DEF Deliver, coordVars
  <2>4. ASSUME NEW w \in Workers, Ack(w) \/ Retry(w) \/ Crash(w) \/ Expire(w)
        PROVE  aborted' = aborted
    BY <2>4 DEF Ack, Retry, Crash, Expire, Release, coordVars
  <2>5. ASSUME NEW w \in Workers,
               \/ BuildProvider(w) \/ CheckAbandoned(w) \/ CheckSettled(w) \/ Start(w)
               \/ ReadStaged(w) \/ Rasterise(w) \/ Extract(w) \/ StoreCrop(w)
        PROVE  aborted' = aborted
    BY <1>0, <2>5, Before
  <2>6. ASSUME NEW w \in Workers,
               \/ RecordMisconfigured(w) \/ Record(w) \/ AuditAbandoned(w)
               \/ Defer(w) \/ AuditFailed(w) \/ RecordFailed(w)
        PROVE  aborted' = aborted
    BY <2>6, Reports
  <2>7. ASSUME NEW w \in Workers, AbandonJob(w) PROVE \A i \in Items : Decided(i)
    BY <2>7, Reports DEF IInv, Owed, Owes
  <2>8. ASSUME NEW w \in Workers,
               FailMisconfigured(w) \/ FailItem(w) \/ FailJob(w) \/ Fail(w) \/ Audit(w) \/ Persist(w)
        PROVE  aborted' = aborted
    BY <2>8, WritesD1
  <2> QED BY <2>1, <2>2, <2>3, <2>4, <2>5, <2>6, <2>7, <2>8 DEF Next, Environment, Invocation
<1> QED BY <1>1, DecidedStays DEF AbortFollows

LEMMA LostIs ==
  ASSUME TypeOK
  PROVE  Lost \in Nat /\ spent.faults \in Nat
BY DEF TypeOK, Lost

(* The bounds are only used up. *)
UsedUp ==
  /\ spent'.faults >= spent.faults
  /\ spent'.crashes >= spent.crashes
  /\ spent'.expiries >= spent.expiries

LEMMA SpentGrows ==
  ASSUME WorkerAssumption, TypeOK, [Next]_vars
  PROVE  UsedUp
<1>1. ASSUME \/ spent' = spent
             \/ spent' = [spent EXCEPT !.faults = @ + 1]
             \/ spent' = [spent EXCEPT !.crashes = @ + 1]
             \/ spent' = [spent EXCEPT !.expiries = @ + 1]
             \/ spent' = [spent EXCEPT !.resets = @ + 1]
      PROVE  UsedUp
  BY <1>1 DEF TypeOK, UsedUp
<1>2. CASE UNCHANGED vars \/ PressReset \/ ResetRecord \/ ResetLedger
  BY <1>1, <1>2 DEF vars, PressReset, ResetRecord, ResetLedger, Resets
<1>3. ASSUME NEW w \in Workers, NEW j \in Items, Deliver(w, j)
      PROVE  UsedUp
  BY <1>1, <1>3 DEF Deliver
<1>4. ASSUME NEW w \in Workers, Ack(w) \/ Retry(w) \/ Crash(w) \/ Expire(w)
      PROVE  UsedUp
  BY <1>1, <1>4 DEF Ack, Retry, Crash, Expire
<1>5. ASSUME NEW w \in Workers, Invocation(w)
      PROVE  UsedUp
  <2>1. CASE \/ BuildProvider(w) \/ CheckAbandoned(w) \/ CheckSettled(w) \/ Start(w)
             \/ ReadStaged(w) \/ Rasterise(w) \/ Extract(w) \/ StoreCrop(w)
    BY <1>1, <2>1, Before DEF Called, Stumbled
  <2>2. CASE \/ RecordMisconfigured(w) \/ Record(w) \/ AuditAbandoned(w) \/ AbandonJob(w)
             \/ Defer(w) \/ AuditFailed(w) \/ RecordFailed(w)
    BY <1>1, <2>2, Reports DEF Called
  <2>3. CASE FailMisconfigured(w) \/ FailItem(w) \/ FailJob(w) \/ Fail(w) \/ Audit(w) \/ Persist(w)
    BY <1>1, <2>3, WritesD1 DEF Called
  <2> QED BY <1>4, <1>5, <2>1, <2>2, <2>3 DEF Invocation
<1> QED BY <1>2, <1>3, <1>4, <1>5 DEF Next, Environment

(* A message that comes back can still be afforded: it was put off within the budget, or     *)
(* the invocation that had it is one more that was lost.                                    *)
LEMMA ReturnAfforded ==
  ASSUME WorkerAssumption, NEW m \in MessageType, NEW lost \in Nat, NEW more \in Nat,
         Afforded(m, lost), more <= (MaxRetries - MAX_ATTEMPTS) + 1,
         \/ m.attempts < MAX_ATTEMPTS /\ more = lost
         \/ more = lost + 1
  PROVE  Afforded(Returned(m), more) /\ Returned(m).status = "ready"
<1>1. m.attempts \in Nat /\ MAX_ATTEMPTS \in Nat /\ MaxRetries \in Nat
  BY DEF MessageType, WorkerAssumption
<1>2. m.attempts < MAX_ATTEMPTS + more
  BY <1>1 DEF Afforded
<1>3. MAX_ATTEMPTS + more <= MaxRetries + 1
  BY <1>1
<1>4. ~(m.attempts > MaxRetries)
  BY <1>1, <1>2, <1>3
<1>5. Returned(m).status = "ready" /\ Returned(m).attempts = m.attempts
  BY <1>4, ReturnedIs
<1> QED BY <1>1, <1>2, <1>5 DEF Afforded

LEMMA MoreAfforded ==
  ASSUME WorkerAssumption, NEW m \in MessageType, NEW lost \in Nat, NEW more \in Nat,
         Afforded(m, lost), more >= lost
  PROVE  Afforded(m, more)
<1>1. m.attempts \in Nat /\ MAX_ATTEMPTS \in Nat
  BY DEF MessageType, WorkerAssumption
<1> QED BY <1>1 DEF Afforded

-----------------------------------------------------------------------------
(* What keeps the queue supplied. *)

(* Steps that leave the messages alone. *)
LEMMA MessagesStay ==
  ASSUME WorkerAssumption, IInv, Messages, message' = message, Lost' \in Nat, Lost' >= Lost,
         \A i \in Items : Decided(i) => Decided(i)'
  PROVE  Messages'
<1> SUFFICES ASSUME NEW i \in Items
             PROVE  /\ message[i].status = "gone" => Decided(i)'
                    /\ Afforded(message[i], Lost')
  BY DEF Messages, Afforded
<1>1. message[i] \in MessageType /\ Lost \in Nat
  BY LostIs DEF IInv, TypeOK, MessageType
<1>2. Afforded(message[i], Lost) /\ (message[i].status = "gone" => Decided(i))
  BY DEF Messages
<1> QED BY <1>1, <1>2, MoreAfforded

(* Without faults every call returns. *)
LEMMA NoFault ==
  ASSUME TypeOK, spent'.faults = 0, NEW w \in Workers, NEW next, Called(w, next)
  PROVE  Onward(w, next) /\ spent' = spent
BY DEF Called, TypeOK

LEMMA OnwardAck ==
  ASSUME IInv, AckDecided, NEW w \in Workers, NEW step, Onward(w, step),
         step = "ack" => item[w] \in Items /\ Decided(item[w]),
         \A i \in Items : Decided(i) => Decided(i)'
  PROVE  AckDecided'
<1>1. item' = item /\ \A v \in Workers : pc[v] # "idle" => item[v] \in Items
  BY DEF Onward, IInv, Owed
<1> SUFFICES ASSUME NEW v \in Workers, pc'[v] = "ack" PROVE submission'[item[v]] # "QUEUED"
  BY <1>1 DEF AckDecided, Decided
<1>2. item[v] \in Items /\ Decided(item[v])
  <2>1. CASE v = w
    <3>1. pc'[w] = step
      BY DEF Onward, IInv, TypeOK
    <3> QED BY <2>1, <3>1
  <2>2. CASE v # w
    <3>1. pc[v] = "ack"
      BY <2>2 DEF Onward, IInv, TypeOK
    <3> QED BY <1>1, <3>1 DEF AckDecided
  <2> QED BY <2>1, <2>2
<1>3. PICK i \in Items : i = item[v]
  BY <1>2
<1> QED BY <1>2, <1>3 DEF Decided


(* Without faults, a worker acknowledges what is decided. *)
LEMMA StepSupplies ==
  ASSUME WorkerAssumption, IInv, AbortFollows, AckDecided, Spared', NEW w \in Workers,
         \A i \in Items : Decided(i) => Decided(i)',
         \/ BuildProvider(w) \/ CheckAbandoned(w) \/ CheckSettled(w) \/ Start(w)
         \/ ReadStaged(w) \/ Rasterise(w) \/ Extract(w) \/ StoreCrop(w)
         \/ RecordMisconfigured(w) \/ Record(w) \/ AuditAbandoned(w) \/ AbandonJob(w)
         \/ Defer(w) \/ AuditFailed(w) \/ RecordFailed(w)
         \/ FailMisconfigured(w) \/ FailItem(w) \/ FailJob(w) \/ Fail(w) \/ Audit(w) \/ Persist(w)
  PROVE  AckDecided' /\ message' = message
<1>0. TypeOK /\ spent'.faults = 0 /\ "unbound" \notin Deployments
  BY DEF IInv, Spared
<1>1. pc[w] # "idle" => item[w] \in Items /\ Owes(item[w], pc[w])
  BY DEF IInv, Owed
<1>2. ASSUME NEW step, Onward(w, step), step = "ack" => item[w] \in Items /\ Decided(item[w])
      PROVE  AckDecided' /\ message' = message
  <2>1. message' = message
    BY <1>2 DEF Onward
  <2> QED BY <1>2, <2>1, OnwardAck
<1>3. ASSUME NEW next, Called(w, next), next = "ack" => item[w] \in Items /\ Decided(item[w])
      PROVE  AckDecided' /\ message' = message
  BY <1>0, <1>2, <1>3, NoFault
<1>4. ASSUME Stumbled(w) PROVE AckDecided' /\ message' = message
  BY <1>0, <1>2, <1>4, FallPutsOff DEF Stumbled
<1>5. CASE BuildProvider(w)
  BY <1>0, <1>2, <1>5, Before
<1>6. CASE CheckAbandoned(w)
  <2>1. aborted # None => item[w] \in Items /\ Decided(item[w])
    BY <1>0, <1>1, <1>6, Before DEF AbortFollows
  <2> QED BY <1>0, <1>3, <1>6, <2>1, Before
<1>7. CASE CheckSettled(w)
  <2>1. isAlreadySettled(submission[item[w]]) => item[w] \in Items /\ Decided(item[w])
    BY <1>0, <1>1, <1>7, Before DEF isAlreadySettled, Decided
  <2> QED BY <1>0, <1>3, <1>7, <2>1, Before
<1>8. CASE \/ Start(w) \/ ReadStaged(w) \/ Rasterise(w) \/ Extract(w) \/ StoreCrop(w)
  BY <1>0, <1>2, <1>3, <1>4, <1>8, Before
<1>9. CASE RecordMisconfigured(w) \/ Record(w) \/ AbandonJob(w) \/ RecordFailed(w)
  <2>1. item[w] \in Items /\ Decided(item[w]) /\ Called(w, "ack")
    BY <1>1, <1>9, Reports DEF Owes
  <2> QED BY <1>3, <2>1
<1>10. CASE AuditAbandoned(w) \/ Defer(w) \/ AuditFailed(w)
  BY <1>3, <1>10, Reports
<1>11. CASE FailMisconfigured(w) \/ FailItem(w) \/ FailJob(w) \/ Fail(w) \/ Audit(w)
  BY <1>3, <1>11, WritesD1
<1>12. CASE Persist(w)
  <2>1. Called(w, "audit")
    BY <1>12, WritesD1 DEF Called
  <2> QED BY <1>3, <2>1
<1> QED BY <1>5, <1>6, <1>7, <1>8, <1>9, <1>10, <1>11, <1>12

LEMMA DeliverSupplies ==
  ASSUME WorkerAssumption, IInv, AckDecided, Messages, NEW w \in Workers, NEW i \in Items,
         Deliver(w, i)
  PROVE  AckDecided' /\ Messages'
<1>0. TypeOK /\ Lost \in Nat /\ MAX_ATTEMPTS \in Nat
  BY LostIs DEF IInv, WorkerAssumption
<1>1. /\ message'[i] = [status |-> "held", attempts |-> message[i].attempts + 1, holder |-> w]
      /\ message[i].status = "ready" /\ message[i].attempts \in Nat
  BY <1>0, DeliveredIs, MessageTyped
<1>2. \A j \in Items : j # i => message'[j] = message[j]
  BY <1>0 DEF Deliver, TypeOK
<1>3. UNCHANGED durable /\ spent' = spent
  BY DEF Deliver
<1>4. Messages'
  <2> SUFFICES ASSUME NEW j \in Items
               PROVE  /\ message'[j].status = "gone" => submission'[j] # "QUEUED"
                      /\ message'[j].status # "dead"
                      /\ message'[j].attempts <= MAX_ATTEMPTS + Lost
                      /\ message'[j].status = "ready" => message'[j].attempts < MAX_ATTEMPTS + Lost
    BY <1>3 DEF Messages, Afforded, Decided, Lost
  <2>1. CASE j = i
    <3>1. message[i].attempts < MAX_ATTEMPTS + Lost
      BY <1>1 DEF Messages, Afforded
    <3>2. message'[i].status = "held" /\ message'[i].attempts = message[i].attempts + 1
      BY <1>1
    <3> QED BY <1>0, <1>1, <2>1, <3>1, <3>2
  <2>2. CASE j # i
    BY <1>2, <1>3, <2>2 DEF Messages, Afforded, Decided, durable
  <2> QED BY <2>1, <2>2
<1>5. AckDecided'
  <2>1. pc' = [pc EXCEPT ![w] = "provider"] /\ item' = [item EXCEPT ![w] = i]
    BY DEF Deliver
  <2> SUFFICES ASSUME NEW v \in Workers, pc'[v] = "ack" PROVE submission'[item'[v]] # "QUEUED"
    BY DEF AckDecided, Decided
  <2>2. v # w /\ pc[v] = "ack" /\ item'[v] = item[v]
    BY <1>0, <2>1 DEF TypeOK
  <2> QED BY <1>3, <2>2 DEF AckDecided, Decided, durable
<1> QED BY <1>4, <1>5

(* An invocation ends: its message, if it still had it, is acknowledged or comes back. *)
LEMMA ReleaseSupplies ==
  ASSUME WorkerAssumption, IInv, AckDecided, Messages, NEW w \in Workers, item[w] \in Items,
         NEW outcome, Release(w, outcome), Lost' \in Nat, Lost' >= Lost,
         message[item[w]].holder = w =>
           /\ outcome.status = "gone" => Decided(item[w])
           /\ Afforded(outcome, Lost')
  PROVE  AckDecided' /\ Messages'
<1>0. TypeOK
  BY DEF IInv
<1>1. /\ \A j \in Items : j # item[w] => message'[j] = message[j]
      /\ message'[item[w]] = IF message[item[w]].holder = w THEN outcome ELSE message[item[w]]
      /\ UNCHANGED durable
  BY <1>0 DEF Release, TypeOK
<1>2. Messages'
  <2> SUFFICES ASSUME NEW j \in Items
               PROVE  /\ message'[j].status = "gone" => submission[j] # "QUEUED"
                      /\ Afforded(message'[j], Lost')
    BY <1>1 DEF Messages, Afforded, Decided, durable
  <2>1. CASE j = item[w] /\ message[item[w]].holder = w
    BY <1>1, <2>1 DEF Decided
  <2>2. CASE ~(j = item[w] /\ message[item[w]].holder = w)
    <3>1. message'[j] = message[j]
      BY <1>1, <2>2
    <3>2. message[j] \in MessageType /\ Lost \in Nat
      BY <1>0, LostIs DEF TypeOK, MessageType
    <3>3. Afforded(message[j], Lost) /\ (message[j].status = "gone" => submission[j] # "QUEUED")
      BY DEF Messages, Decided
    <3>4. Afforded(message[j], Lost')
      BY <3>2, <3>3, MoreAfforded
    <3> QED BY <3>1, <3>3, <3>4
  <2> QED BY <2>1, <2>2
<1>3. AckDecided'
  <2> SUFFICES ASSUME NEW v \in Workers, pc'[v] = "ack" PROVE submission'[item'[v]] # "QUEUED"
    BY DEF AckDecided, Decided
  <2>1. v # w /\ pc[v] = "ack" /\ item'[v] = item[v]
    BY <1>0 DEF Release, TypeOK
  <2> QED BY <1>1, <2>1 DEF AckDecided, Decided, durable
<1> QED BY <1>2, <1>3


(* The end of an invocation, and the end of its hold on the message. *)
LEMMA EndSupplies ==
  ASSUME WorkerAssumption, IInv, Held, PutOff, AckDecided, Messages, Spared', NEW w \in Workers,
         Ack(w) \/ Retry(w) \/ Crash(w)
  PROVE  AckDecided' /\ Messages'
<1>0. TypeOK /\ Lost \in Nat /\ pc[w] # "idle" /\ item[w] \in Items
  BY LostIs DEF IInv, Owed, Ack, Retry, Crash
<1>1. message[item[w]] \in MessageType /\ Afforded(message[item[w]], Lost)
  BY <1>0 DEF Messages, TypeOK, MessageType
<1>2. Lost' <= (MaxRetries - MAX_ATTEMPTS) + 1
  BY DEF Spared
<1>3. CASE Ack(w)
  <2>1. PICK outcome : /\ outcome = [message[item[w]] EXCEPT !.status = "gone", !.holder = None]
                       /\ Release(w, outcome)
    BY <1>3 DEF Ack
  <2>2. Lost' = Lost /\ Decided(item[w])
    BY <1>3 DEF Ack, Lost, AckDecided
  <2>3. outcome.status = "gone" /\ outcome.attempts = message[item[w]].attempts
    BY <1>1, <2>1 DEF MessageType
  <2>4. Afforded(outcome, Lost')
    BY <1>1, <2>2, <2>3 DEF Afforded
  <2> QED BY <1>0, <2>1, <2>2, <2>4, ReleaseSupplies
<1>4. CASE Retry(w)
  <2>1. Release(w, Returned(message[item[w]])) /\ Lost' = Lost
    BY <1>4 DEF Retry, Lost
  <2>2. ASSUME message[item[w]].holder = w
        PROVE  Afforded(Returned(message[item[w]]), Lost') /\ Returned(message[item[w]]).status = "ready"
    <3>1. message[item[w]].attempts < MAX_ATTEMPTS
      BY <1>0, <1>4, <2>2 DEF Held, PutOff, Retry
    <3> QED BY <1>0, <1>1, <1>2, <2>1, <3>1, ReturnAfforded
  <2> QED BY <1>0, <2>1, <2>2, ReleaseSupplies
<1>5. CASE Crash(w)
  <2>1. Release(w, Returned(message[item[w]])) /\ Lost' = Lost + 1
    BY <1>0, <1>5 DEF Crash, Lost, TypeOK
  <2>2. Afforded(Returned(message[item[w]]), Lost') /\ Returned(message[item[w]]).status = "ready"
    BY <1>0, <1>1, <1>2, <2>1, ReturnAfforded
  <2> QED BY <1>0, <2>1, <2>2, ReleaseSupplies
<1> QED BY <1>3, <1>4, <1>5

LEMMA ExpireSupplies ==
  ASSUME WorkerAssumption, IInv, AckDecided, Messages, Spared', NEW w \in Workers, Expire(w)
  PROVE  AckDecided' /\ Messages'
<1>0. TypeOK /\ Lost \in Nat /\ item[w] \in Items
  BY LostIs DEF IInv, Owed, Expire
<1>1. message[item[w]] \in MessageType /\ Afforded(message[item[w]], Lost)
  BY <1>0 DEF Messages, TypeOK, MessageType
<1>2. Lost' <= (MaxRetries - MAX_ATTEMPTS) + 1 /\ Lost' = Lost + 1
  BY <1>0 DEF Spared, Expire, Lost, TypeOK
<1>3. Afforded(Returned(message[item[w]]), Lost') /\ Returned(message[item[w]]).status = "ready"
  BY <1>0, <1>1, <1>2, ReturnAfforded
<1>4. /\ message' = [message EXCEPT ![item[w]] = Returned(message[item[w]])]
      /\ pc' = pc /\ item' = item /\ submission' = submission
  BY DEF Expire, workerVars, locals, durable
<1>5. Messages'
  <2> SUFFICES ASSUME NEW j \in Items
               PROVE  /\ message'[j].status = "gone" => submission[j] # "QUEUED"
                      /\ Afforded(message'[j], Lost')
    BY <1>4 DEF Messages, Afforded, Decided
  <2>1. CASE j = item[w]
    <3>1. message'[j] = Returned(message[item[w]])
      BY <1>0, <1>4, <2>1 DEF TypeOK
    <3> QED BY <1>3, <3>1
  <2>2. CASE j # item[w]
    <3>1. message'[j] = message[j]
      BY <1>0, <1>4, <2>2 DEF TypeOK
    <3>2. message[j] \in MessageType /\ Afforded(message[j], Lost)
      BY <1>0 DEF Messages, TypeOK, MessageType
    <3>3. Afforded(message[j], Lost')
      BY <1>0, <1>2, <3>2, MoreAfforded
    <3> QED BY <3>1, <3>3 DEF Messages, Decided
  <2> QED BY <2>1, <2>2
<1> QED BY <1>4, <1>5 DEF AckDecided, Decided

LEMMA SuppliedStep ==
  ASSUME WorkerAssumption, IInv, IInv', Held, PutOff, AbortFollows, Supplied, [Next]_vars
  PROVE  Supplied'
<1> SUFFICES ASSUME Spared' PROVE AckDecided' /\ Messages'
  BY DEF Supplied
<1>0. TypeOK /\ Lost \in Nat /\ Lost' \in Nat /\ Lost' >= Lost
  <2>1. TypeOK /\ Lost \in Nat /\ Lost' \in Nat /\ UsedUp
    BY LostIs, SpentGrows DEF IInv, TypeOK, Lost
  <2> QED BY <2>1 DEF IInv, TypeOK, Lost, UsedUp
<1>1. \A i \in Items : Decided(i) => Decided(i)'
  BY DecidedStays
<1>2. Spared
  <2>1. spent.faults \in Nat /\ spent'.faults >= spent.faults
    BY <1>0, LostIs, SpentGrows DEF UsedUp
  <2>2. (MaxRetries - MAX_ATTEMPTS) + 1 \in Int
    BY DEF WorkerAssumption
  <2> QED BY <1>0, <2>1, <2>2 DEF Spared
<1>3. AckDecided /\ Messages
  BY <1>2 DEF Supplied
<1>4. CASE UNCHANGED vars \/ PressReset \/ ResetRecord \/ ResetLedger
  <2>1. UNCHANGED <<pc, item, message>>
    BY <1>4 DEF vars, PressReset, ResetRecord, ResetLedger, Resets, workerVars, locals
  <2>2. Messages'
    BY <1>0, <1>1, <1>3, <2>1, MessagesStay
  <2>3. AckDecided'
    <3> SUFFICES ASSUME NEW v \in Workers, pc[v] = "ack" PROVE submission'[item[v]] # "QUEUED"
      BY <2>1 DEF AckDecided, Decided
    <3>1. PICK i \in Items : i = item[v]
      BY DEF IInv, Owed
    <3> QED BY <1>1, <1>3, <3>1 DEF AckDecided, Decided
  <2> QED BY <2>2, <2>3
<1>5. ASSUME NEW w \in Workers, NEW i \in Items, Deliver(w, i) PROVE AckDecided' /\ Messages'
  BY <1>3, <1>5, DeliverSupplies
<1>6. ASSUME NEW w \in Workers, Ack(w) \/ Retry(w) \/ Crash(w) PROVE AckDecided' /\ Messages'
  BY <1>3, <1>6, EndSupplies
<1>7. ASSUME NEW w \in Workers, Expire(w) PROVE AckDecided' /\ Messages'
  BY <1>3, <1>7, ExpireSupplies
<1>8. ASSUME NEW w \in Workers, Invocation(w) PROVE AckDecided' /\ Messages'
  <2>1. CASE ~(Ack(w) \/ Retry(w))
    <3>1. AckDecided' /\ message' = message
      BY <1>1, <1>3, <1>8, <2>1, StepSupplies DEF Invocation
    <3> QED BY <1>0, <1>1, <1>3, <3>1, MessagesStay
  <2> QED BY <1>6, <2>1
<1> QED BY <1>4, <1>5, <1>6, <1>7, <1>8 DEF Next, Environment

(* While no call fails and no more invocations are lost than there are redeliveries to      *)
(* spare, an undecided submission has a message that will be delivered: for any number of   *)
(* workers, items and expiries, whatever the two budgets are.                               *)
THEOREM RedeliveryEnough == Spec => []RedeliveriesSuffice
<1>1. WorkerAssumption /\ Init => Held /\ PutOff /\ AbortFollows /\ Supplied
  <2> SUFFICES ASSUME WorkerAssumption, Init PROVE Held /\ PutOff /\ AbortFollows /\ Supplied
    OBVIOUS
  <2>1. Held
    BY DEF Init, Held, WorkerAssumption
  <2>2. PutOff /\ AbortFollows /\ AckDecided
    BY DEF Init, PutOff, AbortFollows, AckDecided
  <2>3. Lost = 0 /\ MAX_ATTEMPTS \in Nat \ {0}
    BY DEF Init, Lost, WorkerAssumption
  <2>4. Messages
    BY <2>3 DEF Init, Messages, Afforded
  <2> QED BY <2>1, <2>2, <2>4 DEF Supplied
<1>2. /\ WorkerAssumption /\ IInv /\ IInv' /\ Held /\ PutOff /\ AbortFollows /\ Supplied
      /\ [Next]_vars
      => Held' /\ PutOff' /\ AbortFollows' /\ Supplied'
  BY HeldStep, AbortStep, SuppliedStep
<1>3. IInv /\ Supplied => RedeliveriesSuffice
  <2> SUFFICES ASSUME IInv, Supplied, Spared, NEW i \in Items, submission[i] = "QUEUED"
               PROVE  message[i].status \in {"ready", "held"}
    BY DEF RedeliveriesSuffice, NoSubmissionStranded, Spared, Lost
  <2> QED BY MessageTyped DEF IInv, Supplied, Messages, Afforded, Decided
<1> QED BY <1>1, <1>2, <1>3, Invariance, WorkerAssumption, PTL DEF Spec

-----------------------------------------------------------------------------
(* One verdict an item.  While no delivery expires, whoever works on an item holds its       *)
(* message, so an item has one worker at a time; once it has a verdict, everything that can *)
(* still happen to it ends without another.                                                 *)

Unoverlapped ==
  /\ spent.expiries = 0
  /\ spent.faults = 0 \/ spent.faults + spent.crashes <= 1
  /\ "misconfigured" \in Deployments => spent.faults + spent.crashes <= 1

Troubled == spent.faults + spent.crashes >= 1

Holding == \A w \in Workers : pc[w] # "idle" => message[item[w]].holder = w

(* What the invocation that has a judged item may be doing: telling of the verdict, finding *)
(* it on a redelivery, giving up for good after a lost reply, or meeting a deployment that  *)
(* fails the item.                                                                          *)
Telling(w) == submission[item[w]] = "COMPLETED" /\ pc[w] \in {"audit", "record", "ack"}
Finding(w) ==
  /\ submission[item[w]] = "COMPLETED" /\ Troubled
  /\ pc[w] \in {"provider", "misconfigured", "abandoned", "settled", "defer", "retry", "ack"}
  /\ pc[w] = "misconfigured" => "misconfigured" \in Deployments
GivingUp(w) ==
  /\ spent.faults >= 1
  /\ pc[w] \in {"failItem", "failJob", "auditAbandoned", "abort",
                "fail", "auditFailed", "recordFailure", "ack"}
Misjudging(w) ==
  /\ "misconfigured" \in Deployments /\ Troubled
  /\ pc[w] \in {"recordMisconfigured", "ack"}

Closing(w) == Telling(w) \/ Finding(w) \/ GivingUp(w) \/ Misjudging(w)

Sealed(i) ==
  \/ message[i].status \in {"gone", "dead"}
  \/ message[i].status = "ready" /\ submission[i] = "COMPLETED" /\ Troubled
  \/ \E w \in Workers : message[i].holder = w /\ Closing(w)

JudgedOnce == \A i \in Items : verdicts[i] = 0 \/ (verdicts[i] = 1 /\ Sealed(i))

Once == Unoverlapped => Holding /\ JudgedOnce


LEMMA SpentIs ==
  ASSUME TypeOK
  PROVE  spent.faults \in Nat /\ spent.crashes \in Nat /\ spent.expiries \in Nat
BY DEF TypeOK

(* The items a step does not touch stay as they are. *)
LEMMA SealedElsewhere ==
  ASSUME IInv, Held, UsedUp, spent'.faults \in Nat, spent'.crashes \in Nat,
         NEW i \in Items, message'[i] = message[i],
         submission[i] = "COMPLETED" => submission'[i] = "COMPLETED",
         \A w \in Workers : message[i].holder = w =>
           pc'[w] = pc[w] /\ item'[w] = item[w] /\ attempt'[w] = attempt[w],
         Sealed(i)
  PROVE  Sealed(i)'
<1>0. /\ spent.faults \in Nat /\ spent.crashes \in Nat /\ (Troubled => Troubled')
      /\ (spent.faults >= 1 => spent'.faults >= 1)
  BY SpentIs DEF IInv, Troubled, UsedUp
<1>1. CASE message[i].status \in {"gone", "dead"}
  BY <1>1 DEF Sealed
<1>2. CASE message[i].status = "ready" /\ submission[i] = "COMPLETED" /\ Troubled
  BY <1>0, <1>2 DEF Sealed
<1>3. CASE \E w \in Workers : message[i].holder = w /\ Closing(w)
  <2>1. PICK w \in Workers : message[i].holder = w /\ Closing(w)
    BY <1>3
  <2>2. item[w] = i /\ item'[w] = i /\ pc'[w] = pc[w] /\ attempt'[w] = attempt[w]
    BY <2>1 DEF Held
  <2>3. Closing(w)'
    <3>1. Telling(w) => Telling(w)'
      BY <2>2 DEF Telling
    <3>2. Finding(w) => Finding(w)'
      BY <1>0, <2>2 DEF Finding
    <3>3. GivingUp(w) => GivingUp(w)'
      BY <1>0, <2>2 DEF GivingUp
    <3>4. Misjudging(w) => Misjudging(w)'
      BY <1>0, <2>2 DEF Misjudging
    <3> QED BY <2>1, <3>1, <3>2, <3>3, <3>4 DEF Closing
  <2>4. message'[i].holder = w
    BY <2>1
  <2> QED BY <2>3, <2>4 DEF Sealed
<1> QED BY <1>1, <1>2, <1>3 DEF Sealed

(* The one who holds an item's message knows whether it is sealed. *)
LEMMA HolderSealed ==
  ASSUME IInv, Held, Holding, NEW w \in Workers, pc[w] # "idle", Sealed(item[w])
  PROVE  Closing(w)
<1>1. item[w] \in Items /\ message[item[w]].holder = w
  BY DEF Holding, IInv, Owed
<1>2. message[item[w]].status = "held"
  BY <1>1 DEF Held
<1> QED BY <1>1, <1>2 DEF Sealed

(* What the fields of spent become. *)
LEMMA FaultSpent ==
  ASSUME TypeOK, spent' = [spent EXCEPT !.faults = @ + 1]
  PROVE  /\ spent'.faults = spent.faults + 1 /\ spent'.crashes = spent.crashes
         /\ spent'.faults >= 1 /\ Troubled'
BY DEF TypeOK, Troubled

LEMMA OnwardIs ==
  ASSUME TypeOK, NEW w \in Workers, NEW step, Onward(w, step)
  PROVE  /\ pc'[w] = step /\ item'[w] = item[w] /\ attempt'[w] = attempt[w]
         /\ message' = message
         /\ \A v \in Workers : item'[v] = item[v] /\ attempt'[v] = attempt[v]
         /\ \A v \in Workers : v # w => pc'[v] = pc[v]
BY DEF Onward, TypeOK

(* Where a fault leads. *)
LEMMA FallsAre ==
  ASSUME NEW w \in Workers, NEW step \in Falls(w)
  PROVE  /\ pc[w] \in Guarded => step \in {"failItem", "defer", "fail"}
         /\ pc[w] \notin Guarded => step \in {"ack", "retry"}
BY DEF Falls, CatchStep

(* What a judged item's invocation does next keeps it closing. *)
LEMMA ClosingMoves ==
  ASSUME WorkerAssumption, IInv, NEW w \in Workers, Closing(w), Unoverlapped', NEW next,
         Called(w, next),
         submission'[item[w]] = submission[item[w]]
           \/ (pc[w] \in {"misconfigured", "fail", "failItem", "failJob"}),
         \/ pc[w] \in {"audit", "record"} /\ next \in {"record", "ack"}
         \/ pc[w] = "misconfigured" /\ next = "recordMisconfigured"
         \/ pc[w] \in {"abandoned", "settled"} /\ next \in {"settled", "ack"}
         \/ pc[w] = "defer" /\ next = "retry"
         \/ /\ pc[w] \in {"failItem", "failJob", "auditAbandoned"}
            /\ next \in {"failJob", "auditAbandoned", "abort"}
         \/ pc[w] \in {"fail", "auditFailed"} /\ next \in {"auditFailed", "recordFailure"}
         \/ pc[w] \in {"abort", "recordFailure", "recordMisconfigured"} /\ next = "ack"
  PROVE  Closing(w)'
<1>0. TypeOK
  BY DEF IInv
<1>1. CASE Onward(w, next) /\ spent' = spent
  <2>1. pc'[w] = next /\ item'[w] = item[w]
    BY <1>0, <1>1, OnwardIs
  <2>2. Troubled => Troubled'
    BY <1>1 DEF Troubled
  <2>3. CASE pc[w] \in {"audit", "record"}
    <3>1. submission'[item[w]] = "COMPLETED"
      BY <2>3 DEF Closing, Telling, Finding, GivingUp, Misjudging
    <3> QED BY <2>1, <2>3, <3>1 DEF Closing, Telling
  <2>4. CASE pc[w] = "misconfigured"
    <3>1. "misconfigured" \in Deployments /\ Troubled
      BY <2>4 DEF Closing, Telling, Finding, GivingUp, Misjudging
    <3> QED BY <2>1, <2>2, <2>4, <3>1 DEF Closing, Misjudging
  <2>5. CASE pc[w] \in {"abandoned", "settled", "defer"}
    <3>1. submission'[item[w]] = "COMPLETED" /\ Troubled
      BY <2>5 DEF Closing, Telling, Finding, GivingUp, Misjudging
    <3> QED BY <2>1, <2>2, <2>5, <3>1 DEF Closing, Finding
  <2>6. CASE pc[w] \in {"failItem", "failJob", "auditAbandoned", "abort",
                        "fail", "auditFailed", "recordFailure"}
    <3>1. spent.faults >= 1
      BY <2>6 DEF Closing, Telling, Finding, GivingUp, Misjudging
    <3> QED BY <1>1, <2>1, <2>6, <3>1 DEF Closing, GivingUp
  <2>7. CASE pc[w] = "recordMisconfigured"
    <3>1. "misconfigured" \in Deployments /\ Troubled
      BY <2>7 DEF Closing, Telling, Finding, GivingUp, Misjudging
    <3> QED BY <2>1, <2>2, <2>7, <3>1 DEF Closing, Misjudging
  <2> QED BY <2>3, <2>4, <2>5, <2>6, <2>7
<1>2. CASE Thrown(w) /\ spent' = [spent EXCEPT !.faults = @ + 1]
  <2>1. PICK step \in Falls(w) : Onward(w, step)
    BY <1>2 DEF Thrown
  <2>2. pc'[w] = step /\ item'[w] = item[w]
    BY <1>0, <2>1, OnwardIs
  <2>3. /\ spent'.faults = spent.faults + 1 /\ spent'.crashes = spent.crashes
        /\ spent'.faults >= 1 /\ Troubled'
    BY <1>0, <1>2, FaultSpent
  <2>4. spent.faults = 0 /\ ~("misconfigured" \in Deployments /\ Troubled)
    BY <1>0, <2>3, SpentIs DEF Unoverlapped, Troubled
  <2>5. CASE pc[w] \in {"audit", "record"}
    <3>1. submission'[item[w]] = "COMPLETED"
      BY <2>5 DEF Closing, Telling, Finding, GivingUp, Misjudging
    <3>2. step \in {"failItem", "defer", "fail"}
      BY <2>5, FallsAre DEF Guarded
    <3> QED BY <2>2, <2>3, <3>1, <3>2 DEF Closing, Finding, GivingUp
  <2>6. CASE pc[w] \in {"abandoned", "settled", "defer"}
    <3>1. submission'[item[w]] = "COMPLETED"
      BY <2>6 DEF Closing, Telling, Finding, GivingUp, Misjudging
    <3>2. step \in {"ack", "retry"}
      BY <2>6, FallsAre DEF Guarded
    <3> QED BY <2>2, <2>3, <3>1, <3>2 DEF Closing, Finding
  <2>7. CASE pc[w] \notin {"audit", "record", "abandoned", "settled", "defer"}
    BY <2>4, <2>7 DEF Closing, Telling, Finding, GivingUp, Misjudging
  <2> QED BY <2>5, <2>6, <2>7
<1> QED BY <1>1, <1>2 DEF Called

LEMMA ClosingStep ==
  ASSUME WorkerAssumption, IInv, NEW w \in Workers, Closing(w), Unoverlapped',
         \/ BuildProvider(w) \/ CheckAbandoned(w) \/ CheckSettled(w) \/ Start(w)
         \/ ReadStaged(w) \/ Rasterise(w) \/ Extract(w) \/ StoreCrop(w)
         \/ RecordMisconfigured(w) \/ Record(w) \/ AuditAbandoned(w) \/ AbandonJob(w)
         \/ Defer(w) \/ AuditFailed(w) \/ RecordFailed(w)
         \/ FailMisconfigured(w) \/ FailItem(w) \/ FailJob(w) \/ Fail(w) \/ Audit(w) \/ Persist(w)
  PROVE  Closing(w)' /\ verdicts' = verdicts /\ message' = message
<1>0. TypeOK
  BY DEF IInv
<1>1. pc[w] \in {"provider", "misconfigured", "recordMisconfigured", "abandoned", "settled",
                 "audit", "record", "defer", "failItem", "failJob", "auditAbandoned", "abort",
                 "fail", "auditFailed", "recordFailure", "retry", "ack"}
  BY DEF Closing, Telling, Finding, GivingUp, Misjudging
<1>2. ~(\/ Start(w) \/ ReadStaged(w) \/ Rasterise(w) \/ Extract(w) \/ StoreCrop(w) \/ Persist(w))
  BY <1>0, <1>1, Before, Reports, WritesD1
<1>3. ASSUME NEW next, Called(w, next) PROVE message' = message
  BY <1>3 DEF Called, Thrown, Onward
<1>4. CASE BuildProvider(w)
  <2>1. /\ pc[w] = "provider" /\ UNCHANGED durable /\ spent' = spent
        /\ \/ Onward(w, "ack")
           \/ Onward(w, "misconfigured") /\ "misconfigured" \in Deployments
           \/ Onward(w, "abandoned")
    BY <1>0, <1>4, Before
  <2>2. submission[item[w]] = "COMPLETED" /\ Troubled
    BY <2>1 DEF Closing, Telling, Finding, GivingUp, Misjudging
  <2>3. item'[w] = item[w] /\ message' = message /\ submission' = submission /\ verdicts' = verdicts
    BY <1>0, <2>1, OnwardIs DEF durable
  <2>4. /\ pc'[w] \in {"ack", "misconfigured", "abandoned"}
        /\ pc'[w] = "misconfigured" => "misconfigured" \in Deployments
    BY <1>0, <2>1, OnwardIs
  <2>5. submission'[item'[w]] = "COMPLETED" /\ Troubled'
    BY <2>1, <2>2, <2>3 DEF Troubled
  <2>6. Finding(w)'
    BY <2>4, <2>5 DEF Finding
  <2> QED BY <2>3, <2>6 DEF Closing
<1>5. CASE CheckAbandoned(w)
  <2>1. pc[w] = "abandoned" /\ UNCHANGED durable /\ \E next \in {"settled", "ack"} : Called(w, next)
    BY <1>0, <1>5, Before
  <2> QED BY <1>3, <2>1, ClosingMoves DEF durable
<1>6. CASE CheckSettled(w)
  <2>1. /\ pc[w] = "settled" /\ UNCHANGED durable
        /\ Called(w, IF isAlreadySettled(submission[item[w]]) THEN "ack" ELSE "start")
    BY <1>0, <1>6, Before
  <2>2. isAlreadySettled(submission[item[w]])
    BY <2>1 DEF Closing, Telling, Finding, GivingUp, Misjudging, isAlreadySettled
  <2> QED BY <1>3, <2>1, <2>2, ClosingMoves DEF durable
<1>7. CASE \/ RecordMisconfigured(w) \/ Record(w) \/ AuditAbandoned(w) \/ AbandonJob(w)
           \/ Defer(w) \/ AuditFailed(w) \/ RecordFailed(w)
  <2>1. /\ UNCHANGED durable
        /\ \E next : /\ Called(w, next)
                     /\ \/ pc[w] = "record" /\ next = "ack"
                        \/ pc[w] = "defer" /\ next = "retry"
                        \/ pc[w] = "auditAbandoned" /\ next = "abort"
                        \/ pc[w] = "auditFailed" /\ next = "recordFailure"
                        \/ /\ pc[w] \in {"abort", "recordFailure", "recordMisconfigured"}
                           /\ next = "ack"
    BY <1>7, Reports
  <2> QED BY <1>3, <2>1, ClosingMoves DEF durable
<1>8. CASE FailMisconfigured(w) \/ FailItem(w) \/ FailJob(w) \/ Fail(w)
  <2>1. /\ verdicts' = verdicts
        /\ \/ pc[w] = "misconfigured" /\ Called(w, "recordMisconfigured")
           \/ pc[w] = "failItem" /\ Called(w, "failJob")
           \/ pc[w] = "failJob" /\ Called(w, "auditAbandoned")
           \/ pc[w] = "fail" /\ Called(w, "auditFailed")
    BY <1>8, WritesD1
  <2> QED BY <1>3, <2>1, ClosingMoves
<1>9. CASE Audit(w)
  <2>1. pc[w] = "audit" /\ UNCHANGED <<submission, verdicts>> /\ Called(w, "record")
    BY <1>9, WritesD1
  <2> QED BY <1>3, <2>1, ClosingMoves
<1> QED BY <1>2, <1>4, <1>5, <1>6, <1>7, <1>8, <1>9

(* A submission that is COMPLETED stays so, unless the invocation that has it fails it. *)
LEMMA CompletedStays ==
  ASSUME IInv, NEW i \in Items, submission[i] = "COMPLETED",
         \/ UNCHANGED submission
         \/ FailPending
         \/ \E j, s : j # i /\ submission' = [submission EXCEPT ![j] = s]
  PROVE  submission'[i] = "COMPLETED"
BY DEF IInv, TypeOK, FailPending


(* A step of an invocation concerns its own item only. *)
LEMMA OwnItem ==
  ASSUME WorkerAssumption, IInv, NEW w \in Workers,
         \/ BuildProvider(w) \/ CheckAbandoned(w) \/ CheckSettled(w) \/ Start(w)
         \/ ReadStaged(w) \/ Rasterise(w) \/ Extract(w) \/ StoreCrop(w)
         \/ RecordMisconfigured(w) \/ Record(w) \/ AuditAbandoned(w) \/ AbandonJob(w)
         \/ Defer(w) \/ AuditFailed(w) \/ RecordFailed(w)
         \/ FailMisconfigured(w) \/ FailItem(w) \/ FailJob(w) \/ Fail(w) \/ Audit(w) \/ Persist(w)
  PROVE  /\ pc[w] # "idle" /\ item[w] \in Items
         /\ \E step : step # "idle" /\ Onward(w, step)
         /\ \A j \in Items : j # item[w] =>
              /\ verdicts'[j] = verdicts[j]
              /\ submission[j] = "COMPLETED" => submission'[j] = "COMPLETED"
         /\ ~Persist(w) => verdicts' = verdicts
<1>0. TypeOK
  BY DEF IInv
<1>1. ASSUME NEW next, next # "idle", Called(w, next) \/ Stumbled(w)
      PROVE  \E step : step # "idle" /\ Onward(w, step)
  BY <1>0, <1>1, FallPutsOff DEF Called, Thrown, Stumbled
<1>2. CASE \/ BuildProvider(w) \/ CheckAbandoned(w) \/ CheckSettled(w) \/ Start(w)
           \/ ReadStaged(w) \/ Rasterise(w) \/ Extract(w) \/ StoreCrop(w)
  <2>1. pc[w] # "idle" /\ UNCHANGED durable
    BY <1>0, <1>2, Before
  <2>2. \E step : step # "idle" /\ Onward(w, step)
    <3>1. \/ \E next : next # "idle" /\ (Called(w, next) \/ Stumbled(w))
          \/ \E next : next # "idle" /\ Onward(w, next)
      BY <1>0, <1>2, Before
    <3> QED BY <1>1, <3>1
  <2> QED BY <2>1, <2>2 DEF durable, IInv, Owed
<1>3. CASE \/ RecordMisconfigured(w) \/ Record(w) \/ AuditAbandoned(w) \/ AbandonJob(w)
           \/ Defer(w) \/ AuditFailed(w) \/ RecordFailed(w)
  <2>1. pc[w] # "idle" /\ UNCHANGED durable /\ \E next : next # "idle" /\ Called(w, next)
    BY <1>3, Reports
  <2> QED BY <1>1, <2>1 DEF durable, IInv, Owed
<1>4. CASE FailMisconfigured(w) \/ FailItem(w) \/ FailJob(w) \/ Fail(w) \/ Audit(w)
  <2>1. pc[w] # "idle" /\ verdicts' = verdicts /\ \E next : next # "idle" /\ Called(w, next)
    BY <1>4, WritesD1
  <2>2. item[w] \in Items
    BY <2>1 DEF IInv, Owed
  <2>3. ASSUME NEW j \in Items, j # item[w], submission[j] = "COMPLETED"
        PROVE  submission'[j] = "COMPLETED"
    <3>1. \/ UNCHANGED submission
          \/ FailPending
          \/ \E k, s : k # j /\ submission' = [submission EXCEPT ![k] = s]
      <4>1. CASE FailMisconfigured(w) \/ FailItem(w) \/ FailJob(w) \/ Audit(w)
        BY <2>3, <4>1, WritesD1
      <4>2. CASE Fail(w)
        BY <2>3, <4>2, WritesD1
      <4> QED BY <1>4, <4>1, <4>2
    <3> QED BY <2>3, <3>1, CompletedStays
  <2> QED BY <1>1, <2>1, <2>2, <2>3
<1>5. CASE Persist(w)
  <2>1. /\ pc[w] = "persist"
        /\ \/ /\ verdicts' = [verdicts EXCEPT ![item[w]] = @ + 1]
              /\ submission' = [submission EXCEPT ![item[w]] = "COMPLETED"]
              /\ Called(w, "audit")
           \/ UNCHANGED <<verdicts, submission>> /\ Thrown(w)
    BY <1>5, WritesD1
  <2>2. item[w] \in Items
    BY <2>1 DEF IInv, Owed
  <2>3. \E step : step # "idle" /\ Onward(w, step)
    BY <1>0, <1>1, <2>1, FallPutsOff DEF Thrown
  <2>4. \A j \in Items : j # item[w] => verdicts'[j] = verdicts[j] /\ submission'[j] = submission[j]
    BY <1>0, <2>1 DEF TypeOK
  <2> QED BY <1>5, <2>1, <2>2, <2>3, <2>4
<1> QED BY <1>2, <1>3, <1>4, <1>5

(* The first verdict seals its item at once. *)
LEMMA PersistCloses ==
  ASSUME WorkerAssumption, IInv, NEW w \in Workers, Persist(w)
  PROVE  \/ verdicts' = verdicts
         \/ verdicts'[item[w]] = verdicts[item[w]] + 1 /\ Closing(w)'
<1>0. TypeOK /\ pc[w] = "persist" /\ item[w] \in Items
  BY WritesD1 DEF IInv, Owed
<1>1. CASE UNCHANGED <<verdicts, submission>>
  BY <1>1
<1>2. CASE /\ verdicts' = [verdicts EXCEPT ![item[w]] = @ + 1]
           /\ submission' = [submission EXCEPT ![item[w]] = "COMPLETED"]
           /\ Called(w, "audit")
  <2>1. verdicts'[item[w]] = verdicts[item[w]] + 1 /\ submission'[item[w]] = "COMPLETED"
    BY <1>0, <1>2 DEF TypeOK
  <2>2. CASE Onward(w, "audit")
    <3>1. pc'[w] = "audit" /\ item'[w] = item[w]
      BY <1>0, <2>2, OnwardIs
    <3> QED BY <2>1, <3>1 DEF Closing, Telling
  <2>3. CASE Thrown(w) /\ spent' = [spent EXCEPT !.faults = @ + 1]
    <3>1. PICK step \in Falls(w) : Onward(w, step)
      BY <2>3 DEF Thrown
    <3>2. pc'[w] = step /\ item'[w] = item[w]
      BY <1>0, <3>1, OnwardIs
    <3>3. spent'.faults >= 1 /\ Troubled'
      BY <1>0, <2>3, FaultSpent
    <3>4. step \in {"failItem", "defer", "fail"}
      BY <1>0, <3>1, FallsAre DEF Guarded
    <3> QED BY <2>1, <3>2, <3>3, <3>4 DEF Closing, Finding, GivingUp
  <2> QED BY <1>2, <2>1, <2>2, <2>3 DEF Called
<1> QED BY <1>1, <1>2, WritesD1

LEMMA OnceInvocation ==
  ASSUME WorkerAssumption, IInv, Held, Holding, JudgedOnce, UsedUp, Unoverlapped', IInv',
         NEW w \in Workers, Invocation(w), ~Ack(w), ~Retry(w)
  PROVE  Holding' /\ JudgedOnce'
<1>0. TypeOK /\ spent'.faults \in Nat /\ spent'.crashes \in Nat
  BY DEF IInv, TypeOK
<1>1. /\ pc[w] # "idle" /\ item[w] \in Items
      /\ \A j \in Items : j # item[w] =>
           /\ verdicts'[j] = verdicts[j]
           /\ submission[j] = "COMPLETED" => submission'[j] = "COMPLETED"
      /\ ~Persist(w) => verdicts' = verdicts
  BY OwnItem DEF Invocation
<1>2. PICK step : step # "idle" /\ Onward(w, step)
  BY OwnItem DEF Invocation
<1>3. /\ message' = message /\ pc'[w] # "idle"
      /\ \A v \in Workers : item'[v] = item[v] /\ attempt'[v] = attempt[v]
      /\ \A v \in Workers : v # w => pc'[v] = pc[v]
  BY <1>0, <1>2, OnwardIs
<1>4. Holding'
  BY <1>1, <1>3 DEF Holding
<1>5. ASSUME NEW j \in Items
      PROVE  verdicts'[j] = 0 \/ (verdicts'[j] = 1 /\ Sealed(j)')
  <2>1. CASE j # item[w]
    <3>1. \A v \in Workers : message[j].holder = v =>
            pc'[v] = pc[v] /\ item'[v] = item[v] /\ attempt'[v] = attempt[v]
      BY <1>3, <2>1 DEF Held
    <3>2. message'[j] = message[j]
      BY <1>3
    <3>3. Sealed(j) => Sealed(j)'
      BY <1>0, <1>1, <2>1, <3>1, <3>2, SealedElsewhere
    <3> QED BY <1>1, <2>1, <3>3 DEF JudgedOnce
  <2>2. CASE j = item[w]
    <3>1. message'[j].holder = w
      BY <1>1, <1>3, <2>2 DEF Holding
    <3>2. Closing(w)' => Sealed(j)'
      BY <3>1 DEF Sealed
    <3>3. CASE verdicts[j] = 0
      BY <1>1, <2>2, <3>2, <3>3, PersistCloses
    <3>4. CASE verdicts[j] = 1 /\ Sealed(j)
      <4>1. Closing(w)
        BY <1>1, <2>2, <3>4, HolderSealed
      <4>2. Closing(w)' /\ verdicts' = verdicts
        BY <4>1, ClosingStep DEF Invocation
      <4> QED BY <3>2, <3>4, <4>2
    <3> QED BY <3>3, <3>4 DEF JudgedOnce
  <2> QED BY <2>1, <2>2
<1> QED BY <1>4, <1>5 DEF JudgedOnce


LEMMA OnceDeliver ==
  ASSUME WorkerAssumption, IInv, IInv', Held, Holding, JudgedOnce, UsedUp, NEW w \in Workers,
         NEW i \in Items, Deliver(w, i)
  PROVE  Holding' /\ JudgedOnce'
<1>0. TypeOK /\ spent'.faults \in Nat /\ spent'.crashes \in Nat
  BY DEF IInv, TypeOK
<1>1. /\ \A j \in Items : message[j].status # "held"
      /\ message'[i].holder = w /\ message[i].status = "ready" /\ pc[w] = "idle"
      /\ pc'[w] = "provider" /\ item'[w] = i /\ spent' = spent
  <2>1. message'[i] = [status |-> "held", attempts |-> message[i].attempts + 1, holder |-> w]
    BY <1>0 DEF Deliver, TypeOK
  <2>2. message'[i].holder = w
    BY <2>1
  <2> QED BY <1>0, <2>2 DEF Deliver, TypeOK
<1>2. /\ \A j \in Items : j # i => message'[j] = message[j]
      /\ UNCHANGED durable
  BY <1>0 DEF Deliver, TypeOK
<1>3. \A v \in Workers : v # w => pc'[v] = pc[v] /\ item'[v] = item[v] /\ attempt'[v] = attempt[v]
  BY <1>0 DEF Deliver, TypeOK
<1>4. \A j \in Items, v \in Workers : message[j].holder # v
  BY <1>1 DEF Held
<1>5. \A v \in Workers : pc[v] = "idle"
  BY <1>4 DEF Holding, IInv, Owed
<1>6. Holding'
  BY <1>1, <1>3, <1>5 DEF Holding
<1>7. ASSUME NEW j \in Items
      PROVE  verdicts'[j] = 0 \/ (verdicts'[j] = 1 /\ Sealed(j)')
  <2>1. CASE j # i
    <3>1. Sealed(j) => Sealed(j)'
      BY <1>0, <1>2, <1>4, <2>1, SealedElsewhere DEF durable
    <3> QED BY <1>2, <3>1 DEF JudgedOnce, durable
  <2>2. CASE j = i
    <3>1. Sealed(i) => submission[i] = "COMPLETED" /\ Troubled
      BY <1>1, <1>4 DEF Sealed
    <3>2. submission[i] = "COMPLETED" /\ Troubled => Finding(w)'
      BY <1>1, <1>2 DEF Finding, Troubled, durable
    <3>3. Finding(w)' => Sealed(i)'
      BY <1>1 DEF Sealed, Closing
    <3> QED BY <1>2, <2>2, <3>1, <3>2, <3>3 DEF JudgedOnce, durable
  <2> QED BY <2>1, <2>2
<1> QED BY <1>6, <1>7 DEF JudgedOnce

(* An invocation ends with its item sealed, if it was judged. *)
LEMMA EndSeals ==
  ASSUME WorkerAssumption, IInv, Held, Holding, Unoverlapped', NEW w \in Workers,
         NEW outcome, Release(w, outcome),
         \/ Ack(w) /\ outcome = [message[item[w]] EXCEPT !.status = "gone", !.holder = None]
         \/ Retry(w) /\ outcome = Returned(message[item[w]])
         \/ Crash(w) /\ outcome = Returned(message[item[w]]),
         Closing(w)
  PROVE  \A i \in Items : i = item[w] => Sealed(i)'
<1>0. TypeOK /\ pc[w] # "idle" /\ item[w] \in Items
  BY DEF IInv, Owed, Ack, Retry, Crash
<1> SUFFICES ASSUME NEW i \in Items, i = item[w] PROVE Sealed(i)'
  OBVIOUS
<1>1. i = item[w] /\ message[i].holder = w /\ message[i] \in MessageType
  BY <1>0 DEF Holding, TypeOK, MessageType
<1>2. message'[i] = outcome /\ submission' = submission
  BY <1>0, <1>1 DEF Release, TypeOK, durable
<1>3. CASE Ack(w) /\ outcome = [message[item[w]] EXCEPT !.status = "gone", !.holder = None]
  <2>1. outcome.status = "gone"
    BY <1>1, <1>3 DEF MessageType
  <2> QED BY <1>2, <2>1 DEF Sealed
<1>4. CASE (Retry(w) \/ Crash(w)) /\ outcome = Returned(message[item[w]])
  <2>1. outcome.status \in {"dead", "ready"}
    BY <1>1, <1>4, ReturnedIs
  <2>2. submission[i] = "COMPLETED" /\ Troubled'
    <3>1. CASE Retry(w)
      <4>1. pc[w] = "retry" /\ spent' = spent
        BY <3>1 DEF Retry
      <4> QED BY <1>1, <4>1 DEF Closing, Telling, Finding, GivingUp, Misjudging, Troubled
    <3>2. CASE Crash(w)
      <4>1. /\ spent'.crashes = spent.crashes + 1 /\ spent'.faults = spent.faults
            /\ spent.crashes \in Nat /\ spent.faults \in Nat
        BY <1>0, <3>2 DEF Crash, TypeOK
      <4>2. Troubled'
        BY <4>1 DEF Troubled
      <4>3. ~GivingUp(w)
        BY <4>1 DEF GivingUp, Unoverlapped
      <4>4. ~Misjudging(w)
        BY <4>1 DEF Misjudging, Unoverlapped, Troubled
      <4> QED BY <1>1, <4>2, <4>3, <4>4 DEF Closing, Telling, Finding
    <3> QED BY <1>4, <3>1, <3>2
  <2> QED BY <1>2, <2>1, <2>2 DEF Sealed
<1> QED BY <1>3, <1>4


LEMMA OnceEnd ==
  ASSUME WorkerAssumption, IInv, IInv', Held, Holding, JudgedOnce, UsedUp, Unoverlapped',
         NEW w \in Workers, Ack(w) \/ Retry(w) \/ Crash(w)
  PROVE  Holding' /\ JudgedOnce'
<1>0. TypeOK /\ spent'.faults \in Nat /\ spent'.crashes \in Nat
  BY DEF IInv, TypeOK
<1>1. pc[w] # "idle" /\ item[w] \in Items /\ message[item[w]].holder = w
  BY DEF Ack, Retry, Crash, IInv, Owed, Holding
<1>2. PICK outcome :
        /\ Release(w, outcome)
        /\ \/ Ack(w) /\ outcome = [message[item[w]] EXCEPT !.status = "gone", !.holder = None]
           \/ Retry(w) /\ outcome = Returned(message[item[w]])
           \/ Crash(w) /\ outcome = Returned(message[item[w]])
  BY DEF Ack, Retry, Crash
<1>3. /\ pc'[w] = "idle" /\ UNCHANGED durable
      /\ \A v \in Workers : v # w => pc'[v] = pc[v] /\ item'[v] = item[v] /\ attempt'[v] = attempt[v]
      /\ \A j \in Items : j # item[w] => message'[j] = message[j]
  BY <1>0, <1>2 DEF Release, TypeOK
<1>4. Holding'
  <2> SUFFICES ASSUME NEW v \in Workers, pc'[v] # "idle" PROVE message'[item'[v]].holder = v
    BY DEF Holding
  <2>1. v # w /\ pc[v] # "idle" /\ item'[v] = item[v]
    BY <1>3
  <2>2. message[item[v]].holder = v /\ item[v] \in Items
    BY <2>1 DEF Holding, IInv, Owed
  <2>3. item[v] # item[w]
    BY <1>1, <2>1, <2>2
  <2> QED BY <1>3, <2>1, <2>2, <2>3
<1>5. ASSUME NEW j \in Items
      PROVE  verdicts'[j] = 0 \/ (verdicts'[j] = 1 /\ Sealed(j)')
  <2>1. CASE j # item[w]
    <3>1. \A v \in Workers : message[j].holder = v =>
            pc'[v] = pc[v] /\ item'[v] = item[v] /\ attempt'[v] = attempt[v]
      BY <1>3, <2>1 DEF Held
    <3>2. Sealed(j) => Sealed(j)'
      BY <1>0, <1>3, <2>1, <3>1, SealedElsewhere DEF durable
    <3> QED BY <1>3, <3>2 DEF JudgedOnce, durable
  <2>2. CASE j = item[w]
    <3>1. Sealed(j) => Closing(w)
      BY <1>1, <2>2, HolderSealed
    <3>2. Closing(w) => Sealed(j)'
      BY <1>2, <2>2, EndSeals
    <3> QED BY <1>3, <3>1, <3>2 DEF JudgedOnce, durable
  <2> QED BY <2>1, <2>2
<1> QED BY <1>4, <1>5 DEF JudgedOnce

LEMMA OnceStep ==
  ASSUME WorkerAssumption, IInv, IInv', Held, Once, [Next]_vars
  PROVE  Once'
<1> SUFFICES ASSUME Unoverlapped' PROVE Holding' /\ JudgedOnce'
  BY DEF Once
<1>0. /\ TypeOK /\ UsedUp /\ spent.faults \in Nat /\ spent.crashes \in Nat /\ spent.expiries \in Nat
      /\ spent'.faults \in Nat /\ spent'.crashes \in Nat
  BY SpentGrows, SpentIs DEF IInv, TypeOK
<1>1. Unoverlapped
  BY <1>0 DEF Unoverlapped, UsedUp
<1>2. Holding /\ JudgedOnce
  BY <1>1 DEF Once
<1>3. CASE UNCHANGED vars \/ PressReset \/ ResetRecord \/ ResetLedger
  <2>1. UNCHANGED <<pc, item, attempt, message, verdicts>> /\ (submission' = submission \/ FailPending)
    BY <1>3 DEF vars, PressReset, ResetRecord, ResetLedger, Resets, FailPending, durable,
                workerVars, locals
  <2>2. \A j \in Items : submission[j] = "COMPLETED" => submission'[j] = "COMPLETED"
    BY <2>1, CompletedStays
  <2>3. \A j \in Items : Sealed(j) => Sealed(j)'
    BY <1>0, <2>1, <2>2, SealedElsewhere
  <2> QED BY <1>2, <2>1, <2>3 DEF Holding, JudgedOnce
<1>4. ASSUME NEW w \in Workers, NEW i \in Items, Deliver(w, i) PROVE Holding' /\ JudgedOnce'
  BY <1>0, <1>2, <1>4, OnceDeliver
<1>5. ASSUME NEW w \in Workers, Ack(w) \/ Retry(w) \/ Crash(w) PROVE Holding' /\ JudgedOnce'
  BY <1>0, <1>2, <1>5, OnceEnd
<1>6. ASSUME NEW w \in Workers, Expire(w) PROVE FALSE
  <2>1. spent'.expiries = spent.expiries + 1
    BY <1>0, <1>6 DEF Expire, TypeOK
  <2> QED BY <1>0, <2>1 DEF Unoverlapped
<1>7. ASSUME NEW w \in Workers, Invocation(w) PROVE Holding' /\ JudgedOnce'
  BY <1>0, <1>2, <1>5, <1>7, OnceInvocation
<1> QED BY <1>3, <1>4, <1>5, <1>6, <1>7 DEF Next, Environment

(* No redelivery, reset, throwing call or number of lost invocations gives a submission a   *)
(* second verdict by itself: it takes two invocations at once, a throwing call and another  *)
(* loss, or a misconfigured deployment between two losses.                                  *)
THEOREM JudgedOnlyOnce == Spec => []OneVerdictUnlessOverlap
<1>1. WorkerAssumption /\ Init => Held /\ PutOff /\ Once
  <2> SUFFICES ASSUME WorkerAssumption, Init PROVE Held /\ PutOff /\ Once
    OBVIOUS
  <2>1. Held
    BY DEF Init, Held, WorkerAssumption
  <2>2. PutOff /\ Holding /\ JudgedOnce
    BY DEF Init, PutOff, Holding, JudgedOnce
  <2> QED BY <2>1, <2>2 DEF Once
<1>2. /\ WorkerAssumption /\ IInv /\ IInv' /\ Held /\ PutOff /\ Once /\ [Next]_vars
      => Held' /\ PutOff' /\ Once'
  BY HeldStep, OnceStep
<1>3. IInv /\ Once => OneVerdictUnlessOverlap
  <2> SUFFICES ASSUME Once, Unoverlapped, NEW i \in Items PROVE verdicts[i] <= 1
    BY DEF OneVerdictUnlessOverlap, OneVerdict, Unoverlapped
  <2>1. verdicts[i] \in {0, 1}
    BY DEF Once, JudgedOnce
  <2> QED BY <2>1
<1> QED BY <1>1, <1>2, <1>3, Invariance, WorkerAssumption, PTL DEF Spec

-----------------------------------------------------------------------------
(* What makes the queue drain.  That it does needs the fairness of the schedule and is      *)
(* checked, not proved; that nothing can keep it busy is proved: a message is delivered at   *)
(* most once more than it may be redelivered, and an invocation never goes back.             *)

Delivered ==
  \A i \in Items :
    /\ message[i].attempts <= MaxRetries + 1
    /\ message[i].status = "ready" => message[i].attempts <= MaxRetries

(* The queue only counts up, and does not give back what it has let go. *)
CountsUp ==
  \A i \in Items :
    /\ message'[i].attempts >= message[i].attempts
    /\ message'[i].status = "held" /\ message'[i] # message[i] =>
         message'[i].attempts = message[i].attempts + 1
    /\ message[i].status \in {"gone", "dead"} => message'[i] = message[i]

(* How far along a step is. *)
Rank(step) ==
  CASE step = "provider" -> 0
    [] step \in {"misconfigured", "abandoned"} -> 1
    [] step \in {"recordMisconfigured", "settled"} -> 2
    [] step = "start" -> 3
    [] step = "stage" -> 4
    [] step = "rasterise" -> 5
    [] step = "extract" -> 6
    [] step = "crop" -> 7
    [] step = "persist" -> 8
    [] step = "audit" -> 9
    [] step = "record" -> 10
    [] step \in {"failItem", "defer", "fail"} -> 11
    [] step \in {"failJob", "auditFailed"} -> 12
    [] step \in {"auditAbandoned", "recordFailure"} -> 13
    [] step = "abort" -> 14
    [] OTHER -> 15

(* An invocation that moves ends, goes on to a later step, or launches the browser again    *)
(* with launches left.                                                                      *)
GoesOn(w) ==
  \/ UNCHANGED <<pc[w], item[w], attempt[w], launches[w]>>
  \/ pc'[w] = "idle"
  \/ pc[w] = "idle" /\ pc'[w] = "provider"
  \/ pc[w] # "idle" /\ pc'[w] \in Steps \ {"idle"} /\ Rank(pc'[w]) > Rank(pc[w])
  \/ /\ pc[w] = "rasterise" /\ pc'[w] = "rasterise"
     /\ launches'[w] = launches[w] + 1 /\ launches'[w] < MAX_ATTEMPTS


(* What one step does to the messages. *)
LEMMA QueueStep ==
  ASSUME WorkerAssumption, IInv, Held, [Next]_vars, NEW i \in Items
  PROVE  \/ message'[i] = message[i]
         \/ /\ message[i].status = "ready" /\ message'[i].status = "held"
            /\ message'[i].attempts = message[i].attempts + 1
         \/ /\ message[i].status = "held" /\ message'[i].status = "gone"
            /\ message'[i].attempts = message[i].attempts
         \/ message[i].status = "held" /\ message'[i] = Returned(message[i])
<1>0. TypeOK /\ message[i] \in MessageType
  BY DEF IInv, TypeOK, MessageType
<1>1. ASSUME message' = message PROVE message'[i] = message[i]
  BY <1>1
<1>2. CASE UNCHANGED vars \/ PressReset \/ ResetRecord \/ ResetLedger
  BY <1>1, <1>2 DEF vars, PressReset, ResetRecord, ResetLedger, Resets
<1>3. ASSUME NEW w \in Workers, NEW j \in Items, Deliver(w, j)
      PROVE  \/ message'[i] = message[i]
             \/ /\ message[i].status = "ready" /\ message'[i].status = "held"
                /\ message'[i].attempts = message[i].attempts + 1
  <2>1. /\ message[j].status = "ready"
        /\ message' = [message EXCEPT ![j] = [status |-> "held",
                                              attempts |-> message[j].attempts + 1, holder |-> w]]
    BY <1>3 DEF Deliver
  <2>2. CASE i = j
    <3>1. message'[i] = [status |-> "held", attempts |-> message[i].attempts + 1, holder |-> w]
      BY <1>0, <2>1, <2>2 DEF TypeOK
    <3> QED BY <2>1, <2>2, <3>1
  <2>3. CASE i # j
    BY <1>0, <2>1, <2>3 DEF TypeOK
  <2> QED BY <2>2, <2>3
<1>4. ASSUME NEW w \in Workers, Ack(w)
      PROVE  \/ message'[i] = message[i]
             \/ /\ message[i].status = "held" /\ message'[i].status = "gone"
                /\ message'[i].attempts = message[i].attempts
  <2>1. PICK outcome : /\ outcome = [message[item[w]] EXCEPT !.status = "gone", !.holder = None]
                       /\ Release(w, outcome)
    BY <1>4 DEF Ack
  <2>2. message' = [message EXCEPT ![item[w]] = IF message[item[w]].holder = w THEN outcome
                                                ELSE message[item[w]]]
    BY <2>1 DEF Release
  <2>3. CASE i = item[w] /\ message[i].holder = w
    <3>1. message'[i] = outcome
      BY <1>0, <2>2, <2>3 DEF TypeOK
    <3>2. outcome.status = "gone" /\ outcome.attempts = message[i].attempts
      BY <1>0, <2>1, <2>3 DEF MessageType
    <3>3. message[i].status = "held"
      BY <2>3 DEF Held
    <3> QED BY <3>1, <3>2, <3>3
  <2>4. CASE ~(i = item[w] /\ message[i].holder = w)
    BY <1>0, <2>2, <2>4 DEF TypeOK
  <2> QED BY <2>3, <2>4
<1>5. ASSUME NEW w \in Workers, Retry(w) \/ Crash(w) \/ Expire(w)
      PROVE  \/ message'[i] = message[i]
             \/ message[i].status = "held" /\ message'[i] = Returned(message[i])
  <2>1. message' = [message EXCEPT ![item[w]] =
                      IF message[item[w]].holder = w THEN Returned(message[item[w]])
                      ELSE message[item[w]]]
    BY <1>5 DEF Retry, Crash, Expire, Release
  <2>2. CASE i = item[w] /\ message[i].holder = w
    BY <1>0, <2>1, <2>2 DEF TypeOK, Held
  <2>3. CASE ~(i = item[w] /\ message[i].holder = w)
    BY <1>0, <2>1, <2>3 DEF TypeOK
  <2> QED BY <2>2, <2>3
<1>6. ASSUME NEW w \in Workers, Invocation(w), ~Ack(w), ~Retry(w) PROVE message' = message
  BY <1>6, OwnItem DEF Invocation, Onward
<1> QED BY <1>1, <1>2, <1>3, <1>4, <1>5, <1>6 DEF Next, Environment, Invocation

(* A message is delivered no more often than its redeliveries allow, and once it is let go  *)
(* it stays so, for any number of workers and failures (max_retries in wrangler.jsonc).     *)
THEOREM DeliveriesBounded == Spec => []Delivered /\ [][CountsUp]_vars
<1>1. WorkerAssumption /\ Init => Held /\ PutOff /\ Delivered
  <2> SUFFICES ASSUME WorkerAssumption, Init PROVE Held /\ PutOff /\ Delivered
    OBVIOUS
  <2>1. Held
    BY DEF Init, Held, WorkerAssumption
  <2> QED BY <2>1 DEF Init, PutOff, Delivered, WorkerAssumption
<1>2. ASSUME WorkerAssumption, IInv, Held, Delivered, [Next]_vars
      PROVE  Delivered' /\ CountsUp
  <2> SUFFICES ASSUME NEW i \in Items
               PROVE  /\ message'[i].attempts <= MaxRetries + 1
                      /\ message'[i].status = "ready" => message'[i].attempts <= MaxRetries
                      /\ message'[i].attempts >= message[i].attempts
                      /\ message'[i].status = "held" /\ message'[i] # message[i] =>
                           message'[i].attempts = message[i].attempts + 1
                      /\ message[i].status \in {"gone", "dead"} => message'[i] = message[i]
    BY DEF Delivered, CountsUp
  <2>1. /\ message[i] \in MessageType /\ message[i].attempts \in Nat /\ MaxRetries \in Nat
        /\ message[i].attempts <= MaxRetries + 1
        /\ message[i].status = "ready" => message[i].attempts <= MaxRetries
    BY <1>2 DEF IInv, TypeOK, MessageType, Delivered, WorkerAssumption
  <2>2. /\ Returned(message[i]).attempts = message[i].attempts
        /\ Returned(message[i]).status =
             IF message[i].attempts > MaxRetries THEN "dead" ELSE "ready"
    BY <2>1, ReturnedIs
  <2>3. CASE message'[i] = message[i]
    BY <2>1, <2>3
  <2>4. CASE /\ message[i].status = "ready" /\ message'[i].status = "held"
             /\ message'[i].attempts = message[i].attempts + 1
    BY <2>1, <2>4
  <2>5. CASE /\ message[i].status = "held" /\ message'[i].status = "gone"
             /\ message'[i].attempts = message[i].attempts
    BY <2>1, <2>5
  <2>6. CASE message[i].status = "held" /\ message'[i] = Returned(message[i])
    BY <2>1, <2>2, <2>6
  <2> QED BY <1>2, <2>3, <2>4, <2>5, <2>6, QueueStep
<1>3. WorkerAssumption /\ IInv /\ Held /\ PutOff /\ [Next]_vars => Held' /\ PutOff'
  BY HeldStep
<1> QED BY <1>1, <1>2, <1>3, Invariance, WorkerAssumption, PTL DEF Spec


LEMMA RankIs ==
  /\ Rank("provider") = 0 /\ Rank("misconfigured") = 1 /\ Rank("abandoned") = 1
  /\ Rank("recordMisconfigured") = 2 /\ Rank("settled") = 2 /\ Rank("start") = 3
  /\ Rank("stage") = 4 /\ Rank("rasterise") = 5 /\ Rank("extract") = 6 /\ Rank("crop") = 7
  /\ Rank("persist") = 8 /\ Rank("audit") = 9 /\ Rank("record") = 10 /\ Rank("failItem") = 11
  /\ Rank("defer") = 11 /\ Rank("fail") = 11 /\ Rank("failJob") = 12 /\ Rank("auditFailed") = 12
  /\ Rank("auditAbandoned") = 13 /\ Rank("recordFailure") = 13 /\ Rank("abort") = 14
  /\ Rank("ack") = 15 /\ Rank("retry") = 15
BY DEF Rank

(* A fault, and a failed reading, send a worker to a later step. *)
LEMMA FallsLater ==
  ASSUME NEW w \in Workers, pc[w] \in Steps \ {"idle", "ack", "retry"}
  PROVE  /\ \A step \in Falls(w) : step \in Steps \ {"idle"} /\ Rank(step) > Rank(pc[w])
         /\ \A f \in Faults : /\ CatchStep(w, f) \in Steps \ {"idle"}
                              /\ pc[w] \in Guarded => Rank(CatchStep(w, f)) > Rank(pc[w])
<1>1. \A f \in Faults : CatchStep(w, f) \in {"failItem", "defer", "fail"}
  BY DEF CatchStep
<1>2. pc[w] \in Guarded => Falls(w) \subseteq {"failItem", "defer", "fail"}
  BY FallsAre
<1>3. pc[w] \notin Guarded => Falls(w) \subseteq {"ack", "retry"}
  BY FallsAre
<1>4. pc[w] \in Guarded => Rank(pc[w]) \in Nat /\ Rank(pc[w]) < 11
  BY RankIs DEF Guarded
<1>5. Rank(pc[w]) \in Nat /\ Rank(pc[w]) < 15
  BY RankIs DEF Steps
<1>6. \A s \in {"failItem", "defer", "fail"} : s \in Steps \ {"idle"} /\ Rank(s) = 11
  BY RankIs DEF Steps
<1>7. \A s \in {"ack", "retry"} : s \in Steps \ {"idle"} /\ Rank(s) = 15
  BY RankIs DEF Steps
<1> QED BY <1>1, <1>2, <1>3, <1>4, <1>5, <1>6, <1>7

(* Nothing but Rasterise counts launches. *)
LEMMA LaunchesStay ==
  ASSUME NEW w \in Workers,
         \/ BuildProvider(w) \/ CheckAbandoned(w) \/ CheckSettled(w) \/ Start(w)
         \/ ReadStaged(w) \/ Extract(w) \/ StoreCrop(w)
         \/ RecordMisconfigured(w) \/ Record(w) \/ AuditAbandoned(w) \/ AbandonJob(w)
         \/ Defer(w) \/ AuditFailed(w) \/ RecordFailed(w)
         \/ FailMisconfigured(w) \/ FailItem(w) \/ FailJob(w) \/ Fail(w) \/ Audit(w) \/ Persist(w)
  PROVE  launches' = launches
<1>1. ASSUME NEW effect, NEW nothing, NEW next, Calls(w, effect, nothing, next)
      PROVE  launches' = launches
  BY <1>1 DEF Calls, Go, Throw, Catch, Uncaught, locals
<1>2. ASSUME NEW next, Asks(w, next) PROVE launches' = launches
  BY <1>1, <1>2 DEF Asks
<1>3. ASSUME NEW effect, NEW next, Writes(w, effect, next) \/ Tells(w, effect, next)
      PROVE  launches' = launches
  BY <1>1, <1>3 DEF Writes, Tells
<1>4. CASE BuildProvider(w)
  BY <1>4 DEF BuildProvider, Go, locals
<1>5. CASE CheckAbandoned(w) \/ CheckSettled(w) \/ StoreCrop(w) \/ AuditAbandoned(w) \/ AuditFailed(w)
  BY <1>2, <1>5 DEF CheckAbandoned, CheckSettled, StoreCrop, AuditAbandoned, AuditFailed
<1>6. CASE ReadStaged(w) \/ Extract(w)
  BY <1>2, <1>6 DEF ReadStaged, Extract, Catch
<1>7. CASE \/ Start(w) \/ RecordMisconfigured(w) \/ Record(w) \/ AbandonJob(w) \/ Defer(w)
           \/ RecordFailed(w)
  BY <1>3, <1>7 DEF Start, RecordMisconfigured, Record, AbandonJob, Defer, RecordFailed
<1>8. CASE FailMisconfigured(w) \/ FailItem(w) \/ FailJob(w) \/ Fail(w)
  BY <1>3, <1>8 DEF FailMisconfigured, FailItem, FailJob, Fail
<1>9. CASE Audit(w)
  BY <1>3, <1>9 DEF Audit
<1>10. CASE Persist(w)
  BY <1>3, <1>10 DEF Persist
<1> QED BY <1>4, <1>5, <1>6, <1>7, <1>8, <1>9, <1>10


LEMMA OnwardGoes ==
  ASSUME TypeOK, NEW w \in Workers, pc[w] # "idle", NEW step \in Steps \ {"idle"},
         Rank(step) > Rank(pc[w]), Onward(w, step),
         \A v \in Workers : v # w => launches'[v] = launches[v],
         NEW v \in Workers
  PROVE  GoesOn(v)
<1>1. CASE v = w
  <2>1. pc'[w] = step
    BY OnwardIs
  <2> QED BY <1>1, <2>1 DEF GoesOn
<1>2. CASE v # w
  <2>1. pc'[v] = pc[v] /\ item'[v] = item[v] /\ attempt'[v] = attempt[v]
    BY <1>2, OnwardIs
  <2> QED BY <1>2, <2>1 DEF GoesOn
<1> QED BY <1>1, <1>2

LEMMA CalledGoes ==
  ASSUME TypeOK, NEW w \in Workers, pc[w] \in Steps \ {"idle", "ack", "retry"},
         NEW next \in Steps \ {"idle"}, Rank(next) > Rank(pc[w]), Called(w, next),
         launches' = launches, NEW v \in Workers
  PROVE  GoesOn(v)
<1>1. PICK step \in Steps \ {"idle"} : Rank(step) > Rank(pc[w]) /\ Onward(w, step)
  BY FallsLater DEF Called, Thrown
<1> QED BY <1>1, OnwardGoes

(* Launching the browser: again, with launches left; or on to what follows. *)
LEMMA RasteriseGoes ==
  ASSUME TypeOK, NEW w \in Workers, Rasterise(w), NEW v \in Workers
  PROVE  GoesOn(v)
<1>1. pc[w] = "rasterise" /\ pc[w] \in Steps \ {"idle", "ack", "retry"} /\ pc[w] \in Guarded
  BY DEF Rasterise, Steps, Guarded
<1>2. \A f \in Faults : /\ CatchStep(w, f) \in Steps \ {"idle"}
                        /\ Rank(CatchStep(w, f)) > Rank(pc[w])
  BY <1>1, FallsLater
<1>3. CASE Go(w, "extract") /\ Within
  <2>1. Onward(w, "extract") /\ launches' = launches
    BY <1>3 DEF Go, Within, Onward, locals
  <2>2. "extract" \in Steps \ {"idle"} /\ Rank("extract") > Rank(pc[w])
    BY <1>1, RankIs DEF Steps
  <2> QED BY <1>1, <2>1, <2>2, OnwardGoes
<1>4. ASSUME NEW f \in Readings \cap {"refused", "transient"}, Catch(w, f), Within
      PROVE  GoesOn(v)
  <2>1. Onward(w, CatchStep(w, f)) /\ launches' = launches
    BY <1>4 DEF Catch, Within, Onward
  <2>2. f \in Faults
    BY DEF Faults
  <2> QED BY <1>1, <1>2, <2>1, <2>2, OnwardGoes
<1>5. CASE /\ launches' = [launches EXCEPT ![w] = @ + 1]
           /\ launches'[w] < MAX_ATTEMPTS
           /\ UNCHANGED <<pc, item, attempt, fault>>
  <2>1. launches'[w] = launches[w] + 1 /\ \A u \in Workers : u # w => launches'[u] = launches[u]
    BY <1>5 DEF TypeOK
  <2>2. CASE v = w
    BY <1>1, <1>5, <2>1, <2>2 DEF GoesOn
  <2>3. CASE v # w
    BY <1>5, <2>1, <2>3 DEF GoesOn
  <2> QED BY <2>2, <2>3
<1>6. CASE /\ launches' = [launches EXCEPT ![w] = @ + 1]
           /\ pc' = [pc EXCEPT ![w] = CatchStep(w, "rate-limited")]
           /\ UNCHANGED <<item, attempt>> /\ Within
  <2>1. Onward(w, CatchStep(w, "rate-limited"))
    BY <1>6 DEF Within, Onward
  <2>2. \A u \in Workers : u # w => launches'[u] = launches[u]
    BY <1>6 DEF TypeOK
  <2>3. "rate-limited" \in Faults
    BY DEF Faults
  <2> QED BY <1>1, <1>2, <2>1, <2>2, <2>3, OnwardGoes
<1> QED BY <1>3, <1>4, <1>5, <1>6 DEF Rasterise

LEMMA InvocationGoes ==
  ASSUME WorkerAssumption, TypeOK, NEW w \in Workers, Invocation(w), NEW v \in Workers
  PROVE  GoesOn(v)
<1>1. ASSUME NEW next \in Steps \ {"idle"}, pc[w] \in Steps \ {"idle", "ack", "retry"},
             Rank(next) > Rank(pc[w]), Called(w, next), launches' = launches
      PROVE  GoesOn(v)
  BY <1>1, CalledGoes
<1>2. ASSUME pc[w] \in {"stage", "extract"}, Stumbled(w), launches' = launches
      PROVE  GoesOn(v)
  <2>1. pc[w] \in Steps \ {"idle", "ack", "retry"} /\ pc[w] \in Guarded
    BY <1>2 DEF Steps, Guarded
  <2>2. PICK f \in Faults : Onward(w, CatchStep(w, f))
    BY <1>2 DEF Stumbled
  <2>3. CatchStep(w, f) \in Steps \ {"idle"} /\ Rank(CatchStep(w, f)) > Rank(pc[w])
    BY <2>1, FallsLater
  <2> QED BY <1>2, <2>1, <2>2, <2>3, OnwardGoes
<1>3. CASE BuildProvider(w)
  <2>1. /\ pc[w] = "provider" /\ launches' = launches
        /\ \E step \in {"ack", "misconfigured", "abandoned"} : Onward(w, step)
    BY <1>3, Before, LaunchesStay
  <2>2. \A step \in {"ack", "misconfigured", "abandoned"} :
          step \in Steps \ {"idle"} /\ Rank(step) > Rank("provider")
    BY RankIs DEF Steps
  <2> QED BY <2>1, <2>2, OnwardGoes
<1>4. CASE CheckAbandoned(w) \/ CheckSettled(w) \/ Start(w) \/ StoreCrop(w)
  <2>1. /\ launches' = launches
        /\ \E next : /\ Called(w, next)
                     /\ \/ pc[w] = "abandoned" /\ next \in {"ack", "settled"}
                        \/ pc[w] = "settled" /\ next \in {"ack", "start"}
                        \/ pc[w] = "start" /\ next = "stage"
                        \/ pc[w] = "crop" /\ next = "persist"
    BY <1>4, Before, LaunchesStay
  <2>2. PICK next : /\ Called(w, next)
                    /\ \/ pc[w] = "abandoned" /\ next \in {"ack", "settled"}
                       \/ pc[w] = "settled" /\ next \in {"ack", "start"}
                       \/ pc[w] = "start" /\ next = "stage"
                       \/ pc[w] = "crop" /\ next = "persist"
    BY <2>1
  <2>3. /\ pc[w] \in Steps \ {"idle", "ack", "retry"} /\ next \in Steps \ {"idle"}
        /\ Rank(next) > Rank(pc[w])
    BY <2>2, RankIs DEF Steps
  <2> QED BY <1>1, <2>1, <2>2, <2>3
<1>5. CASE ReadStaged(w) \/ Extract(w)
  <2>1. /\ launches' = launches
        /\ \/ pc[w] \in {"stage", "extract"} /\ Stumbled(w)
           \/ pc[w] = "stage" /\ Called(w, "rasterise")
           \/ pc[w] = "extract" /\ Called(w, "crop")
    BY <1>5, Before, LaunchesStay
  <2>2. /\ {"stage", "extract"} \subseteq Steps \ {"idle", "ack", "retry"}
        /\ "rasterise" \in Steps \ {"idle"} /\ "crop" \in Steps \ {"idle"}
        /\ Rank("rasterise") > Rank("stage") /\ Rank("crop") > Rank("extract")
    BY RankIs DEF Steps
  <2> QED BY <1>1, <1>2, <2>1, <2>2
<1>6. CASE \/ RecordMisconfigured(w) \/ Record(w) \/ AuditAbandoned(w) \/ AbandonJob(w)
           \/ Defer(w) \/ AuditFailed(w) \/ RecordFailed(w)
  <2>1. PICK next : /\ Called(w, next)
                    /\ \/ /\ pc[w] \in {"recordMisconfigured", "record", "abort", "recordFailure"}
                          /\ next = "ack"
                       \/ pc[w] = "auditAbandoned" /\ next = "abort"
                       \/ pc[w] = "defer" /\ next = "retry"
                       \/ pc[w] = "auditFailed" /\ next = "recordFailure"
    BY <1>6, Reports
  <2>2. /\ pc[w] \in Steps \ {"idle", "ack", "retry"} /\ next \in Steps \ {"idle"}
        /\ Rank(next) > Rank(pc[w])
    BY <2>1, RankIs DEF Steps
  <2> QED BY <1>1, <1>6, <2>1, <2>2, LaunchesStay
<1>7. CASE FailMisconfigured(w) \/ FailItem(w) \/ FailJob(w) \/ Fail(w) \/ Audit(w)
  <2>1. PICK next : /\ Called(w, next)
                    /\ \/ pc[w] = "misconfigured" /\ next = "recordMisconfigured"
                       \/ pc[w] = "failItem" /\ next = "failJob"
                       \/ pc[w] = "failJob" /\ next = "auditAbandoned"
                       \/ pc[w] = "fail" /\ next = "auditFailed"
                       \/ pc[w] = "audit" /\ next = "record"
    BY <1>7, WritesD1
  <2>2. /\ pc[w] \in Steps \ {"idle", "ack", "retry"} /\ next \in Steps \ {"idle"}
        /\ Rank(next) > Rank(pc[w])
    BY <2>1, RankIs DEF Steps
  <2> QED BY <1>1, <1>7, <2>1, <2>2, LaunchesStay
<1>8. CASE Persist(w)
  <2>1. pc[w] = "persist" /\ Called(w, "audit")
    BY <1>8, WritesD1 DEF Called
  <2>2. /\ "persist" \in Steps \ {"idle", "ack", "retry"} /\ "audit" \in Steps \ {"idle"}
        /\ Rank("audit") > Rank("persist")
    BY RankIs DEF Steps
  <2> QED BY <1>1, <1>8, <2>1, <2>2, LaunchesStay
<1>9. CASE Ack(w) \/ Retry(w)
  <2>1. /\ pc' = [pc EXCEPT ![w] = "idle"] /\ item' = [item EXCEPT ![w] = None]
        /\ attempt' = [attempt EXCEPT ![w] = 0] /\ launches' = [launches EXCEPT ![w] = 0]
    BY <1>9 DEF Ack, Retry, Release
  <2> QED BY <2>1 DEF TypeOK, GoesOn
<1>10. CASE Rasterise(w)
  BY <1>10, RasteriseGoes
<1> QED BY <1>3, <1>4, <1>5, <1>6, <1>7, <1>8, <1>9, <1>10 DEF Invocation

(* An invocation never goes back to an earlier step, and starts the browser no more often   *)
(* than it may, whatever fails: together with DeliveriesBounded, a message can be worked on *)
(* only so often and only so long (processItem, withRateLimitRetry).                        *)
THEOREM InvocationsGoOn == Spec => [][\A w \in Workers : GoesOn(w)]_vars
<1>1. ASSUME WorkerAssumption, IInv, [Next]_vars, NEW v \in Workers PROVE GoesOn(v)
  <2>0. TypeOK
    BY <1>1 DEF IInv
  <2>1. CASE UNCHANGED vars \/ PressReset \/ ResetRecord \/ ResetLedger
    <3>1. UNCHANGED <<pc, item, attempt, launches>>
      BY <2>1 DEF vars, PressReset, ResetRecord, ResetLedger, Resets, workerVars, locals
    <3> QED BY <3>1 DEF GoesOn
  <2>2. ASSUME NEW w \in Workers, NEW i \in Items, Deliver(w, i) PROVE GoesOn(v)
    BY <2>0, <2>2 DEF Deliver, TypeOK, GoesOn
  <2>3. ASSUME NEW w \in Workers, Invocation(w) PROVE GoesOn(v)
    BY <1>1, <2>0, <2>3, InvocationGoes
  <2>4. ASSUME NEW w \in Workers, Crash(w) PROVE GoesOn(v)
    <3>1. /\ pc' = [pc EXCEPT ![w] = "idle"] /\ item' = [item EXCEPT ![w] = None]
          /\ attempt' = [attempt EXCEPT ![w] = 0] /\ launches' = [launches EXCEPT ![w] = 0]
      BY <2>4 DEF Crash, Release
    <3> QED BY <2>0, <3>1 DEF TypeOK, GoesOn
  <2>5. ASSUME NEW w \in Workers, Expire(w) PROVE GoesOn(v)
    BY <2>5 DEF Expire, workerVars, locals, GoesOn
  <2> QED BY <1>1, <2>1, <2>2, <2>3, <2>4, <2>5 DEF Next, Environment
<1>2. WorkerAssumption /\ IInv /\ [Next]_vars => \A w \in Workers : GoesOn(w)
  BY <1>1
<1> QED BY <1>2, Invariance, WorkerAssumption, PTL DEF Spec
=============================================================================
