------------------------------- MODULE AuditLog -------------------------------
(***************************************************************************)
(* What the audit history promises the code that writes to it              *)
(* (src/src/batch/audit.ts), with no digest, no database and no race in    *)
(* it: a log that only grows, in which an event stands at most once, and   *)
(* answers that are true of it.                                            *)
(***************************************************************************)
EXTENDS Naturals, Sequences

CONSTANTS
  Calls,     \* the calls of appendAudit; each brings the event it names
  Attempts   \* how often one call tries

VARIABLES
  log,      \* the events, oldest first
  call,     \* where each call stands, and in the end what it told its caller
  since     \* how long the log was when the call was made

vars == <<log, call, since>>

Logged(c) == \E i \in 1 .. Len(log) : log[i] = c

Init ==
  /\ log = <<>>
  /\ call = [c \in Calls |-> "new"]
  /\ since = [c \in Calls |-> 0]

Refuse(c) ==
  /\ call[c] = "new"
  /\ call' = [call EXCEPT ![c] = "refused"]
  /\ UNCHANGED <<log, since>>

Ask(c) ==
  /\ call[c] = "new"
  /\ call' = [call EXCEPT ![c] = "asked"]
  /\ since' = [since EXCEPT ![c] = Len(log)]
  /\ UNCHANGED log

(* The event is appended; the caller is told so, unless the answer is lost. *)
Record(c) ==
  /\ call[c] = "asked"
  /\ log' = Append(log, c)
  /\ \E answer \in {"recorded", "lost"} : call' = [call EXCEPT ![c] = answer]
  /\ UNCHANGED since

(* Only a log that others kept growing, once for every attempt, makes a call give up. *)
GiveUp(c) ==
  /\ call[c] = "asked"
  /\ Len(log) >= since[c] + Attempts
  /\ call' = [call EXCEPT ![c] = "unrecorded"]
  /\ UNCHANGED <<log, since>>

Lose(c) ==
  /\ call[c] = "asked"
  /\ call' = [call EXCEPT ![c] = "lost"]
  /\ UNCHANGED <<log, since>>

Next == \E c \in Calls : Refuse(c) \/ Ask(c) \/ Record(c) \/ GiveUp(c) \/ Lose(c)

Spec == Init /\ [][Next]_vars
=============================================================================
