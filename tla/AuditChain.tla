------------------------------ MODULE AuditChain ------------------------------
(***************************************************************************)
(* The hash-chained history (src/src/batch/audit.ts): any number of        *)
(* concurrent appendAudit calls, each a read of the tail, a read of its    *)
(* digest and a conditional INSERT, and a reader that pages through the    *)
(* chain while it grows and verifies what it collected.                    *)
(*                                                                         *)
(* The table is never updated and never deleted from (the two triggers of  *)
(* migrations/0001_init.sql), so seq is the place of a row in the chain.   *)
(***************************************************************************)
EXTENDS Integers, Sequences

CONSTANTS
  Calls,              \* the calls of appendAudit; each brings the row it names
  Forbidden,          \* the calls a model or the system makes with a deciding action
  Attempts,           \* the default of appendAudit's last parameter
  PageSize,           \* readWholeChain's page
  Digests,            \* the values of the digest columns
  GENESIS,            \* the digest before the first row
  ChainDigest(_, _),  \* sha256 of a digest and a canonical row
  MaxThrows           \* bound: calls that end in a database error or a lost worker

ASSUME ChainAssumption ==
  /\ Attempts \in Nat \ {0}
  /\ PageSize \in Nat \ {0}
  /\ Forbidden \subseteq Calls
  /\ MaxThrows \in Nat
  /\ GENESIS \in Digests
  /\ \A d \in Digests, c \in Calls : ChainDigest(d, c) \in Digests

VARIABLES
  chain,    \* audit_event, in order of seq
  pc,       \* per call
  tail,     \* per call, tailSeq
  prev,     \* per call, the digest found at tailSeq
  tries,    \* per call, the loop counter
  since,    \* history: how long the chain was when the call was made
  throws,
  reader,   \* the reader's pc
  pages,    \* the rows it has collected
  began     \* history: how long the chain was when it began

callVars == <<pc, tail, prev, tries, since, throws>>
readVars == <<reader, pages, began>>
vars == <<chain, callVars, readVars>>

ChainedRow == [row : Calls, prev : Digests, digest : Digests]

Steps == {"new", "refused", "readTail", "readPrev", "insert", "true", "false", "threw"}

(* The digest a row appended after the first n would have to name. *)
Tip(n) == IF n = 0 THEN GENESIS ELSE chain[n].digest

-----------------------------------------------------------------------------
(* appendAudit *)

(* checkAgentMay: only a person's agent may record a deciding action. *)
CheckAgentMay(c) ==
  /\ pc[c] = "new"
  /\ IF c \in Forbidden
       THEN pc' = [pc EXCEPT ![c] = "refused"] /\ UNCHANGED since
       ELSE /\ pc' = [pc EXCEPT ![c] = "readTail"]
            /\ since' = [since EXCEPT ![c] = Len(chain)]
  /\ UNCHANGED <<chain, tail, prev, tries, throws, readVars>>

ReadTail(c) ==
  /\ pc[c] = "readTail"
  /\ tail' = [tail EXCEPT ![c] = Len(chain)]
  /\ pc' = [pc EXCEPT ![c] = "readPrev"]
  /\ UNCHANGED <<chain, prev, tries, since, throws, readVars>>

ReadPrev(c) ==
  /\ pc[c] = "readPrev"
  /\ prev' = [prev EXCEPT ![c] = Tip(tail[c])]
  /\ pc' = [pc EXCEPT ![c] = "insert"]
  /\ UNCHANGED <<chain, tail, tries, since, throws, readVars>>

Link(c) == [row |-> c, prev |-> prev[c], digest |-> ChainDigest(prev[c], c)]

(* Mutant: the INSERT does not ask whether the tail has moved. *)
Insert_Unconditional(c) ==
  /\ pc[c] = "insert"
  /\ chain' = Append(chain, Link(c))
  /\ pc' = [pc EXCEPT ![c] = "true"]
  /\ UNCHANGED <<tail, prev, tries, since, throws, readVars>>

(* Mutant: the tail is read once, before the loop. *)
Insert_StaleTail(c) ==
  /\ pc[c] = "insert"
  /\ IF Len(chain) = tail[c]
       THEN /\ chain' = Append(chain, Link(c))
            /\ pc' = [pc EXCEPT ![c] = "true"]
            /\ UNCHANGED tries
       ELSE /\ tries' = [tries EXCEPT ![c] = @ + 1]
            /\ pc' = [pc EXCEPT ![c] = IF tries'[c] < Attempts THEN "insert" ELSE "false"]
            /\ UNCHANGED chain
  /\ UNCHANGED <<tail, prev, since, throws, readVars>>

(* INSERT ... WHERE the tail has not moved; a call that lost five times says so. *)
Insert(c) ==
  /\ pc[c] = "insert"
  /\ IF Len(chain) = tail[c]
       THEN /\ chain' = Append(chain, Link(c))
            /\ pc' = [pc EXCEPT ![c] = "true"]
            /\ UNCHANGED tries
       ELSE /\ tries' = [tries EXCEPT ![c] = @ + 1]
            /\ pc' = [pc EXCEPT ![c] = IF tries'[c] < Attempts THEN "readTail" ELSE "false"]
            /\ UNCHANGED chain
  /\ UNCHANGED <<tail, prev, since, throws, readVars>>

(* A statement throws, or the worker is lost: before the INSERT, or after it committed. *)
Throws(c) ==
  /\ throws < MaxThrows
  /\ throws' = throws + 1
  /\ pc[c] \in {"readTail", "readPrev", "insert"}
  /\ pc' = [pc EXCEPT ![c] = "threw"]
  /\ \/ UNCHANGED chain
     \/ pc[c] = "insert" /\ Len(chain) = tail[c] /\ chain' = Append(chain, Link(c))
  /\ UNCHANGED <<tail, prev, tries, since, readVars>>

AppendAudit(c) == CheckAgentMay(c) \/ ReadTail(c) \/ ReadPrev(c) \/ Insert(c)

-----------------------------------------------------------------------------
(* readWholeChain, and verifyChain on what it returns *)

BeginReading ==
  /\ reader = "idle"
  /\ reader' = "reading"
  /\ pages' = <<>>
  /\ began' = Len(chain)
  /\ UNCHANGED <<chain, callVars>>

(* readChain: the rows after the last one collected, at most a page of them. *)
PageAfter(n) ==
  SubSeq(chain, n + 1, IF n + PageSize <= Len(chain) THEN n + PageSize ELSE Len(chain))

(* Mutant: the page size is a ceiling. *)
ReadPage_First ==
  /\ reader = "reading"
  /\ pages' = PageAfter(0)
  /\ reader' = "done"
  /\ UNCHANGED <<chain, began, callVars>>

ReadPage ==
  /\ reader = "reading"
  /\ LET page == PageAfter(Len(pages))
     IN /\ pages' = pages \o page
        /\ reader' = IF Len(page) < PageSize THEN "done" ELSE "reading"
  /\ UNCHANGED <<chain, began, callVars>>

(* The first row that does not follow from its predecessor, or 0. *)
verifyChain(rows) ==
  LET Follows(i) ==
        /\ rows[i].prev = IF i = 1 THEN GENESIS ELSE rows[i - 1].digest
        /\ rows[i].digest = ChainDigest(rows[i].prev, rows[i].row)
  IN IF \A i \in 1 .. Len(rows) : Follows(i) THEN 0
     ELSE CHOOSE i \in 1 .. Len(rows) :
            ~Follows(i) /\ \A j \in 1 .. i - 1 : Follows(j)

-----------------------------------------------------------------------------
Init ==
  /\ chain = <<>>
  /\ pc = [c \in Calls |-> "new"]
  /\ tail = [c \in Calls |-> 0]
  /\ prev = [c \in Calls |-> GENESIS]
  /\ tries = [c \in Calls |-> 0]
  /\ since = [c \in Calls |-> 0]
  /\ throws = 0
  /\ reader = "idle"
  /\ pages = <<>>
  /\ began = 0

Reading == BeginReading \/ ReadPage

Next == (\E c \in Calls : AppendAudit(c) \/ Throws(c)) \/ Reading

Spec == Init /\ [][Next]_vars

-----------------------------------------------------------------------------
(* Properties. *)

(* Every variable holds a value of its kind, and no call tries more often than it may      *)
(* (audit.ts).                                                                             *)
TypeOK ==
  /\ chain \in Seq(ChainedRow)
  /\ pc \in [Calls -> Steps]
  /\ tail \in [Calls -> Nat]
  /\ prev \in [Calls -> Digests]
  /\ tries \in [Calls -> 0 .. Attempts]
  /\ since \in [Calls -> Nat]
  /\ throws \in 0 .. MaxThrows
  /\ reader \in {"idle", "reading", "done"}
  /\ pages \in Seq(ChainedRow)
  /\ began \in Nat

(* No interleaving of writers orphans a link: every row names its predecessor's digest and *)
(* carries its own (appendAudit's conditional INSERT).                                     *)
ChainIntact ==
  \A i \in 1 .. Len(chain) :
    /\ chain[i].prev = Tip(i - 1)
    /\ chain[i].digest = ChainDigest(chain[i].prev, chain[i].row)

(* A finished reading verifies and reaches at least as far as the chain did when it began, *)
(* whatever was appended meanwhile: no false alarm, no healthy prefix reported as the      *)
(* whole (readWholeChain, verifyChain).                                                    *)
ReadingHolds ==
  reader = "done" => verifyChain(pages) = 0 /\ Len(pages) >= began

(* What a call has told its caller, as the abstract log sees it. *)
Told(c) ==
  CASE pc[c] = "new" -> "new"
    [] pc[c] = "refused" -> "refused"
    [] pc[c] = "true" -> "recorded"
    [] pc[c] = "false" -> "unrecorded"
    [] pc[c] = "threw" -> "lost"
    [] OTHER -> "asked"

Log == INSTANCE AuditLog
         WITH log <- [i \in 1 .. Len(chain) |-> chain[i].row],
              call <- [c \in Calls |-> Told(c)]

(* The chain keeps the log's promise: it only grows, by one event at a time; an event      *)
(* stands in it if and only if its caller was told so (or was told nothing); and a call    *)
(* gives up only after others have appended at least once for each of its attempts.        *)
KeepsTheLog == Log!Spec
=============================================================================
