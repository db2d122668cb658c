---------------------------- MODULE AuditChainProofs ----------------------------
(***************************************************************************)
(* What holds of the audit chain for any number of concurrent calls, any   *)
(* number of attempts and any digest function.                             *)
(***************************************************************************)
EXTENDS AuditChain, SequenceTheorems, TLAPS

(* A page is a piece of the chain. *)
LEMMA PageType ==
  ASSUME TypeOK, ChainAssumption, NEW n \in Nat, n <= Len(chain)
  PROVE  /\ PageAfter(n) \in Seq(ChainedRow)
         /\ Len(PageAfter(n)) = IF n + PageSize <= Len(chain) THEN PageSize ELSE Len(chain) - n
         /\ \A i \in 1 .. Len(PageAfter(n)) : PageAfter(n)[i] = chain[n + i]
  BY DEF PageAfter, TypeOK, ChainAssumption

(* A link built from a call's locals is a row of the table. *)
LEMMA LinkType ==
  ASSUME TypeOK, ChainAssumption, NEW c \in Calls
  PROVE  Link(c) \in ChainedRow
  BY DEF Link, ChainedRow, TypeOK, ChainAssumption

(* The digest at the end of any prefix of the chain is a digest. *)
LEMMA TipType ==
  ASSUME TypeOK, ChainAssumption, NEW n \in Nat, n <= Len(chain)
  PROVE  Tip(n) \in Digests
<1>1. CASE n = 0
  BY <1>1 DEF Tip, ChainAssumption
<1>2. CASE n # 0
  <2>1. chain[n] \in ChainedRow
    BY <1>2 DEF TypeOK
  <2> QED BY <1>2, <2>1 DEF Tip, ChainedRow
<1> QED BY <1>1, <1>2

(* What the locals of a call promise about the chain it is about to extend: the tail it    *)
(* read is a place the chain has reached, the digest it holds is the one found there, it   *)
(* has an attempt left, and every attempt it lost was lost to a row appended since.        *)
Locals ==
  \A c \in Calls :
    /\ pc[c] \in {"readPrev", "insert"} => tail[c] <= Len(chain)
    /\ pc[c] = "insert" => prev[c] = Tip(tail[c])
    /\ pc[c] \in {"new", "readTail", "readPrev", "insert"} => tries[c] < Attempts
    /\ pc[c] = "new" => tries[c] = 0
    /\ pc[c] = "readTail" => since[c] + tries[c] <= Len(chain)
    /\ pc[c] \in {"readPrev", "insert"} => since[c] + tries[c] <= tail[c]

(* What the reader has collected is a prefix of the chain, and the chain it is still       *)
(* reading, or the prefix it has finished with, is at least what it set out to read.       *)
Prefix ==
  /\ Len(pages) <= Len(chain)
  /\ \A i \in 1 .. Len(pages) : pages[i] = chain[i]
  /\ reader = "reading" => began <= Len(chain)
  /\ reader = "done" => began <= Len(pages)

(* The inductive invariant. *)
IInv == TypeOK /\ ChainIntact /\ Locals /\ Prefix

LEMMA InitInv == ASSUME ChainAssumption PROVE Init => IInv
  BY DEF ChainAssumption, Init, IInv, TypeOK, ChainIntact, Locals, Prefix, Steps, Tip

(* A step that leaves the chain alone keeps every link it has. *)
LEMMA SameChain ==
  ASSUME ChainIntact, chain' = chain
  PROVE  ChainIntact'
  BY DEF ChainIntact, Tip

(* A committed INSERT: the new row follows from its predecessor, and what the other calls  *)
(* and the reader hold stays true of a chain that only grew.                               *)
LEMMA Committed ==
  ASSUME ChainAssumption, IInv, NEW c \in Calls, pc[c] = "insert",
         Len(chain) = tail[c], chain' = Append(chain, Link(c))
  PROVE  /\ chain' \in Seq(ChainedRow)
         /\ Len(chain') = Len(chain) + 1
         /\ \A i \in 1 .. Len(chain) : chain'[i] = chain[i]
         /\ \A n \in 0 .. Len(chain) : Tip(n)' = Tip(n)
         /\ ChainIntact'
<1>1. Link(c) \in ChainedRow
  BY LinkType DEF IInv
<1>2. /\ chain' \in Seq(ChainedRow)
      /\ Len(chain') = Len(chain) + 1
      /\ \A i \in 1 .. Len(chain) : chain'[i] = chain[i]
      /\ chain'[Len(chain) + 1] = Link(c)
  BY <1>1, AppendProperties DEF IInv, TypeOK
<1>3. Len(chain) \in Nat
  BY DEF IInv, TypeOK
<1>4. \A n \in 0 .. Len(chain) : Tip(n)' = Tip(n)
  BY <1>2, <1>3 DEF Tip
<1>5. ChainIntact'
  <2> SUFFICES ASSUME NEW i \in 1 .. Len(chain) + 1
               PROVE  /\ chain'[i].prev = Tip(i - 1)'
                      /\ chain'[i].digest = ChainDigest(chain'[i].prev, chain'[i].row)
    BY <1>2 DEF ChainIntact
  <2>1. CASE i \in 1 .. Len(chain)
    BY <2>1, <1>2, <1>3, <1>4 DEF IInv, ChainIntact
  <2>2. CASE i = Len(chain) + 1
    <3>1. Link(c).prev = Tip(Len(chain))
      BY DEF IInv, Locals, Link
    <3>2. chain'[i].prev = Tip(i - 1)'
      BY <2>2, <3>1, <1>2, <1>3, <1>4
    <3> QED BY <2>2, <3>2, <1>2 DEF Link
  <2> QED BY <2>1, <2>2, <1>3
<1> QED BY <1>2, <1>4, <1>5

(* What a reader has collected stays a prefix of a chain that grew. *)
LEMMA PrefixGrows ==
  ASSUME TypeOK, Prefix, Len(chain') = Len(chain) + 1,
         \A i \in 1 .. Len(chain) : chain'[i] = chain[i],
         UNCHANGED <<reader, pages, began>>
  PROVE  Prefix'
<1>1. Len(chain) \in Nat /\ Len(pages) \in Nat /\ began \in Nat
  BY DEF TypeOK
<1>2. Len(pages) <= Len(chain) /\ \A i \in 1 .. Len(pages) : pages[i] = chain[i]
  BY DEF Prefix
<1>3. \A i \in 1 .. Len(pages') : pages'[i] = chain'[i]
  <2> SUFFICES ASSUME NEW i \in 1 .. Len(pages)
               PROVE  pages[i] = chain'[i]
    OBVIOUS
  <2>1. i \in 1 .. Len(chain)
    BY <1>1, <1>2
  <2> QED BY <1>2, <2>1
<1>4. reader' = "reading" => began' <= Len(chain')
  BY <1>1 DEF Prefix
<1>5. reader' = "done" => began' <= Len(pages')
  BY DEF Prefix
<1> QED BY <1>1, <1>2, <1>3, <1>4, <1>5 DEF Prefix

LEMMA StepInv ==
  ASSUME ChainAssumption, IInv, [Next]_vars
  PROVE  IInv'
<1>1. CASE UNCHANGED vars
  BY <1>1 DEF IInv, TypeOK, ChainIntact, Locals, Prefix, Tip, vars, callVars, readVars
<1>2. ASSUME NEW c \in Calls, CheckAgentMay(c)
      PROVE  IInv'
  <2>1. TypeOK'
    <3>1. Len(chain) \in Nat
      BY DEF IInv, TypeOK
    <3>2. CASE c \in Forbidden
      BY <1>2, <3>2 DEF CheckAgentMay, IInv, TypeOK, Steps, readVars
    <3>3. CASE c \notin Forbidden
      BY <1>2, <3>1, <3>3 DEF CheckAgentMay, IInv, TypeOK, Steps, readVars
    <3> QED BY <3>2, <3>3
  <2>2. ChainIntact'
    BY <1>2, SameChain DEF CheckAgentMay, IInv
  <2>3. Locals'
    BY <1>2 DEF CheckAgentMay, IInv, TypeOK, Locals, Tip
  <2>4. Prefix'
    BY <1>2 DEF CheckAgentMay, IInv, Prefix, readVars
  <2> QED BY <2>1, <2>2, <2>3, <2>4 DEF IInv
<1>3. ASSUME NEW c \in Calls, ReadTail(c)
      PROVE  IInv'
  <2>1. TypeOK'
    BY <1>3 DEF ReadTail, IInv, TypeOK, Steps, readVars
  <2>2. ChainIntact'
    BY <1>3, SameChain DEF ReadTail, IInv
  <2>3. Locals'
    BY <1>3 DEF ReadTail, IInv, TypeOK, Locals, Tip
  <2>4. Prefix'
    BY <1>3 DEF ReadTail, IInv, Prefix, readVars
  <2> QED BY <2>1, <2>2, <2>3, <2>4 DEF IInv
<1>4. ASSUME NEW c \in Calls, ReadPrev(c)
      PROVE  IInv'
  <2>1. Tip(tail[c]) \in Digests
    BY <1>4, TipType DEF ReadPrev, IInv, TypeOK, Locals
  <2>2. TypeOK'
    <3>1. /\ prev' = [prev EXCEPT ![c] = Tip(tail[c])]
          /\ pc' = [pc EXCEPT ![c] = "insert"]
          /\ UNCHANGED <<chain, tail, tries, since, throws, readVars>>
      BY <1>4 DEF ReadPrev
    <3> QED BY <2>1, <3>1 DEF IInv, TypeOK, Steps, readVars
  <2>3. ChainIntact'
    BY <1>4, SameChain DEF ReadPrev, IInv
  <2>4. Locals'
    BY <1>4 DEF ReadPrev, IInv, TypeOK, Locals, Tip
  <2>5. Prefix'
    BY <1>4 DEF ReadPrev, IInv, Prefix, readVars
  <2> QED BY <2>2, <2>3, <2>4, <2>5 DEF IInv
<1>5. ASSUME NEW c \in Calls, Insert(c)
      PROVE  IInv'
  <2>1. CASE Len(chain) = tail[c]
    <3>1. /\ chain' = Append(chain, Link(c))
          /\ pc[c] = "insert"
          /\ pc' = [pc EXCEPT ![c] = "true"]
          /\ UNCHANGED <<tries, tail, prev, since, throws, readVars>>
      BY <1>5, <2>1 DEF Insert
    <3>2. /\ chain' \in Seq(ChainedRow)
          /\ Len(chain') = Len(chain) + 1
          /\ \A i \in 1 .. Len(chain) : chain'[i] = chain[i]
          /\ \A n \in 0 .. Len(chain) : Tip(n)' = Tip(n)
          /\ ChainIntact'
      BY <2>1, <3>1, Committed
    <3>3. TypeOK'
      BY <3>1, <3>2 DEF IInv, TypeOK, Steps, readVars
    <3>4. Locals'
      BY <3>1, <3>2 DEF IInv, TypeOK, Locals, Steps
    <3>5. Prefix'
      BY <3>1, <3>2, PrefixGrows DEF IInv, readVars
    <3> QED BY <3>2, <3>3, <3>4, <3>5 DEF IInv
  <2>2. CASE Len(chain) # tail[c]
    <3>1. /\ chain' = chain
          /\ tries' = [tries EXCEPT ![c] = tries[c] + 1]
          /\ pc' = [pc EXCEPT ![c] = IF tries'[c] < Attempts THEN "readTail" ELSE "false"]
          /\ UNCHANGED <<tail, prev, since, throws, readVars>>
      BY <1>5, <2>2 DEF Insert
    <3>2. TypeOK'
      <4>1. tries[c] + 1 \in 0 .. Attempts
        BY <1>5 DEF Insert, IInv, TypeOK, Locals, ChainAssumption
      <4> QED BY <3>1, <4>1 DEF IInv, TypeOK, Steps, readVars
    <3>3. ChainIntact'
      BY <3>1, SameChain DEF IInv
    <3>4. Locals'
      <4>1. /\ pc[c] = "insert"
            /\ tail[c] < Len(chain)
            /\ since[c] + tries[c] <= tail[c]
            /\ tries[c] \in Nat
            /\ since[c] \in Nat
            /\ tail[c] \in Nat
            /\ Len(chain) \in Nat
        BY <1>5, <2>2 DEF Insert, IInv, TypeOK, Locals
      <4>2. /\ tries'[c] = tries[c] + 1
            /\ since'[c] + tries'[c] <= Len(chain')
            /\ pc'[c] = IF tries'[c] < Attempts THEN "readTail" ELSE "false"
        BY <3>1, <4>1 DEF IInv, TypeOK
      <4>3. \A d \in Calls \ {c} : pc'[d] = pc[d] /\ tries'[d] = tries[d]
        BY <3>1 DEF IInv, TypeOK
      <4>4. \A n : Tip(n)' = Tip(n)
        BY <3>1 DEF Tip
      <4> SUFFICES ASSUME NEW d \in Calls
                   PROVE  /\ pc'[d] \in {"readPrev", "insert"} => tail'[d] <= Len(chain')
                          /\ pc'[d] = "insert" => prev'[d] = Tip(tail[d])'
                          /\ pc'[d] \in {"new", "readTail", "readPrev", "insert"} => tries'[d] < Attempts
                          /\ pc'[d] = "new" => tries'[d] = 0
                          /\ pc'[d] = "readTail" => since'[d] + tries'[d] <= Len(chain')
                          /\ pc'[d] \in {"readPrev", "insert"} => since'[d] + tries'[d] <= tail'[d]
        BY DEF Locals
      <4>5. CASE d = c
        BY <4>2, <4>5
      <4>6. CASE d # c
        BY <3>1, <4>3, <4>4, <4>6 DEF IInv, Locals
      <4> QED BY <4>5, <4>6
    <3>5. Prefix'
      BY <3>1 DEF IInv, Prefix, readVars
    <3> QED BY <3>2, <3>3, <3>4, <3>5 DEF IInv
  <2> QED BY <2>1, <2>2
<1>6. ASSUME NEW c \in Calls, Throws(c)
      PROVE  IInv'
  <2>1. CASE chain' = chain
    <3>1. TypeOK'
      BY <1>6, <2>1 DEF Throws, IInv, TypeOK, Steps, readVars
    <3>2. ChainIntact'
      BY <2>1, SameChain DEF IInv
    <3>3. Locals'
      BY <1>6, <2>1 DEF Throws, IInv, TypeOK, Locals, Tip, Steps
    <3>4. Prefix'
      BY <1>6, <2>1 DEF Throws, IInv, Prefix, readVars
    <3> QED BY <3>1, <3>2, <3>3, <3>4 DEF IInv
  <2>2. CASE pc[c] = "insert" /\ Len(chain) = tail[c] /\ chain' = Append(chain, Link(c))
    <3>1. /\ chain' \in Seq(ChainedRow)
          /\ Len(chain') = Len(chain) + 1
          /\ \A i \in 1 .. Len(chain) : chain'[i] = chain[i]
          /\ \A n \in 0 .. Len(chain) : Tip(n)' = Tip(n)
          /\ ChainIntact'
      BY <2>2, Committed
    <3>2. TypeOK'
      BY <1>6, <3>1 DEF Throws, IInv, TypeOK, Steps, readVars
    <3>3. Locals'
      BY <1>6, <3>1 DEF Throws, IInv, TypeOK, Locals, Steps
    <3>4. Prefix'
      <4>1. UNCHANGED <<reader, pages, began>>
        BY <1>6 DEF Throws, readVars
      <4> QED BY <3>1, <4>1, PrefixGrows DEF IInv
    <3> QED BY <3>1, <3>2, <3>3, <3>4 DEF IInv
  <2> QED BY <1>6, <2>1, <2>2 DEF Throws
<1>7. CASE BeginReading
  <2>1. TypeOK'
    BY <1>7 DEF BeginReading, IInv, TypeOK, callVars
  <2>2. ChainIntact'
    BY <1>7, SameChain DEF BeginReading, IInv
  <2>3. Locals'
    BY <1>7 DEF BeginReading, IInv, Locals, Tip, callVars
  <2>4. Prefix'
    BY <1>7 DEF BeginReading, IInv, TypeOK, Prefix
  <2> QED BY <2>1, <2>2, <2>3, <2>4 DEF IInv
<1>8. CASE ReadPage
  <2> DEFINE page == PageAfter(Len(pages))
  <2>1. /\ page \in Seq(ChainedRow)
        /\ Len(pages) + Len(page) <= Len(chain)
        /\ Len(page) < PageSize => Len(pages) + Len(page) = Len(chain)
        /\ \A i \in 1 .. Len(page) : page[i] = chain[Len(pages) + i]
    <3>1. /\ TypeOK
          /\ Len(pages) \in Nat
          /\ Len(chain) \in Nat
          /\ Len(pages) <= Len(chain)
      BY DEF IInv, TypeOK, Prefix
    <3>2. /\ page \in Seq(ChainedRow)
          /\ Len(page) = IF Len(pages) + PageSize <= Len(chain)
                           THEN PageSize ELSE Len(chain) - Len(pages)
          /\ \A i \in 1 .. Len(page) : page[i] = chain[Len(pages) + i]
      BY <3>1, PageType
    <3> QED BY <3>1, <3>2 DEF ChainAssumption
  <2> HIDE DEF page
  <2>2. pages' = pages \o page /\ chain' = chain
    BY <1>8 DEF ReadPage, page
  <2>3. /\ pages' \in Seq(ChainedRow)
        /\ Len(pages') = Len(pages) + Len(page)
        /\ \A i \in 1 .. Len(pages') : pages'[i] = chain[i]
    BY <2>1, <2>2 DEF IInv, TypeOK, Prefix
  <2>4. TypeOK'
    BY <1>8, <2>3 DEF ReadPage, IInv, TypeOK, callVars
  <2>5. ChainIntact'
    BY <2>2, SameChain DEF IInv
  <2>6. Locals'
    BY <1>8 DEF ReadPage, IInv, Locals, Tip, callVars
  <2>7. Prefix'
    <3>1. Len(page) < PageSize => Len(pages) + Len(page) = Len(chain)
      BY <2>1
    <3>2. reader' = "done" => began' <= Len(pages')
      BY <1>8, <2>2, <2>3, <3>1 DEF ReadPage, page, IInv, TypeOK, Prefix
    <3>3. reader' = "reading" => began' <= Len(chain')
      BY <1>8 DEF ReadPage, IInv, TypeOK, Prefix
    <3> QED BY <2>1, <2>2, <2>3, <3>2, <3>3 DEF IInv, TypeOK, Prefix
  <2> QED BY <2>4, <2>5, <2>6, <2>7 DEF IInv
<1> QED
  BY <1>1, <1>2, <1>3, <1>4, <1>5, <1>6, <1>7, <1>8 DEF Next, AppendAudit, Reading

(* IInv holds of every state. *)
LEMMA Invariance == Spec => []IInv
<1>1. Init => IInv
  BY InitInv, ChainAssumption
<1>2. IInv /\ [Next]_vars => IInv'
  BY StepInv, ChainAssumption
<1> QED BY <1>1, <1>2, PTL DEF Spec

(* Every variable keeps to its kind, and no call of appendAudit makes more attempts than   *)
(* it is given, whatever the others do.                                                    *)
THEOREM TypeCorrect == Spec => []TypeOK
<1>1. IInv => TypeOK
  BY DEF IInv
<1> QED BY <1>1, Invariance, PTL

(* However many writers append at once, every row of the history names the digest of the   *)
(* row before it and carries its own: the conditional INSERT orphans no link.              *)
THEOREM Integrity == Spec => []ChainIntact
<1>1. IInv => ChainIntact
  BY DEF IInv
<1> QED BY <1>1, Invariance, PTL

(* A prefix of an intact chain verifies. *)
LEMMA PrefixVerifies ==
  ASSUME ChainIntact, Prefix, TypeOK
  PROVE  verifyChain(pages) = 0
<1>1. ASSUME NEW i \in 1 .. Len(pages)
      PROVE  /\ pages[i].prev = IF i = 1 THEN GENESIS ELSE pages[i - 1].digest
             /\ pages[i].digest = ChainDigest(pages[i].prev, pages[i].row)
  <2>1. i \in 1 .. Len(chain) /\ pages[i] = chain[i]
    BY DEF Prefix, TypeOK
  <2>2. i # 1 => i - 1 \in 1 .. Len(pages) /\ pages[i - 1] = chain[i - 1]
    BY DEF Prefix, TypeOK
  <2>3. Tip(i - 1) = IF i = 1 THEN GENESIS ELSE chain[i - 1].digest
    BY DEF Tip
  <2> QED BY <2>1, <2>2, <2>3 DEF ChainIntact
<1> QED BY <1>1 DEF verifyChain

(* A reading that ends while writers go on appending verifies, and misses nothing that was *)
(* there when it began: the page size bounds a page and never the reading.                 *)
THEOREM ReadingsHold == Spec => []ReadingHolds
<1>1. IInv => ReadingHolds
  BY PrefixVerifies DEF IInv, ReadingHolds, Prefix, TypeOK
<1> QED BY <1>1, Invariance, PTL

-----------------------------------------------------------------------------
(* The chain implements the log. *)

(* The log the chain stands for. *)
Rows == [i \in 1 .. Len(chain) |-> chain[i].row]

(* A chain that grew by one row is a log that grew by that row's event. *)
LEMMA RowsGrow ==
  ASSUME TypeOK, ChainAssumption, NEW c \in Calls, chain' = Append(chain, Link(c))
  PROVE  Rows' = Append(Rows, c)
<1>1. Link(c) \in ChainedRow /\ Link(c).row = c
  BY LinkType DEF Link
<1>2. /\ chain' \in Seq(ChainedRow)
      /\ Len(chain') = Len(chain) + 1
      /\ \A i \in 1 .. Len(chain) : chain'[i] = chain[i]
      /\ chain'[Len(chain) + 1] = Link(c)
  BY <1>1, AppendProperties DEF TypeOK
<1>3. \A i \in 1 .. Len(chain) : chain[i].row \in Calls
  <2>1. \A i \in 1 .. Len(chain) : chain[i] \in ChainedRow
    BY DEF TypeOK
  <2> QED BY <2>1 DEF ChainedRow
<1>4. Rows \in Seq(Calls) /\ Len(Rows) = Len(chain)
  BY <1>3 DEF Rows, TypeOK
<1>5. /\ Rows' \in Seq(Calls)
      /\ Len(Rows') = Len(chain) + 1
      /\ \A i \in 1 .. Len(chain) : Rows'[i] = Rows[i]
      /\ Rows'[Len(chain) + 1] = c
  <2>1. \A i \in 1 .. Len(chain) + 1 : chain'[i].row \in Calls
    BY <1>1, <1>2, <1>3 DEF TypeOK
  <2> QED BY <2>1, <1>1, <1>2 DEF Rows, TypeOK
<1>6. /\ Append(Rows, c) \in Seq(Calls)
      /\ Len(Append(Rows, c)) = Len(chain) + 1
      /\ \A i \in 1 .. Len(chain) : Append(Rows, c)[i] = Rows[i]
      /\ Append(Rows, c)[Len(chain) + 1] = c
  BY <1>4, AppendProperties
<1>7. ASSUME NEW i \in 1 .. Len(Rows')
      PROVE  Rows'[i] = Append(Rows, c)[i]
  <2>1. Len(chain) \in Nat
    BY DEF TypeOK
  <2>2. i \in 1 .. Len(chain) \/ i = Len(chain) + 1
    BY <1>5, <2>1
  <2> QED BY <1>5, <1>6, <2>2
<1> QED BY <1>5, <1>6, <1>7, SeqEqual

(* What each call has told its caller, all together. *)
Answers == [c \in Calls |-> Told(c)]

(* One call moved: one answer changed. *)
LEMMA AnswersMove ==
  ASSUME TypeOK, NEW c \in Calls, NEW s \in Steps, pc' = [pc EXCEPT ![c] = s]
  PROVE  Answers' = [Answers EXCEPT ![c] = Told(c)']
<1>1. \A d \in Calls \ {c} : Told(d)' = Told(d)
  BY DEF TypeOK, Told
<1> QED BY <1>1 DEF Answers

(* The chain starts as an empty log to which nobody has written. *)
LEMMA RefinesInit == Init => Log!Init
<1> SUFFICES ASSUME Init PROVE Log!Init
  OBVIOUS
<1>1. Rows = <<>>
  BY DEF Init, Rows
<1>2. Answers = [c \in Calls |-> "new"]
  BY DEF Init, Answers, Told
<1> QED BY <1>1, <1>2 DEF Init, Log!Init, Rows, Answers

(* Every step of the chain is a step of the log, or none. *)
LEMMA RefinesStep ==
  ASSUME ChainAssumption, IInv, [Next]_vars
  PROVE  [Log!Next]_(Log!vars)
<1>0. TypeOK
  BY DEF IInv
<1> DEFINE Still == Rows' = Rows /\ Answers' = Answers /\ since' = since
<1>1. ASSUME NEW c \in Calls, CheckAgentMay(c)
      PROVE  Log!Next
  <2>1. Rows' = Rows
    BY <1>1 DEF CheckAgentMay, Rows
  <2>2. Answers[c] = "new"
    BY <1>1 DEF CheckAgentMay, Answers, Told
  <2>3. CASE c \in Forbidden
    <3>1. Answers' = [Answers EXCEPT ![c] = "refused"]
      <4>1. pc' = [pc EXCEPT ![c] = "refused"]
        BY <1>1, <2>3 DEF CheckAgentMay
      <4>2. Told(c)' = "refused"
        BY <1>0, <4>1 DEF Told, TypeOK
      <4> QED BY <1>0, <4>1, <4>2, AnswersMove DEF Steps
    <3>2. since' = since
      BY <1>1, <2>3 DEF CheckAgentMay
    <3>3. Log!Refuse(c)
      BY <2>1, <2>2, <3>1, <3>2 DEF Log!Refuse, Rows, Answers
    <3> QED BY <3>3 DEF Log!Next
  <2>4. CASE c \notin Forbidden
    <3>1. Answers' = [Answers EXCEPT ![c] = "asked"]
      <4>1. pc' = [pc EXCEPT ![c] = "readTail"]
        BY <1>1, <2>4 DEF CheckAgentMay
      <4>2. Told(c)' = "asked"
        BY <1>0, <4>1 DEF Told, TypeOK
      <4> QED BY <1>0, <4>1, <4>2, AnswersMove DEF Steps
    <3>2. since' = [since EXCEPT ![c] = Len(Rows)]
      BY <1>0, <1>1, <2>4 DEF CheckAgentMay, Rows, TypeOK
    <3>3. Log!Ask(c)
      BY <2>1, <2>2, <3>1, <3>2 DEF Log!Ask, Rows, Answers
    <3> QED BY <3>3 DEF Log!Next
  <2> QED BY <2>3, <2>4
<1>2. ASSUME NEW c \in Calls, ReadTail(c) \/ ReadPrev(c)
      PROVE  Still
  <2>1. pc[c] \in {"readTail", "readPrev"} /\ UNCHANGED <<chain, since>>
    BY <1>2 DEF ReadTail, ReadPrev
  <2>2. PICK s \in {"readPrev", "insert"} : pc' = [pc EXCEPT ![c] = s]
    BY <1>2 DEF ReadTail, ReadPrev
  <2>3. Told(c) = "asked" /\ Told(c)' = "asked"
    BY <1>0, <2>1, <2>2 DEF Told, TypeOK
  <2>4. Answers' = Answers
    BY <1>0, <2>2, <2>3, AnswersMove DEF Answers, Steps
  <2> QED BY <2>1, <2>4 DEF Rows
<1>3. ASSUME NEW c \in Calls, pc[c] = "insert", chain' = Append(chain, Link(c)),
             NEW s \in {"true", "threw"}, pc' = [pc EXCEPT ![c] = s], since' = since
      PROVE  Log!Next
  <2>1. Rows' = Append(Rows, c)
    BY <1>0, <1>3, RowsGrow
  <2>2. Answers[c] = "asked"
    BY <1>3 DEF Answers, Told
  <2>3. Told(c)' \in {"recorded", "lost"}
    BY <1>0, <1>3 DEF Told, TypeOK
  <2>4. Answers' = [Answers EXCEPT ![c] = Told(c)']
    BY <1>0, <1>3, AnswersMove DEF Steps
  <2>5. Log!Record(c)
    BY <1>3, <2>1, <2>2, <2>3, <2>4 DEF Log!Record, Rows, Answers
  <2> QED BY <2>5 DEF Log!Next
<1>4. ASSUME NEW c \in Calls, Insert(c)
      PROVE  Log!Next \/ Still
  <2>1. CASE Len(chain) = tail[c]
    BY <1>3, <1>4, <2>1 DEF Insert
  <2>2. CASE Len(chain) # tail[c]
    <3>1. /\ pc[c] = "insert"
          /\ chain' = chain
          /\ since' = since
          /\ pc' = [pc EXCEPT ![c] = IF tries'[c] < Attempts THEN "readTail" ELSE "false"]
          /\ tries' = [tries EXCEPT ![c] = tries[c] + 1]
      BY <1>4, <2>2 DEF Insert
    <3>2. Rows' = Rows /\ Answers[c] = "asked"
      BY <3>1 DEF Rows, Answers, Told
    <3>3. CASE tries'[c] < Attempts
      <4>1. pc' = [pc EXCEPT ![c] = "readTail"]
        BY <3>1, <3>3
      <4>2. Told(c)' = "asked"
        BY <1>0, <4>1 DEF Told, TypeOK
      <4>3. Answers' = Answers
        BY <1>0, <3>2, <4>1, <4>2, AnswersMove DEF Answers, Steps
      <4> QED BY <3>1, <3>2, <4>3
    <3>4. CASE ~(tries'[c] < Attempts)
      <4>1. pc' = [pc EXCEPT ![c] = "false"]
        BY <3>1, <3>4
      <4>2. Told(c)' = "unrecorded"
        BY <1>0, <4>1 DEF Told, TypeOK
      <4>3. Answers' = [Answers EXCEPT ![c] = "unrecorded"]
        BY <1>0, <4>1, <4>2, AnswersMove DEF Steps
      <4>4. Len(Rows) >= since[c] + Attempts
        <5>1. /\ tries[c] \in Nat /\ since[c] \in Nat /\ tail[c] \in Nat
              /\ Len(chain) \in Nat /\ Attempts \in Nat
              /\ tail[c] <= Len(chain)
              /\ since[c] + tries[c] <= tail[c]
              /\ tries'[c] = tries[c] + 1
          BY <3>1 DEF IInv, TypeOK, Locals, ChainAssumption
        <5>2. Len(Rows) = Len(chain)
          BY <1>0 DEF Rows, TypeOK
        <5> QED BY <2>2, <3>4, <5>1, <5>2
      <4>5. Log!GiveUp(c)
        BY <3>1, <3>2, <4>3, <4>4 DEF Log!GiveUp, Rows, Answers
      <4> QED BY <4>5 DEF Log!Next
    <3> QED BY <3>3, <3>4
  <2> QED BY <2>1, <2>2
<1>5. ASSUME NEW c \in Calls, Throws(c)
      PROVE  Log!Next
  <2>1. /\ pc[c] \in {"readTail", "readPrev", "insert"}
        /\ pc' = [pc EXCEPT ![c] = "threw"]
        /\ since' = since
    BY <1>5 DEF Throws
  <2>2. CASE chain' = chain
    <3>1. Rows' = Rows /\ Answers[c] = "asked"
      BY <2>1, <2>2 DEF Rows, Answers, Told
    <3>2. Told(c)' = "lost"
      BY <1>0, <2>1 DEF Told, TypeOK
    <3>3. Answers' = [Answers EXCEPT ![c] = "lost"]
      BY <1>0, <2>1, <3>2, AnswersMove DEF Steps
    <3>4. Log!Lose(c)
      BY <2>1, <3>1, <3>3 DEF Log!Lose, Rows, Answers
    <3> QED BY <3>4 DEF Log!Next
  <2>3. CASE pc[c] = "insert" /\ chain' = Append(chain, Link(c))
    BY <1>3, <2>1, <2>3
  <2> QED BY <1>5, <2>2, <2>3 DEF Throws
<1>6. ASSUME Reading \/ UNCHANGED vars
      PROVE  Still
  <2>1. UNCHANGED <<chain, pc, since>>
    BY <1>6 DEF Reading, BeginReading, ReadPage, vars, callVars
  <2> QED BY <2>1 DEF Rows, Answers, Told
<1>7. Still => UNCHANGED Log!vars
  BY DEF Log!vars, Rows, Answers
<1> QED BY <1>1, <1>2, <1>4, <1>5, <1>6, <1>7 DEF Next, AppendAudit

(* For any number of callers, attempts and digests the chain is the log it promises to be: *)
(* it only grows, one event at a time; a caller told "recorded" finds its event in it, a   *)
(* caller refused or told "unrecorded" does not; and giving up takes as many appends by    *)
(* others as the call had attempts.                                                        *)
THEOREM Implements == Spec => KeepsTheLog
<1>1. Init => Log!Init
  BY RefinesInit
<1>2. IInv /\ [Next]_vars => [Log!Next]_(Log!vars)
  BY RefinesStep, ChainAssumption
<1> QED BY <1>1, <1>2, Invariance, PTL DEF Spec, KeepsTheLog, Log!Spec
=============================================================================
