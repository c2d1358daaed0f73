------------------------- MODULE IdentifierTableProofs -------------------------
(***************************************************************************)
(* Proofs about IdentifierTable, for any requests, operations and targets. *)
(*                                                                         *)
(* With the daemons: the table holds only rows that my_full_clean accepts, *)
(* the newest state queued for the search indexer is the row, and what was *)
(* published stays so.  The last needs to know what a request's metadata   *)
(* makes of a row, element after element: LeastNumber stands for the       *)
(* induction, and CopiesOfPublished says what copies can be abroad.        *)
(*                                                                         *)
(* Without them: the web server's requests implement AtomicTable.  The     *)
(* argument is that a request in progress is the only one, so that the     *)
(* copy it works on is what the operation makes of the row as it still is  *)
(* (Serial).  Then both queues end with what the row is.                   *)
(***************************************************************************)
EXTENDS IdentifierTable, SequenceTheorems, WellFoundedInduction, TLAPS

\* The copies of requests that are about to write are rows, and clean.
Copies ==
    \A r \in Requests :
        /\ pc[r] # "new" => asked[r] \in Operations
        /\ pc[r] \in {"saving", "deleting"} => si[r] \in Rows /\ clean(si[r]) = si[r]

IInv == TypeOK /\ Copies

-----------------------------------------------------------------------------
(* The constants and the operations on a row                               *)

USE RowAssumption, TableAssumption

LEMMA CleanTyped ==
    ASSUME NEW c
    PROVE  /\ clean(c) \in Rows \union {Rejected}
           /\ clean(c) # Rejected => clean(clean(c)) = clean(c)
  BY DEF clean

LEMMA CreatedTyped ==
    ASSUME NEW m, NEW u, Created(m, u) # Rejected
    PROVE  Created(m, u) \in Rows /\ clean(Created(m, u)) = Created(m, u)
<1> DEFINE blank == [status |-> "public", crossref |-> "", target |-> DefaultTarget]
           c == updateFromUntrustedLegacy(blank, FALSE, m, u)
<1>1. Created(m, u) = clean(c) \/ Created(m, u) = clean(RegisterWithCrossref(c))
  BY DEF Created
<1> HIDE DEF c
<1>2. QED
  BY <1>1, CleanTyped

LEMMA UpdatedTyped ==
    ASSUME NEW c, NEW m, NEW u, NEW x, Updated(c, m, u, x) # Rejected
    PROVE  Updated(c, m, u, x) \in Rows /\ clean(Updated(c, m, u, x)) = Updated(c, m, u, x)
<1> DEFINE d == updateFromUntrustedLegacy(c, TRUE, m, u)
<1>1. Updated(c, m, u, x) = clean(d) \/ Updated(c, m, u, x) = clean(RegisterWithCrossref(d))
  BY DEF Updated
<1> HIDE DEF d
<1>2. QED
  BY <1>1, CleanTyped

LEMMA DaemonAsksUpdates == DaemonOperations \subseteq Operations
<1> SUFFICES ASSUME NEW s \in {"working", "success", "warning", "failure"}
             PROVE  [kind |-> "update", user |-> "admin",
                     metadata |-> <<[key |-> "_crossref", value |-> s]>>,
                     external |-> FALSE, updateIfExists |-> FALSE] \in Operations
  BY DEF DaemonOperations
<1>1. [key |-> "_crossref", value |-> s] \in Elements
  BY DEF Elements, CrossrefStatuses
<1>2. <<[key |-> "_crossref", value |-> s]>> \in Seq(Elements)
  BY <1>1
<1>3. QED
  BY <1>2 DEF Operations, People

LEMMA EnqueueTyped ==
    ASSUME searchQueue \in Seq(Snapshots), externalQueue \in Seq(Snapshots),
           NEW c \in Rows, NEW op \in {"create", "update", "delete"}, NEW x,
           enqueue(c, op, x)
    PROVE  searchQueue' \in Seq(Snapshots) /\ externalQueue' \in Seq(Snapshots)
<1>1. [op |-> op, row |-> c] \in Snapshots
  BY DEF Snapshots
<1>2. QED
  BY <1>1 DEF enqueue

-----------------------------------------------------------------------------
(* Every step keeps the types                                              *)

LEMMA InitHolds == Init => IInv
<1> SUFFICES ASSUME Init PROVE IInv
  OBVIOUS
<1>1. failures \in 0..MaxFailures
  BY DEF Init
<1>2. searchQueue \in Seq(Snapshots) /\ externalQueue \in Seq(Snapshots)
  BY DEF Init
<1>3. lastPk \in Nat /\ pk \in 0..lastPk /\ siPk \in [Requests -> 0..lastPk]
  BY DEF Init
<1>4. TypeOK
  BY <1>1, <1>2, <1>3 DEF Init, TypeOK, Phases
<1>5. Copies
  BY DEF Init, Copies
<1>6. QED
  BY <1>4, <1>5 DEF IInv

LEMMA BeginHolds ==
    ASSUME NEW r \in Requests, NEW op \in Operations
    PROVE  IInv /\ Begin(r, op) => IInv'
<1> SUFFICES ASSUME IInv, Begin(r, op) PROVE IInv'
  OBVIOUS
<1>1. TypeOK'
  BY DEF IInv, TypeOK, Begin, database, Phases
<1>2. Copies'
  BY DEF IInv, TypeOK, Copies, Begin
<1>3. QED
  BY <1>1, <1>2 DEF IInv

LEMMA PrepareCreateHolds ==
    ASSUME NEW r \in Requests
    PROVE  IInv /\ PrepareCreate(r) => IInv'
<1> SUFFICES ASSUME IInv, PrepareCreate(r) PROVE IInv'
  OBVIOUS
<1> DEFINE new == Created(asked[r].metadata, asked[r].user)
<1>1. CASE \E a \in {"forbidden", "bad request"} : Finish(r, a) /\ UNCHANGED <<si, siPk>>
  <2>1. TypeOK'
    BY <1>1 DEF IInv, TypeOK, PrepareCreate, Finish, database, Phases, Answers
  <2>2. Copies'
    BY <1>1 DEF IInv, TypeOK, Copies, PrepareCreate, Finish
  <2>3. QED
    BY <2>1, <2>2 DEF IInv
<1>2. CASE /\ new # Rejected
           /\ pc' = [pc EXCEPT ![r] = "saving"]
           /\ si' = [si EXCEPT ![r] = new]
           /\ siPk' = [siPk EXCEPT ![r] = 0]
           /\ UNCHANGED <<asked, answer, failures>>
  <2>1. new \in Rows /\ clean(new) = new
    BY <1>2, CreatedTyped
  <2> HIDE DEF new
  <2>2. TypeOK'
    <3>1. TypeOK
      BY DEF IInv
    <3>2. siPk' \in [Requests -> 0..lastPk]
      BY <1>2, <3>1 DEF TypeOK
    <3>3. /\ pc' \in [Requests -> Phases] /\ si' \in [Requests -> Rows \union {NoRow}]
          /\ UNCHANGED <<asked, answer, failures>>
      BY <1>2, <2>1, <3>1 DEF TypeOK, Phases
    <3>4. UNCHANGED <<row, pk, lastPk, searchQueue, externalQueue>>
      BY DEF PrepareCreate, database
    <3>5. QED
      BY <3>1, <3>2, <3>3, <3>4 DEF TypeOK
  <2>3. Copies'
    BY <1>2, <2>1 DEF IInv, TypeOK, Copies, PrepareCreate
  <2>4. QED
    BY <2>2, <2>3 DEF IInv
<1>3. QED
  BY <1>1, <1>2 DEF PrepareCreate

LEMMA ReadRowHolds ==
    ASSUME NEW r \in Requests
    PROVE  IInv /\ ReadRow(r) => IInv'
<1> SUFFICES ASSUME IInv, ReadRow(r) PROVE IInv'
  OBVIOUS
<1> DEFINE op == asked[r]
           new == IF op.kind = "delete"
                  THEN IF MayDelete(row, op.user) THEN row ELSE Rejected
                  ELSE Updated(row, op.metadata, op.user, op.external)
<1>1. CASE \E a \in {"no such identifier", "forbidden", "bad request"} :
              Finish(r, a) /\ UNCHANGED <<si, siPk>>
  <2>1. TypeOK'
    BY <1>1 DEF IInv, TypeOK, ReadRow, Finish, database, Phases, Answers
  <2>2. Copies'
    BY <1>1 DEF IInv, TypeOK, Copies, ReadRow, Finish
  <2>3. QED
    BY <2>1, <2>2 DEF IInv
<1>2. CASE /\ row # NoRow
           /\ new # Rejected
           /\ pc' = [pc EXCEPT ![r] = IF op.kind = "delete" THEN "deleting" ELSE "saving"]
           /\ si' = [si EXCEPT ![r] = new]
           /\ siPk' = [siPk EXCEPT ![r] = pk]
           /\ UNCHANGED <<asked, answer, failures>>
  <2>1. new \in Rows /\ clean(new) = new
    <3>1. CASE op.kind = "delete"
      BY <1>2, <3>1 DEF IInv, TypeOK
    <3>2. CASE op.kind # "delete"
      BY <1>2, <3>2, UpdatedTyped
    <3>3. QED
      BY <3>1, <3>2
  <2> HIDE DEF new
  <2>2. TypeOK'
    BY <1>2, <2>1 DEF IInv, TypeOK, ReadRow, database, Phases
  <2>3. Copies'
    BY <1>2, <2>1 DEF IInv, TypeOK, Copies, ReadRow
  <2>4. QED
    BY <2>2, <2>3 DEF IInv
<1>3. QED
  BY <1>1, <1>2 DEF ReadRow

LEMMA SaveRowHolds ==
    ASSUME NEW r \in Requests
    PROVE  IInv /\ SaveRow(r) => IInv'
<1> SUFFICES ASSUME IInv, SaveRow(r) PROVE IInv'
  OBVIOUS
<1>1. TypeOK /\ Copies
  BY DEF IInv
<1>2. si[r] \in Rows /\ clean(si[r]) = si[r]
  BY <1>1 DEF Copies, SaveRow
<1>3. searchQueue' \in Seq(Snapshots) /\ externalQueue' \in Seq(Snapshots)
  BY <1>1, <1>2, EnqueueTyped DEF TypeOK, SaveRow
<1>4. /\ lastPk' \in Nat /\ pk' \in 1..lastPk' /\ lastPk <= lastPk'
      /\ siPk' \in [Requests -> 0..lastPk']
  <2>1. lastPk \in Nat /\ siPk \in [Requests -> 0..lastPk]
    BY <1>1 DEF TypeOK
  <2>2. lastPk' \in Nat /\ lastPk <= lastPk' /\ siPk' = siPk
    BY <2>1 DEF SaveRow
  <2>3. pk' \in 1..lastPk'
    BY <2>1, <2>2 DEF SaveRow
  <2>4. \A s \in Requests : siPk[s] \in 0..lastPk'
    BY <2>1, <2>2
  <2>5. QED
    BY <2>1, <2>2, <2>3, <2>4
<1>5. row' \in Rows /\ clean(row') = row' /\ row' # NoRow /\ pk' # 0
  BY <1>2, <1>4 DEF SaveRow
<1>6. /\ pc' \in [Requests -> Phases] /\ answer' \in [Requests -> Answers \union {NoAnswer}]
      /\ UNCHANGED <<asked, si, failures>>
  BY <1>1 DEF TypeOK, SaveRow, Finish, Phases, Answers
<1>7. pk' \in 0..lastPk'
  BY <1>4
<1>8. TypeOK'
  BY <1>1, <1>3, <1>4, <1>5, <1>6, <1>7 DEF TypeOK
<1>9. Copies'
  BY <1>1 DEF TypeOK, Copies, SaveRow, Finish
<1>10. QED
  BY <1>8, <1>9 DEF IInv

LEMMA SaveCollidesHolds ==
    ASSUME NEW r \in Requests
    PROVE  IInv /\ SaveCollides(r) => IInv'
<1> SUFFICES ASSUME IInv, SaveCollides(r) PROVE IInv'
  OBVIOUS
<1>1. TypeOK'
  BY DEF IInv, TypeOK, SaveCollides, Finish, database, Phases, Answers
<1>2. Copies'
  BY DEF IInv, TypeOK, Copies, SaveCollides, Finish
<1>3. QED
  BY <1>1, <1>2 DEF IInv

LEMMA DeleteRowHolds ==
    ASSUME NEW r \in Requests
    PROVE  IInv /\ DeleteRow(r) => IInv'
<1> SUFFICES ASSUME IInv, DeleteRow(r) PROVE IInv'
  OBVIOUS
<1>1. TypeOK /\ Copies
  BY DEF IInv
<1>2. searchQueue' \in Seq(Snapshots) /\ externalQueue' \in Seq(Snapshots)
  BY <1>1, EnqueueTyped DEF TypeOK, Copies, DeleteRow
<1>3. (row' = row /\ pk' = pk) \/ (row' = NoRow /\ pk' = 0)
  BY DEF DeleteRow
<1>4. /\ pc' \in [Requests -> Phases] /\ answer' \in [Requests -> Answers \union {NoAnswer}]
      /\ UNCHANGED <<asked, si, siPk, lastPk, failures>>
  BY <1>1 DEF TypeOK, DeleteRow, Finish, Phases, Answers
<1>5. TypeOK'
  BY <1>1, <1>2, <1>3, <1>4 DEF TypeOK
<1>6. Copies'
  BY <1>1 DEF TypeOK, Copies, DeleteRow, Finish
<1>7. QED
  BY <1>5, <1>6 DEF IInv

LEMMA TransactionFailsHolds ==
    ASSUME NEW r \in Requests
    PROVE  IInv /\ TransactionFails(r) => IInv'
<1> SUFFICES ASSUME IInv, TransactionFails(r) PROVE IInv'
  OBVIOUS
<1>1. TypeOK'
  <2>1. pc' \in [Requests -> Phases] /\ answer' \in [Requests -> Answers \union {NoAnswer}]
    BY DEF IInv, TypeOK, TransactionFails, Phases, Answers
  <2>2. failures' \in 0..MaxFailures
    <3>1. failures \in 0..MaxFailures
      BY DEF IInv, TypeOK
    <3>2. failures < MaxFailures /\ failures' = failures + 1
      BY DEF TransactionFails
    <3>3. QED
      BY <3>1, <3>2
  <2>3. UNCHANGED <<row, pk, lastPk, searchQueue, externalQueue, asked, si, siPk>>
    BY DEF TransactionFails, database
  <2>4. QED
    BY <2>1, <2>2, <2>3 DEF IInv, TypeOK
<1>2. Copies'
  BY DEF IInv, TypeOK, Copies, TransactionFails
<1>3. QED
  BY <1>1, <1>2 DEF IInv

LEMMA RestartHolds == IInv /\ Restart => IInv'
<1> SUFFICES ASSUME IInv, Restart PROVE IInv'
  OBVIOUS
<1>1. PICK lost \in SUBSET {r \in WebRequests : InProgress(r)} :
        /\ pc' = [r \in Requests |-> IF r \in lost THEN "done" ELSE pc[r]]
        /\ answer' = [r \in Requests |-> IF r \in lost THEN "lost" ELSE answer[r]]
  BY DEF Restart
<1>2. TypeOK'
  <2>1. pc' \in [Requests -> Phases] /\ answer' \in [Requests -> Answers \union {NoAnswer}]
    BY <1>1 DEF IInv, TypeOK, Phases, Answers
  <2>2. failures' \in 0..MaxFailures /\ UNCHANGED <<database, asked, si, siPk>>
    BY DEF IInv, TypeOK, Restart
  <2>3. QED
    BY <2>1, <2>2 DEF IInv, TypeOK, database
<1>3. Copies'
  BY <1>1 DEF IInv, TypeOK, Copies, Restart, InProgress
<1>4. QED
  BY <1>2, <1>3 DEF IInv

LEMMA ExpungeHolds == IInv /\ Expunge => IInv'
<1> SUFFICES ASSUME IInv, Expunge PROVE IInv'
  OBVIOUS
<1>1. TypeOK /\ Copies
  BY DEF IInv
<1>2. searchQueue' \in Seq(Snapshots) /\ externalQueue' \in Seq(Snapshots)
  BY <1>1, EnqueueTyped DEF TypeOK, Expunge
<1>3. TypeOK'
  BY <1>1, <1>2 DEF TypeOK, Expunge
<1>4. Copies'
  BY <1>1 DEF Copies, Expunge
<1>5. QED
  BY <1>3, <1>4 DEF IInv

LEMMA ReadBatchHolds ==
    ASSUME NEW r \in CommandRequests
    PROVE  IInv /\ ReadBatch(r) => IInv'
<1> SUFFICES ASSUME IInv, ReadBatch(r) PROVE IInv'
  OBVIOUS
<1>1. r \in Requests /\ row \in Rows /\ clean(row) = row /\ pk \in 0..lastPk
  BY DEF Requests, IInv, TypeOK, ReadBatch
<1>2. ExpungeOperation \in Operations
  BY DEF ExpungeOperation, Operations, People
<1>3. TypeOK'
  BY <1>1, <1>2 DEF IInv, TypeOK, ReadBatch, database, Phases
<1>4. Copies'
  BY <1>1, <1>2 DEF IInv, TypeOK, Copies, ReadBatch
<1>5. QED
  BY <1>3, <1>4 DEF IInv

LEMMA StutterHolds == IInv /\ UNCHANGED vars => IInv'
  BY DEF IInv, TypeOK, Copies, vars, database

\* What a step of the system may be, with the operation a request begins.
LEMMA NextIs ==
    ASSUME Next
    PROVE  \/ \E r \in Requests, op \in Operations : Begin(r, op)
           \/ \E r \in Requests : Step(r)
           \/ Restart
           \/ Expunge
           \/ \E r \in CommandRequests : ReadBatch(r)
  BY DaemonAsksUpdates DEF Next, CrossrefAnswers, Requests

LEMMA NextHolds == IInv /\ [Next]_vars => IInv'
<1> SUFFICES ASSUME IInv, [Next]_vars PROVE IInv'
  OBVIOUS
<1>1. CASE UNCHANGED vars
  BY <1>1, StutterHolds
<1>2. ASSUME NEW r \in Requests, NEW op \in Operations, Begin(r, op) PROVE IInv'
  BY <1>2, BeginHolds
<1>3. ASSUME NEW r \in Requests, Step(r) PROVE IInv'
  BY <1>3, PrepareCreateHolds, ReadRowHolds, SaveRowHolds, SaveCollidesHolds, DeleteRowHolds,
     TransactionFailsHolds DEF Step
<1>4. CASE Restart \/ Expunge
  BY <1>4, RestartHolds, ExpungeHolds
<1>5. ASSUME NEW r \in CommandRequests, ReadBatch(r) PROVE IInv'
  BY <1>5, ReadBatchHolds
<1>6. QED
  BY <1>1, <1>2, <1>3, <1>4, <1>5, NextIs

\* The table holds no row that my_full_clean refuses, whoever writes it, and the
\* queues hold snapshots of rows.
THEOREM TableTyped == Spec => []TypeOK
<1>1. IInv => TypeOK
  BY DEF IInv
<1>2. QED
  BY <1>1, InitHolds, NextHolds, PTL DEF Spec

-----------------------------------------------------------------------------
(* What is queued for the search indexer                                   *)

\* A snapshot that is appended is the newest.
LEMMA Queued ==
    ASSUME IInv, NEW c \in Rows, NEW op \in {"create", "update", "delete"}, NEW x,
           enqueue(c, op, x)
    PROVE  /\ Len(searchQueue') = Len(searchQueue) + 1 /\ Len(searchQueue) \in Nat
           /\ searchQueue'[Len(searchQueue) + 1] = [op |-> op, row |-> c]
           /\ \A n \in 1..Len(searchQueue) : searchQueue'[n] = searchQueue[n]
           /\ DOMAIN searchQueue = 1..Len(searchQueue)
           /\ DOMAIN searchQueue' = 1..Len(searchQueue) + 1
<1>1. searchQueue \in Seq(Snapshots) /\ [op |-> op, row |-> c] \in Snapshots
  BY DEF IInv, TypeOK, Snapshots
<1>2. searchQueue' = Append(searchQueue, [op |-> op, row |-> c])
  BY DEF enqueue
<1>3. QED
  BY <1>1, <1>2

LEMMA NewestKept ==
    ASSUME IInv, IInv', NewestSnapshotIsRow, [Next]_vars
    PROVE  NewestSnapshotIsRow'
<1>1. CASE UNCHANGED <<row, searchQueue>>
  BY <1>1 DEF NewestSnapshotIsRow
<1>2. ASSUME NEW r \in Requests, SaveRow(r) PROVE NewestSnapshotIsRow'
  <2> DEFINE op == IF siPk[r] = 0 THEN "create" ELSE "update"
             n == Len(searchQueue) + 1
  <2>1. row' = si[r] /\ si[r] \in Rows /\ enqueue(si[r], op, asked[r].external)
    BY <1>2 DEF SaveRow, IInv, Copies
  <2>2. /\ Len(searchQueue) \in Nat /\ DOMAIN searchQueue' = 1..n
        /\ searchQueue'[n] = [op |-> op, row |-> si[r]]
    BY <2>1, Queued
  <2>3. /\ n \in DOMAIN searchQueue' /\ searchQueue'[n].op # "delete" /\ searchQueue'[n].row = row'
        /\ \A m \in DOMAIN searchQueue' : ~(m > n)
    BY <2>1, <2>2
  <2>4. QED
    BY <2>3 DEF NewestSnapshotIsRow
<1>3. ASSUME NEW r \in Requests, DeleteRow(r) PROVE NewestSnapshotIsRow'
  <2>1. si[r] \in Rows /\ enqueue(si[r], "delete", asked[r].external)
    BY <1>3 DEF DeleteRow, IInv, Copies
  <2>2. SUFFICES ASSUME row' = row, row # NoRow
                 PROVE  NewestSnapshotIsRow'
    BY <1>3 DEF DeleteRow, NewestSnapshotIsRow
  <2>3. PICK n \in DOMAIN searchQueue :
           /\ searchQueue[n].op # "delete"
           /\ searchQueue[n].row = row
           /\ \A m \in DOMAIN searchQueue : m > n => searchQueue[m].op = "delete"
    BY <2>2 DEF NewestSnapshotIsRow
  <2>4. /\ Len(searchQueue) \in Nat
        /\ DOMAIN searchQueue = 1..Len(searchQueue)
        /\ DOMAIN searchQueue' = 1..Len(searchQueue) + 1
        /\ searchQueue'[Len(searchQueue) + 1] = [op |-> "delete", row |-> si[r]]
        /\ \A m \in 1..Len(searchQueue) : searchQueue'[m] = searchQueue[m]
    BY <2>1, Queued
  <2>5. \A m \in DOMAIN searchQueue' : m > n => searchQueue'[m].op = "delete"
    BY <2>3, <2>4
  <2>6. n \in DOMAIN searchQueue' /\ searchQueue'[n] = searchQueue[n]
    BY <2>3, <2>4
  <2>7. QED
    BY <2>2, <2>3, <2>5, <2>6 DEF NewestSnapshotIsRow
<1>4. CASE Expunge
  BY <1>4 DEF Expunge, NewestSnapshotIsRow
<1>5. CASE Restart \/ \E r \in Requests, op \in Operations : Begin(r, op)
  BY <1>1, <1>5 DEF Restart, Begin, database
<1>6. ASSUME NEW r \in Requests,
             PrepareCreate(r) \/ ReadRow(r) \/ SaveCollides(r) \/ TransactionFails(r)
      PROVE  UNCHANGED <<row, searchQueue>>
  BY <1>6 DEF PrepareCreate, ReadRow, SaveCollides, TransactionFails, database
<1>7. CASE UNCHANGED vars
  BY <1>1, <1>7 DEF vars, database
<1>8. CASE \E r \in CommandRequests : ReadBatch(r)
  BY <1>1, <1>8 DEF ReadBatch, database
<1>9. QED
  BY <1>1, <1>2, <1>3, <1>4, <1>5, <1>6, <1>7, <1>8, NextIs DEF Step

\* No transaction saves a row without queueing that very row, whoever made it and
\* from however old a copy, the Crossref daemon included.
THEOREM NewestQueued == Spec => []NewestSnapshotIsRow
<1>1. Init => NewestSnapshotIsRow
  BY DEF Init, NewestSnapshotIsRow
<1>2. QED
  BY <1>1, InitHolds, NextHolds, NewestKept, PTL DEF Spec

-----------------------------------------------------------------------------
(* The web server alone                                                    *)

WebOnly == DaemonRequests = {} /\ CommandRequests = {} /\ Expunging = FALSE

\* A create that found the identifier there and goes on as an update.
Collided(r) ==
    /\ asked[r].kind = "create"
    /\ Authorized(asked[r].user)
    /\ Created(asked[r].metadata, asked[r].user) # Rejected
    /\ asked[r].updateIfExists
    /\ row # NoRow

\* The copy of a request in progress is what it makes of the row as it is.
Prepared(r) ==
    LET op == asked[r]
    IN  /\ pc[r] = "creating" => op.kind = "create"
        /\ pc[r] = "reading" => op.kind \in {"update", "delete"} \/ Collided(r)
        /\ pc[r] = "saving" /\ siPk[r] = 0 =>
              /\ op.kind = "create" /\ Authorized(op.user)
              /\ si[r] = Created(op.metadata, op.user)
        /\ pc[r] = "saving" /\ siPk[r] # 0 =>
              /\ op.kind = "update" \/ Collided(r)
              /\ row # NoRow /\ pk = siPk[r] /\ Authorized(op.user)
              /\ si[r] = Updated(row, op.metadata, op.user, op.external)
        /\ pc[r] = "deleting" =>
              /\ op.kind = "delete"
              /\ row # NoRow /\ pk = siPk[r] /\ Authorized(op.user)
              /\ MayDelete(row, op.user)

\* A request in progress is the only one; it was asked and is not answered.
Serial ==
    /\ \A r, s \in Requests : InProgress(r) /\ InProgress(s) => r = s
    /\ \A r \in Requests : /\ asked[r] = NoOperation <=> pc[r] = "new"
                           /\ answer[r] = NoAnswer <=> pc[r] # "done"
    /\ \A r \in Requests : Prepared(r)

\* A request changes nothing of one that is not in progress.
LEMMA IdlePrepared ==
    ASSUME NEW s \in Requests, pc[s] \in {"new", "done"}
    PROVE  Prepared(s)
  BY DEF Prepared

LEMMA SerialInit == Init => Serial
  BY DEF Init, Serial, Prepared, InProgress

LEMMA SerialAfter ==
    ASSUME IInv, Serial, NEW r \in Requests, InProgress(r),
           pc' \in [Requests -> Phases],
           \A s \in Requests \ {r} : /\ pc'[s] = pc[s]
                                     /\ asked'[s] = asked[s] /\ answer'[s] = answer[s],
           asked'[r] = asked[r] /\ pc'[r] # "new",
           answer'[r] = NoAnswer <=> pc'[r] # "done",
           Prepared(r)'
    PROVE  Serial'
<1>1. ASSUME NEW s \in Requests \ {r} PROVE pc[s] \in {"new", "done"}
  BY <1>1 DEF Serial, InProgress
<1>2. \A s, t \in Requests : InProgress(s)' /\ InProgress(t)' => s = t
  BY <1>1 DEF InProgress
<1>3. ASSUME NEW s \in Requests
      PROVE  /\ asked'[s] = NoOperation <=> pc'[s] = "new"
             /\ answer'[s] = NoAnswer <=> pc'[s] # "done"
  BY DEF Serial, InProgress
<1>4. ASSUME NEW s \in Requests PROVE Prepared(s)'
  BY <1>1 DEF Prepared
<1>5. QED
  BY <1>2, <1>3, <1>4 DEF Serial

LEMMA SerialBegin ==
    ASSUME WebOnly, IInv, Serial, NEW r \in Requests, NEW op \in Operations, Begin(r, op)
    PROVE  Serial'
<1>1. \A s \in Requests : pc[s] \in {"new", "done"}
  BY DEF WebOnly, Begin, LockFree, SameProcess, Requests, InProgress
<1>2. /\ pc[r] = "new"
      /\ pc'[r] = IF op.kind = "create" THEN "creating" ELSE "reading"
      /\ asked'[r] = op /\ op # NoOperation /\ answer' = answer
      /\ \A s \in Requests \ {r} : pc'[s] = pc[s] /\ asked'[s] = asked[s]
  BY DEF Begin, IInv, TypeOK
<1>3. op.kind \in {"create", "update", "delete"}
  BY DEF Operations
<1>4. ASSUME NEW s \in Requests PROVE Prepared(s)'
  BY <1>1, <1>2, <1>3 DEF Prepared
<1>5. \A s, t \in Requests : InProgress(s)' /\ InProgress(t)' => s = t
  BY <1>1, <1>2 DEF InProgress
<1>6. ASSUME NEW s \in Requests
      PROVE  /\ asked'[s] = NoOperation <=> pc'[s] = "new"
             /\ answer'[s] = NoAnswer <=> pc'[s] # "done"
  BY <1>1, <1>2 DEF Serial
<1>7. QED
  BY <1>4, <1>5, <1>6 DEF Serial

\* A request that was answered is prepared for nothing.
LEMMA SerialFinish ==
    ASSUME IInv, IInv', Serial, NEW r \in Requests, InProgress(r), NEW a \in Answers,
           pc' = [pc EXCEPT ![r] = "done"], answer' = [answer EXCEPT ![r] = a],
           UNCHANGED asked
    PROVE  Serial'
<1>1. /\ pc'[r] = "done" /\ answer'[r] = a /\ a # NoAnswer
      /\ \A s \in Requests \ {r} : pc'[s] = pc[s] /\ answer'[s] = answer[s]
  BY DEF IInv, TypeOK
<1>2. Prepared(r)'
  BY <1>1 DEF Prepared
<1>3. pc' \in [Requests -> Phases]
  BY DEF IInv, TypeOK
<1>4. QED
  BY <1>1, <1>2, <1>3, SerialAfter

LEMMA SerialPrepareCreate ==
    ASSUME IInv, IInv', Serial, NEW r \in Requests, PrepareCreate(r)
    PROVE  Serial'
<1> DEFINE new == Created(asked[r].metadata, asked[r].user)
<1>1. InProgress(r) /\ asked[r].kind = "create" /\ pc[r] = "creating" /\ answer[r] = NoAnswer
  BY DEF PrepareCreate, InProgress, Serial, Prepared
<1>2. ASSUME NEW a \in {"forbidden", "bad request"}, Finish(r, a) PROVE Serial'
  BY <1>1, <1>2, SerialFinish DEF Finish, Answers
<1>3. ASSUME Authorized(asked[r].user),
             pc' = [pc EXCEPT ![r] = "saving"], si' = [si EXCEPT ![r] = new],
             siPk' = [siPk EXCEPT ![r] = 0], UNCHANGED <<asked, answer, failures>>
      PROVE  Serial'
  <2>1. /\ pc'[r] = "saving" /\ si'[r] = new /\ siPk'[r] = 0
        /\ \A s \in Requests \ {r} : pc'[s] = pc[s]
    BY <1>3 DEF IInv, TypeOK
  <2>2. Prepared(r)'
    BY <1>1, <1>3, <2>1 DEF Prepared
  <2>3. pc' \in [Requests -> Phases]
    BY DEF IInv, TypeOK
  <2>4. QED
    BY <1>1, <1>3, <2>1, <2>2, <2>3, SerialAfter
<1>4. QED
  BY <1>2, <1>3 DEF PrepareCreate

LEMMA SerialReadRow ==
    ASSUME IInv, IInv', Serial, NEW r \in Requests, ReadRow(r)
    PROVE  Serial'
<1> DEFINE op == asked[r]
           new == IF op.kind = "delete"
                  THEN IF MayDelete(row, op.user) THEN row ELSE Rejected
                  ELSE Updated(row, op.metadata, op.user, op.external)
<1>1. /\ InProgress(r) /\ pc[r] = "reading" /\ answer[r] = NoAnswer
      /\ op.kind \in {"update", "delete"} \/ Collided(r)
  BY DEF ReadRow, InProgress, Serial, Prepared
<1>2. ASSUME NEW a \in {"no such identifier", "forbidden", "bad request"}, Finish(r, a)
      PROVE Serial'
  BY <1>1, <1>2, SerialFinish DEF Finish, Answers
<1>3. ASSUME row # NoRow, Authorized(op.user), new # Rejected,
             pc' = [pc EXCEPT ![r] = IF op.kind = "delete" THEN "deleting" ELSE "saving"],
             si' = [si EXCEPT ![r] = new],
             siPk' = [siPk EXCEPT ![r] = pk], UNCHANGED <<asked, answer, failures>>
      PROVE  Serial'
  <2>1. /\ pc'[r] = IF op.kind = "delete" THEN "deleting" ELSE "saving"
        /\ si'[r] = new /\ siPk'[r] = pk /\ pk # 0
        /\ \A s \in Requests \ {r} : pc'[s] = pc[s]
    BY <1>3 DEF IInv, TypeOK
  <2>2. UNCHANGED <<row, pk>>
    BY DEF ReadRow, database
  <2>3. CASE op.kind = "delete"
    <3>1. MayDelete(row, op.user)
      BY <1>3, <2>3
    <3>2. Prepared(r)'
      BY <1>3, <2>1, <2>2, <2>3, <3>1 DEF Prepared
    <3>3. QED
      BY <1>1, <1>3, <2>1, <2>3, <3>2, SerialAfter DEF IInv, TypeOK
  <2>4. CASE op.kind # "delete"
    <3>1. (op.kind = "update" \/ Collided(r))'
      BY <1>1, <1>3, <2>2, <2>4 DEF Collided
    <3>2. new = Updated(row, op.metadata, op.user, op.external)
      BY <2>4
    <3>3. Prepared(r)'
      BY <1>3, <2>1, <2>2, <2>4, <3>1, <3>2 DEF Prepared
    <3>4. QED
      BY <1>1, <1>3, <2>1, <2>4, <3>3, SerialAfter DEF IInv, TypeOK
  <2>5. QED
    BY <2>3, <2>4
<1>4. QED
  BY <1>2, <1>3 DEF ReadRow

LEMMA SerialSaveRow ==
    ASSUME IInv, IInv', Serial, NEW r \in Requests, SaveRow(r)
    PROVE  Serial'
  BY SerialFinish DEF SaveRow, Finish, Answers, InProgress

\* A create collides only because the row is there, and an update cannot collide.
LEMMA SerialSaveCollides ==
    ASSUME IInv, IInv', Serial, NEW r \in Requests, SaveCollides(r)
    PROVE  Serial' /\ siPk[r] = 0 /\ row # NoRow
<1>1. InProgress(r) /\ pc[r] = "saving" /\ answer[r] = NoAnswer /\ row # NoRow
  BY DEF SaveCollides, Insertable, InProgress, Serial
<1>2. siPk[r] = 0
  BY <1>1 DEF SaveCollides, Insertable, Serial, Prepared
<1>3. CASE Finish(r, "identifier already exists")
  BY <1>1, <1>2, <1>3, SerialFinish DEF Finish, Answers
<1>4. CASE /\ asked[r].updateIfExists
           /\ pc' = [pc EXCEPT ![r] = "reading"]
           /\ UNCHANGED <<asked, answer, failures>>
  <2>1. si[r] \in Rows /\ si[r] = Created(asked[r].metadata, asked[r].user)
        /\ asked[r].kind = "create" /\ Authorized(asked[r].user)
    BY <1>1, <1>2 DEF IInv, Copies, Serial, Prepared
  <2>2. Collided(r)
    BY <1>1, <1>4, <2>1 DEF Collided
  <2>3. UNCHANGED <<row, asked>> /\ pc'[r] = "reading" /\ \A s \in Requests \ {r} : pc'[s] = pc[s]
    BY <1>4 DEF SaveCollides, database, IInv, TypeOK
  <2>4. Collided(r)'
    BY <2>2, <2>3 DEF Collided
  <2>5. Prepared(r)'
    BY <2>3, <2>4 DEF Prepared
  <2>6. QED
    BY <1>1, <1>2, <1>4, <2>3, <2>5, SerialAfter DEF IInv, TypeOK
<1>5. QED
  BY <1>1, <1>2, <1>3, <1>4 DEF SaveCollides

LEMMA SerialDeleteRow ==
    ASSUME IInv, IInv', Serial, NEW r \in Requests, DeleteRow(r)
    PROVE  Serial'
  BY SerialFinish DEF DeleteRow, Finish, Answers, InProgress

LEMMA SerialTransactionFails ==
    ASSUME IInv, IInv', Serial, NEW r \in Requests, TransactionFails(r)
    PROVE  Serial'
  BY SerialFinish DEF TransactionFails, Answers, InProgress

LEMMA SerialRestart ==
    ASSUME WebOnly, IInv, IInv', Serial, Restart
    PROVE  Serial'
<1>1. \A s \in Requests : /\ pc'[s] = IF InProgress(s) THEN "done" ELSE pc[s]
                          /\ answer'[s] = IF InProgress(s) THEN "lost" ELSE answer[s]
  BY DEF Restart, WebOnly, Requests
<1>2. \A s \in Requests : pc'[s] \in {"new", "done"}
  BY <1>1 DEF InProgress
<1>3. \A s \in Requests : Prepared(s)'
  BY <1>2 DEF Prepared
<1>4. ASSUME NEW s \in Requests
      PROVE  /\ asked'[s] = NoOperation <=> pc'[s] = "new"
             /\ answer'[s] = NoAnswer <=> pc'[s] # "done"
  <2>1. "lost" # NoAnswer /\ asked' = asked
    BY DEF Restart, Answers
  <2>2. QED
    BY <1>1, <2>1 DEF Serial, InProgress
<1>5. QED
  BY <1>2, <1>3, <1>4 DEF Serial, InProgress

LEMMA SerialNext ==
    ASSUME WebOnly, IInv, IInv', Serial, [Next]_vars
    PROVE  Serial'
<1>1. CASE UNCHANGED vars
  <2>1. \A r \in Requests : Prepared(r)' = Prepared(r)
    BY <1>1 DEF vars, database, Prepared, Collided
  <2>2. QED
    BY <1>1, <2>1 DEF vars, database, Serial, InProgress
<1>2. ASSUME NEW r \in Requests, NEW op \in Operations, Begin(r, op) PROVE Serial'
  BY <1>2, SerialBegin
<1>3. ASSUME NEW r \in Requests, Step(r) PROVE Serial'
  BY <1>3, SerialPrepareCreate, SerialReadRow, SerialSaveRow, SerialSaveCollides,
     SerialDeleteRow, SerialTransactionFails DEF Step
<1>4. CASE Restart
  BY <1>4, SerialRestart
<1>5. ~Expunge /\ ~\E r \in CommandRequests : ReadBatch(r)
  BY DEF Expunge, WebOnly
<1>6. QED
  BY <1>1, <1>2, <1>3, <1>4, <1>5, NextIs

-----------------------------------------------------------------------------
(* Every step is one of AtomicTable                                        *)

LEMMA Waiting ==
    ASSUME Serial, NEW r \in Requests, InProgress(r)
    PROVE  Atomic!Waits(r)
  BY DEF Serial, InProgress, Atomic!Waits

\* Operations that end, and what they do to the row.
LEMMA EndsAs ==
    ASSUME WebOnly, IInv, Serial, NEW r \in Requests, InProgress(r), NEW a, NEW c,
           Finish(r, a), row' = c, Atomic!Do(row, asked[r]) = [row |-> c, answer |-> a]
    PROVE  Atomic!Next
<1>1. Atomic!TakeEffect(r)
  BY Waiting DEF Atomic!TakeEffect, Finish
<1>2. r \in WebRequests
  BY DEF WebOnly, Requests
<1>3. QED
  BY <1>1, <1>2 DEF Atomic!Next

LEMMA PrepareCreateSimulates ==
    ASSUME WebOnly, IInv, Serial, NEW r \in Requests, PrepareCreate(r)
    PROVE  [Atomic!Next]_(Atomic!vars)
<1> DEFINE op == asked[r]
<1>1. InProgress(r) /\ op.kind = "create" /\ row' = row
  BY DEF PrepareCreate, InProgress, Serial, Prepared, database
<1>2. Atomic!Do(row, op) = Atomic!DoCreate(row, op)
  BY <1>1 DEF Atomic!Do
<1>3. CASE ~Authorized(op.user) /\ Finish(r, "forbidden")
  <2>1. Atomic!Do(row, op) = [row |-> row, answer |-> "forbidden"]
    BY <1>2, <1>3 DEF Atomic!DoCreate, Atomic!Outcome
  <2>2. QED
    BY <1>1, <1>3, <2>1, EndsAs
<1>4. CASE /\ Authorized(op.user) /\ Created(op.metadata, op.user) = Rejected
           /\ Finish(r, "bad request")
  <2>1. Atomic!Do(row, op) = [row |-> row, answer |-> "bad request"]
    BY <1>2, <1>4 DEF Atomic!DoCreate, Atomic!Outcome
  <2>2. QED
    BY <1>1, <1>4, <2>1, EndsAs
<1>5. CASE UNCHANGED <<asked, answer>>
  BY <1>1, <1>5 DEF Atomic!vars
<1>6. QED
  BY <1>3, <1>4, <1>5 DEF PrepareCreate

LEMMA ReadRowSimulates ==
    ASSUME WebOnly, IInv, Serial, NEW r \in Requests, ReadRow(r)
    PROVE  [Atomic!Next]_(Atomic!vars)
<1> DEFINE op == asked[r]
           new == Updated(row, op.metadata, op.user, op.external)
<1>1. InProgress(r) /\ (op.kind \in {"update", "delete"} \/ Collided(r)) /\ row' = row
  BY DEF ReadRow, InProgress, Serial, Prepared, database
<1>2. CASE UNCHANGED <<asked, answer>>
  BY <1>1, <1>2 DEF Atomic!vars
<1>3. CASE op.kind = "delete"
  <2>1. Atomic!Do(row, op) = Atomic!DoDelete(row, op)
    BY <1>3 DEF Atomic!Do
  <2>2. CASE row = NoRow /\ Finish(r, "no such identifier")
    <3>1. Atomic!Do(row, op) = [row |-> row, answer |-> "no such identifier"]
      BY <2>1, <2>2 DEF Atomic!DoDelete, Atomic!Outcome
    <3>2. QED
      BY <1>1, <2>2, <3>1, EndsAs
  <2>3. CASE row # NoRow /\ ~Authorized(op.user) /\ Finish(r, "forbidden")
    <3>1. Atomic!Do(row, op) = [row |-> row, answer |-> "forbidden"]
      BY <2>1, <2>3 DEF Atomic!DoDelete, Atomic!Outcome
    <3>2. QED
      BY <1>1, <2>3, <3>1, EndsAs
  <2>4. CASE /\ row # NoRow /\ Authorized(op.user) /\ ~MayDelete(row, op.user)
             /\ Finish(r, "bad request")
    <3>1. Atomic!Do(row, op) = [row |-> row, answer |-> "bad request"]
      BY <2>1, <2>4 DEF Atomic!DoDelete, Atomic!Outcome
    <3>2. QED
      BY <1>1, <2>4, <3>1, EndsAs
  <2>5. row \in Rows => row # Rejected
    OBVIOUS
  <2>6. row \in Rows \union {NoRow}
    BY DEF IInv, TypeOK
  <2>7. QED
    BY <1>2, <1>3, <2>2, <2>3, <2>4, <2>5, <2>6 DEF ReadRow
<1>4. CASE op.kind # "delete"
  <2>1. op.kind = "update" \/ Collided(r)
    BY <1>1, <1>4
  <2>2. Atomic!Do(row, op) = Atomic!DoUpdate(row, op)
    BY <2>1 DEF Collided, Atomic!Do, Atomic!DoCreate
  <2>3. CASE row = NoRow /\ Finish(r, "no such identifier")
    <3>1. Atomic!Do(row, op) = [row |-> row, answer |-> "no such identifier"]
      BY <2>2, <2>3 DEF Atomic!DoUpdate, Atomic!Outcome
    <3>2. QED
      BY <1>1, <2>3, <3>1, EndsAs
  <2>4. CASE row # NoRow /\ ~Authorized(op.user) /\ Finish(r, "forbidden")
    <3>1. Atomic!Do(row, op) = [row |-> row, answer |-> "forbidden"]
      BY <2>2, <2>4 DEF Atomic!DoUpdate, Atomic!Outcome
    <3>2. QED
      BY <1>1, <2>4, <3>1, EndsAs
  <2>5. CASE row # NoRow /\ Authorized(op.user) /\ new = Rejected /\ Finish(r, "bad request")
    <3>1. Atomic!Do(row, op) = [row |-> row, answer |-> "bad request"]
      BY <2>2, <2>5 DEF Atomic!DoUpdate, Atomic!Outcome
    <3>2. QED
      BY <1>1, <2>5, <3>1, EndsAs
  <2>6. QED
    BY <1>2, <1>4, <2>3, <2>4, <2>5 DEF ReadRow
<1>5. QED
  BY <1>3, <1>4

LEMMA SaveRowSimulates ==
    ASSUME WebOnly, IInv, Serial, NEW r \in Requests, SaveRow(r)
    PROVE  Atomic!Next
<1> DEFINE op == asked[r]
<1>1. /\ InProgress(r) /\ pc[r] = "saving" /\ Insertable(r) /\ Finish(r, "success") /\ row' = si[r]
      /\ si[r] \in Rows /\ si[r] # Rejected
  BY DEF SaveRow, InProgress, IInv, Copies
<1>2. CASE siPk[r] = 0
  <2>1. /\ row = NoRow /\ op.kind = "create" /\ Authorized(op.user)
        /\ si[r] = Created(op.metadata, op.user)
    BY <1>1, <1>2 DEF Insertable, Serial, Prepared
  <2>2. Atomic!Do(row, op) = [row |-> si[r], answer |-> "success"]
    BY <1>1, <2>1 DEF Atomic!Do, Atomic!DoCreate, Atomic!Outcome
  <2>3. QED
    BY <1>1, <2>2, EndsAs
<1>3. CASE siPk[r] # 0
  <2>1. /\ op.kind = "update" \/ Collided(r)
        /\ row # NoRow /\ Authorized(op.user)
        /\ si[r] = Updated(row, op.metadata, op.user, op.external)
    BY <1>1, <1>3 DEF Serial, Prepared
  <2>2. Atomic!Do(row, op) = Atomic!DoUpdate(row, op)
    BY <2>1 DEF Collided, Atomic!Do, Atomic!DoCreate
  <2>3. Atomic!Do(row, op) = [row |-> si[r], answer |-> "success"]
    BY <1>1, <2>1, <2>2 DEF Atomic!DoUpdate, Atomic!Outcome
  <2>4. QED
    BY <1>1, <2>3, EndsAs
<1>4. QED
  BY <1>2, <1>3

LEMMA SaveCollidesSimulates ==
    ASSUME WebOnly, IInv, IInv', Serial, NEW r \in Requests, SaveCollides(r)
    PROVE  [Atomic!Next]_(Atomic!vars)
<1> DEFINE op == asked[r]
<1>1. InProgress(r) /\ pc[r] = "saving" /\ siPk[r] = 0 /\ row # NoRow /\ row' = row
  BY SerialSaveCollides DEF SaveCollides, InProgress, database
<1>2. CASE UNCHANGED <<asked, answer>>
  BY <1>1, <1>2 DEF Atomic!vars
<1>3. CASE ~op.updateIfExists /\ Finish(r, "identifier already exists")
  <2>1. op.kind = "create" /\ Authorized(op.user) /\ Created(op.metadata, op.user) # Rejected
    BY <1>1 DEF IInv, Copies, Serial, Prepared
  <2>2. Atomic!Do(row, op) = [row |-> row, answer |-> "identifier already exists"]
    BY <1>1, <1>3, <2>1 DEF Atomic!Do, Atomic!DoCreate, Atomic!Outcome
  <2>3. QED
    BY <1>1, <1>3, <2>2, EndsAs
<1>4. QED
  BY <1>1, <1>2, <1>3 DEF SaveCollides

LEMMA DeleteRowSimulates ==
    ASSUME WebOnly, IInv, Serial, NEW r \in Requests, DeleteRow(r)
    PROVE  Atomic!Next
<1> DEFINE op == asked[r]
<1>1. /\ InProgress(r) /\ Finish(r, "success")
      /\ op.kind = "delete" /\ row # NoRow /\ Authorized(op.user) /\ MayDelete(row, op.user)
      /\ row' = NoRow
  BY DEF DeleteRow, InProgress, Serial, Prepared
<1>2. Atomic!Do(row, op) = [row |-> NoRow, answer |-> "success"]
  BY <1>1 DEF Atomic!Do, Atomic!DoDelete, Atomic!Outcome
<1>3. QED
  BY <1>1, <1>2, EndsAs

\* A failure answers those who wait, and changes nothing.
LEMMA FailureSimulates ==
    ASSUME WebOnly, IInv, Serial, Restart \/ \E r \in Requests : TransactionFails(r)
    PROVE  Atomic!Next
<1>1. Requests = WebRequests
  BY DEF WebOnly, Requests
<1>2. ASSUME Restart PROVE Atomic!Next
  <2> DEFINE lost == {r \in WebRequests : InProgress(r)}
  <2>1. /\ answer' = [r \in Requests |-> IF r \in lost THEN "lost" ELSE answer[r]]
        /\ UNCHANGED <<row, asked>>
    BY <1>2 DEF Restart, database
  <2>2. \A r \in lost : Atomic!Waits(r)
    BY <1>1, Waiting
  <2>3. Atomic!Fail(lost, "lost")
    BY <1>1, <2>1, <2>2 DEF Atomic!Fail
  <2>4. QED
    BY <2>3 DEF Atomic!Next
<1>3. ASSUME NEW r \in Requests, TransactionFails(r) PROVE Atomic!Next
  <2>1. /\ answer' = [answer EXCEPT ![r] = "internal server error"]
        /\ UNCHANGED <<row, asked>> /\ InProgress(r)
    BY <1>3 DEF TransactionFails, database, InProgress
  <2>2. answer' = [s \in Requests |-> IF s \in {r} THEN "internal server error" ELSE answer[s]]
    BY <2>1 DEF IInv, TypeOK
  <2>3. Atomic!Fail({r}, "internal server error")
    BY <1>1, <2>1, <2>2, Waiting DEF Atomic!Fail
  <2>4. QED
    BY <1>1, <2>3 DEF Atomic!Next
<1>4. QED
  BY <1>2, <1>3

LEMMA BeginSimulates ==
    ASSUME WebOnly, IInv, Serial, NEW r \in Requests, NEW op \in WebOperations, Begin(r, op)
    PROVE  Atomic!Next
<1>1. Atomic!Ask(r)
  BY DEF Begin, database, Serial, Atomic!Ask
<1>2. QED
  BY <1>1 DEF Atomic!Next, WebOnly, Requests

LEMMA NextSimulates ==
    ASSUME WebOnly, IInv, IInv', Serial, [Next]_vars
    PROVE  [Atomic!Next]_(Atomic!vars)
<1>1. CASE UNCHANGED vars
  BY <1>1 DEF vars, database, Atomic!vars
<1>2. CASE \E r \in WebRequests, op \in WebOperations : Begin(r, op)
  BY <1>2, BeginSimulates DEF Requests
<1>3. ASSUME NEW r \in Requests, Step(r) PROVE [Atomic!Next]_(Atomic!vars)
  BY <1>3, PrepareCreateSimulates, ReadRowSimulates, SaveRowSimulates, SaveCollidesSimulates,
     DeleteRowSimulates, FailureSimulates DEF Step
<1>4. CASE Restart
  BY <1>4, FailureSimulates
<1>5. /\ ~Expunge /\ ~\E r \in DaemonRequests : CrossrefAnswers(r)
      /\ ~\E r \in CommandRequests : ReadBatch(r)
  BY DEF Expunge, WebOnly
<1>6. QED
  BY <1>1, <1>2, <1>3, <1>4, <1>5 DEF Next

\* The web server's requests are atomic, however many there are and whatever they
\* ask for, failed transactions and restarts included.
THEOREM RequestsAtomic == ASSUME WebOnly PROVE Spec => ImplementsAtomicTable
<1>1. Init => Atomic!Init
  BY DEF Init, Atomic!Init, WebOnly, Requests
<1>2. QED
  BY <1>1, InitHolds, NextHolds, SerialInit, SerialNext, NextSimulates, PTL
     DEF Spec, ImplementsAtomicTable, Atomic!Spec

-----------------------------------------------------------------------------
(* The search indexer's queue and the table                                *)

LEMMA QueueMatchesAfter ==
    ASSUME WebOnly, IInv, Serial, SearchQueueMatchesRow, [Next]_vars
    PROVE  SearchQueueMatchesRow'
<1>1. CASE UNCHANGED <<row, searchQueue>>
  BY <1>1 DEF SearchQueueMatchesRow, Last
<1>2. ASSUME NEW r \in Requests, SaveRow(r) PROVE SearchQueueMatchesRow'
  <2> DEFINE op == IF siPk[r] = 0 THEN "create" ELSE "update"
  <2>1. row' = si[r] /\ si[r] \in Rows /\ enqueue(si[r], op, asked[r].external)
    BY <1>2 DEF SaveRow, IInv, Copies
  <2>2. /\ Len(searchQueue') = Len(searchQueue) + 1 /\ Len(searchQueue) \in Nat
        /\ searchQueue'[Len(searchQueue) + 1] = [op |-> op, row |-> si[r]]
    BY <2>1, Queued
  <2>3. searchQueue' # <<>> /\ Last(searchQueue') = [op |-> op, row |-> si[r]]
    BY <2>2 DEF Last
  <2>4. QED
    BY <2>1, <2>3 DEF SearchQueueMatchesRow
<1>3. ASSUME NEW r \in Requests, DeleteRow(r) PROVE SearchQueueMatchesRow'
  <2>1. row' = NoRow /\ si[r] \in Rows /\ enqueue(si[r], "delete", asked[r].external)
    BY <1>3 DEF DeleteRow, IInv, Copies, Serial, Prepared
  <2>2. /\ Len(searchQueue') = Len(searchQueue) + 1 /\ Len(searchQueue) \in Nat
        /\ searchQueue'[Len(searchQueue) + 1] = [op |-> "delete", row |-> si[r]]
    BY <2>1, Queued
  <2>3. searchQueue' # <<>> /\ Last(searchQueue') = [op |-> "delete", row |-> si[r]]
    BY <2>2 DEF Last
  <2>4. QED
    BY <2>1, <2>3 DEF SearchQueueMatchesRow
<1>4. CASE Restart \/ \E r \in Requests, op \in Operations : Begin(r, op)
  BY <1>1, <1>4 DEF Restart, Begin, database
<1>5. ASSUME NEW r \in Requests,
             PrepareCreate(r) \/ ReadRow(r) \/ SaveCollides(r) \/ TransactionFails(r)
      PROVE  UNCHANGED <<row, searchQueue>>
  BY <1>5 DEF PrepareCreate, ReadRow, SaveCollides, TransactionFails, database
<1>6. CASE UNCHANGED vars
  BY <1>1, <1>6 DEF vars, database
<1>7. ~Expunge /\ ~\E r \in CommandRequests : ReadBatch(r)
  BY DEF Expunge, WebOnly
<1>8. QED
  BY <1>1, <1>2, <1>3, <1>4, <1>5, <1>6, <1>7, NextIs DEF Step

\* An indexer that works through its queue in order ends with the table.
THEOREM SearchQueueFollows == ASSUME WebOnly PROVE Spec => []SearchQueueMatchesRow
<1>1. Init => SearchQueueMatchesRow
  BY DEF Init, SearchQueueMatchesRow
<1>2. QED
  BY <1>1, InitHolds, NextHolds, SerialInit, SerialNext, QueueMatchesAfter, PTL DEF Spec

-----------------------------------------------------------------------------
(* The registration agencies' queues and the table                         *)

\* Nobody uses the superusers' option update_external_services=no.
NothingWithheld == \A op \in WebOperations : op.external

AskedToTell == \A r \in Requests : pc[r] # "new" => asked[r].external

LEMMA AskedToTellNext ==
    ASSUME WebOnly, NothingWithheld, IInv, AskedToTell, [Next]_vars
    PROVE  AskedToTell'
<1>1. CASE UNCHANGED vars
  BY <1>1 DEF vars, AskedToTell
<1>2. ASSUME NEW r \in Requests, NEW op \in WebOperations, Begin(r, op) PROVE AskedToTell'
  BY <1>2 DEF Begin, AskedToTell, NothingWithheld, IInv, TypeOK
<1>3. ASSUME NEW r \in Requests, Step(r) PROVE AskedToTell'
  <2>1. asked' = asked /\ pc[r] # "new" /\ \A s \in Requests \ {r} : pc'[s] = pc[s]
    BY <1>3 DEF Step, PrepareCreate, ReadRow, SaveRow, SaveCollides, DeleteRow,
       TransactionFails, Finish, IInv, TypeOK
  <2>2. QED
    BY <2>1 DEF AskedToTell
<1>4. CASE Restart
  BY <1>4 DEF Restart, AskedToTell, InProgress
<1>5. /\ ~Expunge /\ ~\E r \in DaemonRequests : CrossrefAnswers(r)
      /\ ~\E r \in CommandRequests : ReadBatch(r)
  BY DEF Expunge, WebOnly
<1>6. QED
  BY <1>1, <1>2, <1>3, <1>4, <1>5 DEF Next, Requests

\* What enqueue leaves as the last snapshots.
LEMMA LastQueued ==
    ASSUME IInv, NEW c \in Rows, NEW op \in {"create", "update", "delete"},
           enqueue(c, op, TRUE)
    PROVE  /\ Last(searchQueue').row = c
           /\ ~IsReserved(c) => /\ externalQueue' # <<>>
                                /\ Last(externalQueue').op = op
                                /\ Last(externalQueue').row = c
<1> DEFINE s == [op |-> op, row |-> c]
<1>1. searchQueue \in Seq(Snapshots) /\ externalQueue \in Seq(Snapshots) /\ s \in Snapshots
  BY DEF IInv, TypeOK, Snapshots
<1>2. s.op = op /\ s.row = c
  OBVIOUS
<1> HIDE DEF s
<1>3. ASSUME NEW q \in Seq(Snapshots)
      PROVE  Append(q, s) # <<>> /\ Last(Append(q, s)) = s
  <2>1. Len(q) \in Nat /\ Len(Append(q, s)) = Len(q) + 1 /\ Append(q, s)[Len(q) + 1] = s
    BY <1>1, AppendProperties, LenProperties
  <2>2. QED
    BY <2>1, EmptySeq DEF Last
<1>4. searchQueue' = Append(searchQueue, s)
      /\ (~IsReserved(c) => externalQueue' = Append(externalQueue, s))
  BY DEF enqueue, s
<1>5. QED
  BY <1>1, <1>2, <1>3, <1>4

LEMMA AgenciesToldNext ==
    ASSUME WebOnly, IInv, Serial, AskedToTell, AgenciesAreTold, [Next]_vars
    PROVE  AgenciesAreTold'
<1>1. CASE UNCHANGED <<row, searchQueue, externalQueue>>
  BY <1>1 DEF AgenciesAreTold, Last
<1>2. ASSUME NEW r \in Requests, SaveRow(r) PROVE AgenciesAreTold'
  <2> DEFINE op == IF siPk[r] = 0 THEN "create" ELSE "update"
  <2>1. asked[r].external \in BOOLEAN /\ asked[r].external
    BY <1>2 DEF SaveRow, AskedToTell, IInv, Copies, Operations
  <2>2. row' = si[r] /\ si[r] \in Rows /\ enqueue(si[r], op, TRUE)
    BY <1>2, <2>1 DEF SaveRow, IInv, Copies
  <2>3. ~IsReserved(row') => /\ externalQueue' # <<>>
                             /\ Last(externalQueue').op # "delete"
                             /\ Last(externalQueue').row = row'
    BY <2>2, LastQueued
  <2>4. row' # NoRow
    BY <2>2
  <2>5. QED
    BY <2>3, <2>4 DEF AgenciesAreTold
<1>3. ASSUME NEW r \in Requests, DeleteRow(r) PROVE AgenciesAreTold'
  <2>1. asked[r].external \in BOOLEAN /\ asked[r].external
    BY <1>3 DEF DeleteRow, AskedToTell, IInv, Copies, Operations
  <2>2. row' = NoRow /\ si[r] \in Rows /\ enqueue(si[r], "delete", TRUE)
    BY <1>3, <2>1 DEF DeleteRow, IInv, Copies, Serial, Prepared
  <2>3. Last(searchQueue').row = si[r]
        /\ (~IsReserved(si[r]) => Last(externalQueue').op = "delete")
    BY <2>2, LastQueued
  <2>4. QED
    BY <2>2, <2>3 DEF AgenciesAreTold
<1>4. CASE Restart \/ \E r \in Requests, op \in Operations : Begin(r, op)
  BY <1>1, <1>4 DEF Restart, Begin, database
<1>5. ASSUME NEW r \in Requests,
             PrepareCreate(r) \/ ReadRow(r) \/ SaveCollides(r) \/ TransactionFails(r)
      PROVE  UNCHANGED <<row, searchQueue, externalQueue>>
  BY <1>5 DEF PrepareCreate, ReadRow, SaveCollides, TransactionFails, database
<1>6. CASE UNCHANGED vars
  BY <1>1, <1>6 DEF vars, database
<1>7. ~Expunge /\ ~\E r \in CommandRequests : ReadBatch(r)
  BY DEF Expunge, WebOnly
<1>8. QED
  BY <1>1, <1>2, <1>3, <1>4, <1>5, <1>6, <1>7, NextIs DEF Step

\* The agencies are asked to hold what EZID publishes, or nothing, as long as no
\* superuser keeps an operation from them.
THEOREM AgenciesTold ==
    ASSUME WebOnly, NothingWithheld PROVE Spec => []AgenciesAreTold
<1>1. Init => AgenciesAreTold /\ AskedToTell
  BY DEF Init, AgenciesAreTold, AskedToTell
<1>2. QED
  BY <1>1, InitHolds, NextHolds, SerialInit, SerialNext, AskedToTellNext, AgenciesToldNext, PTL
     DEF Spec

-----------------------------------------------------------------------------
(* What the elements of a request make of a row, one after the other       *)

\* The elements of metadata applied in order, to those that come before.
Apply(stored, user, r, e) ==
    IF r # Rejected /\ Settable(r, stored, e, user) THEN SetElement(r, e) ELSE Rejected

\* g[s] is what the elements at the places s make of c.
Folded(c, stored, metadata, user, places, g) ==
    g = [s \in SUBSET places |->
           IF s = {} THEN c
           ELSE Apply(stored, user, g[s \ {Max(s)}], metadata[Max(s)])]

LEMMA LeastNumber ==
    ASSUME NEW S \in SUBSET Nat, S # {}
    PROVE  \E n \in S : \A m \in S : n <= m
<1>1. PICK n \in S : \A m \in S : ~(<<m, n>> \in OpToRel(<, Nat))
  BY NatLessThanWellFounded, WFMin
<1>2. \A m \in S : ~(m < n)
  BY <1>1 DEF OpToRel
<1>3. QED
  BY <1>2

LEMMA MaxOfPlaces ==
    ASSUME NEW n \in Nat, NEW s \in SUBSET (1..n), s # {}
    PROVE  Max(s) \in s /\ \A x \in s : x <= Max(s)
<1> DEFINE T == {n - x : x \in s}
<1>1. T \subseteq Nat /\ T # {}
  <2>1. \A x \in s : n - x \in Nat
    OBVIOUS
  <2>2. PICK x \in s : TRUE
    OBVIOUS
  <2>3. n - x \in T
    BY <2>2
  <2>4. QED
    BY <2>1, <2>3
<1>2. PICK y \in T : \A z \in T : y <= z
  BY <1>1, LeastNumber
<1>3. PICK x \in s : y = n - x
  BY <1>2
<1>4. \A z \in s : z <= x
  <2> TAKE z \in s
  <2>1. y <= n - z
    BY <1>2
  <2>2. x \in 1..n /\ z \in 1..n
    OBVIOUS
  <2>3. QED
    BY <1>3, <2>1, <2>2
<1>5. QED
  BY <1>4 DEF Max

LEMMA FoldedExists ==
    ASSUME NEW c, NEW stored, NEW metadata, NEW user, NEW n \in Nat
    PROVE  \E g : Folded(c, stored, metadata, user, 1..n, g)
<1> DEFINE Bad == {k \in Nat : ~\E g : Folded(c, stored, metadata, user, 1..k, g)}
<1> SUFFICES ASSUME Bad # {} PROVE FALSE
  OBVIOUS
<1>1. PICK k \in Bad : \A m \in Bad : k <= m
  BY LeastNumber
<1>2. k # 0
  <2> DEFINE g == [s \in SUBSET (1..0) |-> c]
  <2>1. \A s \in SUBSET (1..0) : s = {}
    OBVIOUS
  <2>2. g = [s \in SUBSET (1..0) |->
               IF s = {} THEN c
               ELSE Apply(stored, user, g[s \ {Max(s)}], metadata[Max(s)])]
    BY <2>1
  <2>3. Folded(c, stored, metadata, user, 1..0, g)
    BY <2>2 DEF Folded
  <2>4. QED
    BY <2>3
<1>3. k - 1 \in Nat /\ k - 1 \notin Bad
  BY <1>1, <1>2
<1>4. PICK h : Folded(c, stored, metadata, user, 1..(k - 1), h)
  BY <1>3
<1> DEFINE old == SUBSET (1..(k - 1))
           g == [s \in SUBSET (1..k) |->
                   IF k \in s THEN Apply(stored, user, h[s \ {k}], metadata[k]) ELSE h[s]]
<1>5. \A s \in old : h[s] = IF s = {} THEN c
                            ELSE Apply(stored, user, h[s \ {Max(s)}], metadata[Max(s)])
  BY <1>4 DEF Folded
<1>6. ASSUME NEW s \in SUBSET (1..k)
      PROVE  g[s] = IF s = {} THEN c
                    ELSE Apply(stored, user, g[s \ {Max(s)}], metadata[Max(s)])
  <2>1. CASE k \in s
    <3>1. Max(s) = k
      <4>1. k \in Nat /\ s # {} /\ s \in SUBSET (1..k)
        BY <2>1
      <4>2. Max(s) \in s /\ k <= Max(s)
        BY <2>1, <4>1, MaxOfPlaces
      <4>3. Max(s) \in 1..k
        BY <4>1, <4>2
      <4>4. \A m \in 1..k : k <= m => m = k
        BY <4>1
      <4>5. QED
        BY <4>2, <4>3, <4>4
    <3>2. s \ {k} \in old /\ s \ {k} \in SUBSET (1..k) /\ k \notin s \ {k}
      BY <1>3
    <3>3. g[s \ {k}] = h[s \ {k}]
      BY <3>2
    <3>4. QED
      BY <2>1, <3>1, <3>3
  <2>2. CASE k \notin s /\ s # {}
    <3>1. s \in old
      BY <1>3, <2>2
    <3>2. Max(s) \in s
      BY <1>3, <2>2, MaxOfPlaces
    <3>3. s \ {Max(s)} \in SUBSET (1..k) /\ k \notin s \ {Max(s)}
      BY <2>2
    <3>4. g[s] = h[s] /\ g[s \ {Max(s)}] = h[s \ {Max(s)}]
      BY <2>2, <3>3
    <3>5. QED
      BY <1>5, <2>2, <3>1, <3>4
  <2>3. CASE s = {}
    <3>1. g[s] = h[s] /\ s \in old
      BY <2>3
    <3>2. QED
      BY <1>5, <2>3, <3>1
  <2>4. QED
    BY <2>1, <2>2, <2>3
<1>7. Folded(c, stored, metadata, user, 1..k, g)
  <2> HIDE DEF g
  <2>1. g = [s \in SUBSET (1..k) |-> g[s]]
    BY DEF g
  <2>2. QED
    BY <1>6, <2>1 DEF Folded
<1>8. QED
  BY <1>1, <1>7

\* What the metadata makes of a row has what its elements keep.
LEMMA MetadataKeeps ==
    ASSUME NEW c, NEW stored, NEW metadata \in Seq(Elements), NEW user, NEW good,
           c \in good, Rejected \in good,
           \A r \in good \ {Rejected}, e \in Elements :
               Settable(r, stored, e, user) => SetElement(r, e) \in good
    PROVE  updateFromUntrustedLegacy(c, stored, metadata, user) \in good
<1> DEFINE n == Len(metadata)
           g == CHOOSE h : Folded(c, stored, metadata, user, DOMAIN metadata, h)
<1>1. updateFromUntrustedLegacy(c, stored, metadata, user) = g[DOMAIN metadata]
  BY DEF updateFromUntrustedLegacy, FoldLeft, MapThenFoldSet, Folded, Apply
<1>2. n \in Nat /\ DOMAIN metadata = 1..n /\ \A i \in 1..n : metadata[i] \in Elements
  OBVIOUS
<1>3. Folded(c, stored, metadata, user, 1..n, g)
  BY <1>2, FoldedExists
<1> HIDE DEF g, n
<1>4. \A s \in SUBSET (1..n) :
          g[s] = IF s = {} THEN c
                 ELSE Apply(stored, user, g[s \ {Max(s)}], metadata[Max(s)])
  BY <1>3 DEF Folded
<1> DEFINE Bad == {k \in 0..n : g[1..k] \notin good}
<1>5. Bad = {}
  <2> SUFFICES ASSUME Bad # {} PROVE FALSE
    OBVIOUS
  <2>1. PICK k \in Bad : \A m \in Bad : k <= m
    <3>1. Bad \in SUBSET Nat
      BY <1>2
    <3>2. QED
      BY <3>1, LeastNumber
  <2>2. k # 0
    <3>1. 1..0 = {} /\ {} \in SUBSET (1..n)
      OBVIOUS
    <3>2. g[1..0] = c
      BY <1>4, <3>1
    <3>3. QED
      BY <3>2
  <2>3. k \in 1..n /\ k - 1 \in 0..n
    BY <1>2, <2>2
  <2>4. g[1..(k - 1)] \in good
    BY <1>2, <2>1, <2>3
  <2>5. 1..k \in SUBSET (1..n) /\ 1..k # {} /\ k \in Nat
    <3>1. k \in 1..k
      BY <2>3
    <3>2. \A x \in 1..k : x \in 1..n
      BY <1>2, <2>3
    <3>3. 1..k \in SUBSET (1..n)
      BY <3>2
    <3>4. 1..k # {}
      BY <3>1
    <3>5. QED
      BY <2>3, <3>3, <3>4
  <2>6. Max(1..k) = k
    <3>1. Max(1..k) \in 1..k /\ \A x \in 1..k : x <= Max(1..k)
      BY <2>5, MaxOfPlaces
    <3>2. k \in 1..k
      BY <2>3
    <3>3. QED
      BY <2>3, <3>1, <3>2
  <2>7. (1..k) \ {k} = 1..(k - 1)
    BY <2>3
  <2>8. g[1..k] = Apply(stored, user, g[1..(k - 1)], metadata[k])
    BY <1>4, <2>5, <2>6, <2>7
  <2>9. metadata[k] \in Elements
    BY <1>2, <2>3
  <2>10. g[1..k] \in good
    BY <2>4, <2>8, <2>9 DEF Apply
  <2>11. QED
    BY <2>10
<1>6. QED
  BY <1>1, <1>2, <1>5

\* One element alone.
LEMMA OneElement ==
    ASSUME NEW c, NEW stored, NEW e, NEW user
    PROVE  updateFromUntrustedLegacy(c, stored, <<e>>, user) = Apply(stored, user, c, e)
<1> DEFINE g == CHOOSE h : Folded(c, stored, <<e>>, user, 1..1, h)
<1>1. updateFromUntrustedLegacy(c, stored, <<e>>, user) = g[1..1]
  <2>1. DOMAIN <<e>> = 1..1
    OBVIOUS
  <2>2. updateFromUntrustedLegacy(c, stored, <<e>>, user)
          = (CHOOSE h : Folded(c, stored, <<e>>, user, DOMAIN <<e>>, h))[DOMAIN <<e>>]
    BY DEF updateFromUntrustedLegacy, FoldLeft, MapThenFoldSet, Folded, Apply
  <2>3. QED
    BY <2>1, <2>2
<1>2. Folded(c, stored, <<e>>, user, 1..1, g)
  BY FoldedExists
<1> HIDE DEF g
<1>3. \A s \in SUBSET (1..1) :
          g[s] = IF s = {} THEN c ELSE Apply(stored, user, g[s \ {Max(s)}], <<e>>[Max(s)])
  BY <1>2 DEF Folded
<1>4. 1..1 = {1} /\ {1} \ {1} = {}
  OBVIOUS
<1>5. Max({1}) = 1
  BY <1>4, MaxOfPlaces
<1>6. g[{}] = c /\ g[{1}] = Apply(stored, user, g[{1} \ {1}], <<e>>[1])
  BY <1>3, <1>4, <1>5
<1>7. QED
  BY <1>1, <1>4, <1>6

\* Nobody but an administrator reserves a row that is not reserved.
LEMMA UpdateKeepsPublished ==
    ASSUME NEW c \in Rows, ~IsReserved(c), NEW m \in Seq(Elements),
           NEW u, u # "admin", NEW x, Updated(c, m, u, x) # Rejected
    PROVE  ~IsReserved(Updated(c, m, u, x))
<1> DEFINE good == {r \in Rows : ~IsReserved(r)} \union {Rejected}
           d == updateFromUntrustedLegacy(c, TRUE, m, u)
<1>1. ASSUME NEW r \in good \ {Rejected}, NEW e \in Elements, Settable(r, TRUE, e, u)
      PROVE  SetElement(r, e) \in good
  <2>1. r \in Rows /\ r.status # "reserved"
    BY DEF IsReserved
  <2>2. CASE e.key = "_status"
    <3>1. e.value \in Statuses
      BY <2>2 DEF Elements
    <3>2. SetElement(r, e) = [r EXCEPT !.status = e.value] /\ MayBecome(r, TRUE, e.value, u)
      BY <1>1, <2>2 DEF SetElement, Settable
    <3>3. e.value # "reserved"
      BY <2>1, <3>2 DEF MayBecome, IsSuperuser, IsReserved
    <3>4. QED
      BY <2>1, <3>1, <3>2, <3>3 DEF Rows, IsReserved
  <2>3. CASE e.key = "_crossref"
    <3>1. e.value \in CrossrefStatuses \union {"yes"}
      BY <2>3 DEF Elements
    <3>2. \E v \in CrossrefStatuses : SetElement(r, e) = [r EXCEPT !.crossref = v]
      BY <2>3, <3>1 DEF SetElement, CrossrefStatuses
    <3>3. QED
      BY <2>1, <3>2 DEF Rows, IsReserved
  <2>4. CASE e.key = "_target"
    <3>1. e.value \in Targets /\ SetElement(r, e) = [r EXCEPT !.target = e.value]
      BY <2>4 DEF Elements, SetElement
    <3>2. QED
      BY <2>1, <3>1 DEF Rows, IsReserved
  <2>5. QED
    BY <2>2, <2>3, <2>4 DEF Elements
<1>2. d \in good
  <2>1. c \in good /\ Rejected \in good
    OBVIOUS
  <2> HIDE DEF good
  <2>2. QED
    BY <1>1, <2>1, MetadataKeeps
<1>3. Updated(c, m, u, x) = clean(d) \/ Updated(c, m, u, x) = clean(RegisterWithCrossref(d))
  BY DEF Updated
<1>4. d # Rejected
  <2>1. d = Rejected => Updated(c, m, u, x) = clean(d)
    BY DEF Updated
  <2> HIDE DEF d
  <2>2. QED
    BY <2>1 DEF clean
<1>5. d \in Rows /\ ~IsReserved(d)
  BY <1>2, <1>4
<1> HIDE DEF d
<1>6. ~IsReserved(RegisterWithCrossref(d))
  BY <1>5 DEF RegisterWithCrossref, IsReserved, Rows
<1>7. clean(d) \in {d, Rejected}
      /\ clean(RegisterWithCrossref(d)) \in {RegisterWithCrossref(d), Rejected}
  BY DEF clean
<1>8. QED
  BY <1>3, <1>5, <1>6, <1>7

\* The daemon's update is refused for a reserved row, and reserves none.
LEMMA DaemonUpdatesPublished ==
    ASSUME NEW c \in Rows, NEW op \in DaemonOperations,
           Updated(c, op.metadata, op.user, op.external) # Rejected
    PROVE  ~IsReserved(c) /\ ~IsReserved(Updated(c, op.metadata, op.user, op.external))
<1>1. PICK v \in {"working", "success", "warning", "failure"} :
          op = [kind |-> "update", user |-> "admin",
                metadata |-> <<[key |-> "_crossref", value |-> v]>>,
                external |-> FALSE, updateIfExists |-> FALSE]
  BY DEF DaemonOperations
<1> DEFINE e == [key |-> "_crossref", value |-> v]
           d == [c EXCEPT !.crossref = v]
<1>2. updateFromUntrustedLegacy(c, TRUE, <<e>>, "admin") = Apply(TRUE, "admin", c, e)
  BY OneElement
<1>3. c # Rejected
  OBVIOUS
<1>4. Apply(TRUE, "admin", c, e) = d
  BY <1>3 DEF Apply, Settable, SetElement, IsSuperuser
<1>5. Updated(c, op.metadata, op.user, op.external) = clean(d)
  BY <1>1, <1>2, <1>4 DEF Updated
<1>6. d.status = c.status /\ d.crossref = v
  BY DEF Rows
<1> HIDE DEF d
<1>7. clean(d) = d /\ (IsReserved(d) <=> d.crossref = "reserved")
  BY <1>5 DEF clean
<1>8. QED
  BY <1>1, <1>5, <1>6, <1>7 DEF IsReserved

-----------------------------------------------------------------------------
(* What was published                                                      *)

NoAdministrators == \A op \in WebOperations : op.user # "admin"

\* Who asks what: an owner's operation, an answer of Crossref's, a deletion.
Askers ==
    /\ \A w \in WebRequests : pc[w] # "new" => asked[w] \in WebOperations
    /\ \A d \in DaemonRequests :
          /\ pc[d] # "new" => asked[d] \in DaemonOperations
          /\ pc[d] # "creating"
          /\ pc[d] = "saving" => siPk[d] # 0
    /\ \A c \in CommandRequests : pc[c] \in {"new", "deleting", "done"}
    /\ \A v, w \in WebRequests : InProgress(v) /\ InProgress(w) => v = w

\* A copy that would replace the row with this key.
Updates(r, key) == pc[r] = "saving" /\ siPk[r] = key /\ key # 0

\* A request of the web server that holds a reserved copy has the row as it is;
\* Crossref's daemon holds copies of published rows alone; and the two never hold
\* different copies of the same row.
CopiesOfPublished ==
    /\ \A w \in WebRequests : Updates(w, pk) /\ IsReserved(si[w]) => IsReserved(row)
    /\ \A d \in DaemonRequests : pc[d] = "saving" => ~IsReserved(si[d])
    /\ \A d \in DaemonRequests : Updates(d, pk) => ~IsReserved(row)
    /\ \A w \in WebRequests, d \in DaemonRequests :
          Updates(w, siPk[w]) /\ IsReserved(si[w]) => ~Updates(d, siPk[w])

LEMMA AskersNext ==
    ASSUME IInv, Askers, [Next]_vars
    PROVE  Askers'
<1>1. CASE UNCHANGED vars
  BY <1>1 DEF vars, Askers, InProgress
<1>2. ASSUME NEW r \in WebRequests, NEW op \in WebOperations, Begin(r, op) PROVE Askers'
  BY <1>2 DEF Begin, Askers, LockFree, SameProcess, InProgress, Requests, IInv, TypeOK
<1>3. ASSUME NEW r \in DaemonRequests, NEW op \in DaemonOperations, Begin(r, op) PROVE Askers'
  <2>1. op.kind = "update"
    BY DEF DaemonOperations
  <2>2. QED
    BY <1>3, <2>1 DEF Begin, Askers, InProgress, Requests, IInv, TypeOK
<1>4. ASSUME NEW r \in CommandRequests, ReadBatch(r) PROVE Askers'
  BY <1>4 DEF ReadBatch, Askers, InProgress, Requests, IInv, TypeOK
<1>5. ASSUME NEW r \in Requests,
             SaveRow(r) \/ DeleteRow(r) \/ TransactionFails(r)
      PROVE  Askers'
  <2>1. pc' = [pc EXCEPT ![r] = "done"] /\ asked' = asked /\ siPk' = siPk /\ pc[r] # "new"
    BY <1>5 DEF SaveRow, DeleteRow, TransactionFails, Finish
  <2>2. QED
    BY <2>1 DEF Askers, InProgress, Requests, IInv, TypeOK
<1>6. ASSUME NEW r \in Requests, PrepareCreate(r) PROVE Askers'
  <2>1. r \in WebRequests
    BY <1>6 DEF PrepareCreate, Askers, Requests
  <2>2. /\ pc[r] = "creating" /\ asked' = asked
        /\ \E q \in {"done", "saving"} : pc' = [pc EXCEPT ![r] = q]
        /\ \A s \in Requests \ {r} : siPk'[s] = siPk[s]
    BY <1>6 DEF PrepareCreate, Finish, IInv, TypeOK
  <2>3. QED
    BY <2>1, <2>2 DEF Askers, InProgress, Requests, IInv, TypeOK
<1>7. ASSUME NEW r \in Requests, ReadRow(r) PROVE Askers'
  <2>1. /\ pc[r] = "reading" /\ asked' = asked /\ pc'[r] \in {"done", "deleting", "saving"}
        /\ pc'[r] = "saving" => siPk'[r] # 0
        /\ \A s \in Requests \ {r} : pc'[s] = pc[s] /\ siPk'[s] = siPk[s]
    BY <1>7 DEF ReadRow, Finish, IInv, TypeOK
  <2>2. QED
    BY <2>1 DEF Askers, InProgress, Requests
<1>8. ASSUME NEW r \in Requests, SaveCollides(r) PROVE Askers'
  <2>1. /\ pc[r] = "saving" /\ asked' = asked /\ siPk' = siPk
        /\ \E q \in {"done", "reading"} : pc' = [pc EXCEPT ![r] = q]
    BY <1>8 DEF SaveCollides, Finish
  <2>2. QED
    BY <2>1 DEF Askers, InProgress, Requests, IInv, TypeOK
<1>9. CASE Restart
  BY <1>9 DEF Restart, Askers, InProgress, Requests, IInv, TypeOK
<1>10. CASE Expunge
  BY <1>10 DEF Expunge, Askers, InProgress
<1>11. QED
  BY <1>1, <1>2, <1>3, <1>4, <1>5, <1>6, <1>7, <1>8, <1>9, <1>10
     DEF Next, CrossrefAnswers, Step

LEMMA CopiesInit == Init => Askers /\ CopiesOfPublished
  BY DEF Init, Askers, CopiesOfPublished, Updates, InProgress, Requests

\* A request that is not about to save holds nothing.
LEMMA CopiesKept ==
    ASSUME CopiesOfPublished, row' = row, pk' = pk, si' = si, siPk' = siPk,
           \A r \in Requests : pc'[r] = "saving" => pc[r] = "saving"
    PROVE  CopiesOfPublished'
  BY DEF CopiesOfPublished, Updates, Requests

LEMMA CopiesReadRow ==
    ASSUME NoAdministrators, IInv, Askers, CopiesOfPublished,
           NEW r \in Requests, ReadRow(r), pc'[r] = "saving"
    PROVE  CopiesOfPublished'
<1> DEFINE op == asked[r]
           new == Updated(row, op.metadata, op.user, op.external)
<1>1. /\ pc[r] = "reading" /\ op.kind # "delete" /\ row # NoRow /\ new # Rejected
      /\ si' = [si EXCEPT ![r] = new] /\ siPk' = [siPk EXCEPT ![r] = pk]
      /\ pc' = [pc EXCEPT ![r] = "saving"] /\ row' = row /\ pk' = pk
  BY DEF ReadRow, Finish, database, IInv, TypeOK
<1>2. op \in Operations /\ row \in Rows /\ pk # 0
  BY <1>1 DEF IInv, TypeOK, Copies
<1> HIDE DEF new
<1>3. /\ si'[r] = new /\ siPk'[r] = pk /\ pc'[r] = "saving"
      /\ \A s \in Requests \ {r} : si'[s] = si[s] /\ siPk'[s] = siPk[s] /\ pc'[s] = pc[s]
  BY <1>1 DEF IInv, TypeOK
<1>4. CASE r \in WebRequests
  <2>1. IsReserved(new) => IsReserved(row)
    <3>1. op.user # "admin" /\ op.metadata \in Seq(Elements)
      BY <1>1, <1>2, <1>4 DEF Askers, NoAdministrators, Operations
    <3>2. QED
      BY <1>1, <1>2, <3>1, UpdateKeepsPublished DEF new
  <2>2. \A d \in DaemonRequests : d # r /\ d \in Requests
    BY <1>4 DEF Requests
  <2>3. \A w \in WebRequests : w \in Requests
    BY DEF Requests
  <2>4. QED
    BY <1>1, <1>3, <2>1, <2>2, <2>3 DEF CopiesOfPublished, Updates
<1>5. CASE r \in DaemonRequests
  <2>1. ~IsReserved(row) /\ ~IsReserved(new)
    <3>1. op \in DaemonOperations
      BY <1>1, <1>5 DEF Askers
    <3>2. QED
      BY <1>1, <1>2, <3>1, DaemonUpdatesPublished DEF new
  <2>2. \A w \in WebRequests : w # r /\ w \in Requests
    BY <1>5 DEF Requests
  <2>3. \A d \in DaemonRequests : d \in Requests
    BY DEF Requests
  <2>4. QED
    BY <1>1, <1>3, <2>1, <2>2, <2>3 DEF CopiesOfPublished, Updates
<1>6. r \notin CommandRequests
  BY <1>1 DEF Askers
<1>7. QED
  BY <1>4, <1>5, <1>6 DEF Requests

LEMMA CopiesSaveRow ==
    ASSUME IInv, Askers, CopiesOfPublished, NEW r \in Requests, SaveRow(r)
    PROVE  /\ CopiesOfPublished'
           /\ row # NoRow /\ ~IsReserved(row) => ~IsReserved(row')
<1>1. /\ pc[r] = "saving" /\ row' = si[r] /\ si' = si /\ siPk' = siPk
      /\ pc' = [pc EXCEPT ![r] = "done"]
      /\ row = NoRow \/ (siPk[r] # 0 /\ pk = siPk[r])
      /\ pk' = IF siPk[r] = 0 THEN lastPk + 1 ELSE siPk[r]
  BY DEF SaveRow, Insertable, Finish
<1>2. /\ pc'[r] = "done"
      /\ \A s \in Requests \ {r} : pc'[s] = pc[s]
      /\ lastPk \in Nat /\ \A s \in Requests : siPk[s] \in 0..lastPk
  BY <1>1 DEF IInv, TypeOK
<1>3. r \in WebRequests \/ r \in DaemonRequests
  BY <1>1 DEF Askers, Requests
<1>4. row # NoRow /\ ~IsReserved(row) => ~IsReserved(row')
  BY <1>1, <1>3 DEF CopiesOfPublished, Updates
<1>5. CopiesOfPublished'
  <2>1. CASE siPk[r] = 0
    <3>1. \A s \in Requests : siPk[s] # lastPk + 1
      BY <1>2
    <3>2. pk' = lastPk + 1
      BY <1>1, <2>1
    <3>3. \A s \in Requests : ~Updates(s, pk)'
      BY <1>1, <3>1, <3>2 DEF Updates
    <3>4. \A s \in Requests : pc'[s] = "saving" => s # r /\ pc[s] = "saving"
      BY <1>2
    <3>5. QED
      BY <1>1, <3>3, <3>4 DEF CopiesOfPublished, Updates, Requests
  <2>2. CASE siPk[r] # 0
    <3>1. pk' = siPk[r]
      BY <1>1, <2>2
    <3>2. ASSUME NEW d \in DaemonRequests, pc'[d] = "saving", siPk[d] = siPk[r]
          PROVE  ~IsReserved(si[r])
      <4>1. d # r /\ pc[d] = "saving" /\ d \in Requests
        BY <1>2, <3>2 DEF Requests
      <4>2. CASE r \in WebRequests
        BY <1>1, <2>2, <3>2, <4>1, <4>2 DEF CopiesOfPublished, Updates
      <4>3. CASE r \in DaemonRequests
        BY <1>1, <4>3 DEF CopiesOfPublished
      <4>4. QED
        BY <1>3, <4>2, <4>3
    <3>3. ASSUME NEW w \in WebRequests, pc'[w] = "saving", siPk[w] = siPk[r], IsReserved(si[w])
          PROVE  FALSE
      <4>1. w # r /\ pc[w] = "saving" /\ w \in Requests
        BY <1>2, <3>3 DEF Requests
      <4>2. CASE r \in WebRequests
        <5>1. InProgress(w) /\ InProgress(r)
          BY <1>1, <4>1 DEF InProgress
        <5>2. QED
          BY <4>1, <4>2, <5>1 DEF Askers
      <4>3. CASE r \in DaemonRequests
        BY <1>1, <2>2, <3>3, <4>1, <4>3 DEF CopiesOfPublished, Updates
      <4>4. QED
        BY <1>3, <4>2, <4>3
    <3>4. \A s \in Requests : pc'[s] = "saving" => pc[s] = "saving"
      BY <1>2
    <3>5. QED
      BY <1>1, <3>1, <3>2, <3>3, <3>4 DEF CopiesOfPublished, Updates, Requests
  <2>3. QED
    BY <2>1, <2>2
<1>6. QED
  BY <1>4, <1>5

LEMMA CopiesRowGone ==
    ASSUME CopiesOfPublished, row' = NoRow, pk' = 0, si' = si, siPk' = siPk,
           \A r \in Requests : pc'[r] = "saving" => pc[r] = "saving"
    PROVE  CopiesOfPublished'
  BY DEF CopiesOfPublished, Updates, Requests

LEMMA CopiesNext ==
    ASSUME NoAdministrators, IInv, Askers, CopiesOfPublished, [Next]_vars
    PROVE  /\ CopiesOfPublished'
           /\ row # NoRow /\ row' # NoRow /\ ~IsReserved(row) => ~IsReserved(row')
<1>1. CASE UNCHANGED vars
  BY <1>1, CopiesKept DEF vars, database
<1>2. ASSUME NEW r \in Requests, NEW op \in Operations, Begin(r, op)
      PROVE  CopiesOfPublished' /\ row' = row
  <2>1. \A s \in Requests : pc'[s] = "saving" => pc[s] = "saving"
    BY <1>2 DEF Begin, IInv, TypeOK
  <2>2. QED
    BY <1>2, <2>1, CopiesKept DEF Begin, database
<1>3. ASSUME NEW r \in CommandRequests, ReadBatch(r)
      PROVE  CopiesOfPublished' /\ row' = row
  <2>1. r \notin WebRequests \union DaemonRequests /\ r \in Requests
    BY DEF Requests
  <2>2. /\ row' = row /\ pk' = pk
        /\ \A s \in WebRequests \union DaemonRequests :
              pc'[s] = pc[s] /\ si'[s] = si[s] /\ siPk'[s] = siPk[s]
    BY <1>3, <2>1 DEF ReadBatch, database, IInv, TypeOK, Requests
  <2>3. QED
    BY <2>2 DEF CopiesOfPublished, Updates
<1>4. ASSUME NEW r \in Requests, PrepareCreate(r)
      PROVE  CopiesOfPublished' /\ row' = row
  <2>1. row' = row /\ pk' = pk
    BY <1>4 DEF PrepareCreate, database
  <2>2. /\ pc'[r] = "saving" => r \in WebRequests /\ siPk'[r] = 0
        /\ \A s \in Requests \ {r} : pc'[s] = pc[s] /\ si'[s] = si[s] /\ siPk'[s] = siPk[s]
    BY <1>4 DEF PrepareCreate, Finish, IInv, TypeOK, Askers, Requests
  <2>3. QED
    BY <2>1, <2>2 DEF CopiesOfPublished, Updates, Requests
<1>5. ASSUME NEW r \in Requests, ReadRow(r)
      PROVE  CopiesOfPublished' /\ row' = row
  <2>1. row' = row /\ pk' = pk
    BY <1>5 DEF ReadRow, database
  <2>2. CASE pc'[r] = "saving"
    BY <1>5, <2>1, <2>2, CopiesReadRow
  <2>3. CASE pc'[r] # "saving"
    <3>1. \A s \in Requests \ {r} : pc'[s] = pc[s] /\ si'[s] = si[s] /\ siPk'[s] = siPk[s]
      BY <1>5 DEF ReadRow, Finish, IInv, TypeOK
    <3>2. QED
      BY <2>1, <2>3, <3>1 DEF CopiesOfPublished, Updates, Requests
  <2>4. QED
    BY <2>1, <2>2, <2>3
<1>6. ASSUME NEW r \in Requests, SaveCollides(r) \/ TransactionFails(r)
      PROVE  CopiesOfPublished' /\ row' = row
  <2>1. \A s \in Requests : pc'[s] = "saving" => pc[s] = "saving"
    BY <1>6 DEF SaveCollides, TransactionFails, Finish, IInv, TypeOK
  <2>2. QED
    BY <1>6, <2>1, CopiesKept DEF SaveCollides, TransactionFails, database
<1>7. ASSUME NEW r \in Requests, DeleteRow(r)
      PROVE  CopiesOfPublished' /\ (row' = row \/ row' = NoRow)
  <2>1. \A s \in Requests : pc'[s] = "saving" => pc[s] = "saving"
    BY <1>7 DEF DeleteRow, Finish, IInv, TypeOK
  <2>2. QED
    BY <1>7, <2>1, CopiesKept, CopiesRowGone DEF DeleteRow
<1>8. CASE Restart
  <2>1. \A s \in Requests : pc'[s] = "saving" => pc[s] = "saving"
    BY <1>8 DEF Restart
  <2>2. QED
    BY <1>8, <2>1, CopiesKept DEF Restart, database
<1>9. CASE Expunge
  BY <1>9, CopiesRowGone DEF Expunge
<1>10. QED
  BY <1>1, <1>2, <1>3, <1>4, <1>5, <1>6, <1>7, <1>8, <1>9, NextIs, CopiesSaveRow DEF Step

\* An identifier that was published is not reserved again, whatever copies the web
\* server and Crossref's daemon hold of it while it is saved, deleted, expunged
\* and created anew, unless an administrator asks for it.
THEOREM PublishedKept == ASSUME NoAdministrators PROVE Spec => PublishedStaysPublished
<1>1. IInv /\ Askers /\ CopiesOfPublished /\ [Next]_vars =>
        [row # NoRow /\ row' # NoRow /\ ~IsReserved(row) => ~IsReserved(row')]_vars
  BY CopiesNext
<1>2. QED
  BY <1>1, InitHolds, NextHolds, CopiesInit, AskersNext, CopiesNext, PTL
     DEF Spec, PublishedStaysPublished
=============================================================================
