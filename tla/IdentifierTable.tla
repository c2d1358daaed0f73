---------------------------- MODULE IdentifierTable ----------------------------
(***************************************************************************)
(* One identifier in EZID's database, and everybody who writes it:         *)
(*                                                                         *)
(*  - the requests of the web server, createIdentifier, setMetadata and    *)
(*    deleteIdentifier of impl/ezid.py.  Each reads the row, works on its  *)
(*    copy and saves it, in a transaction that also queues a snapshot for  *)
(*    the daemons (impl/enqueue.py).  The identifier lock, module          *)
(*    IdentifierLock, admits one request at a time: here that is a guard;  *)
(*  - the Crossref daemon (proc-crossref.py), which records what Crossref  *)
(*    answered by calling setMetadata in its own process, where the lock   *)
(*    is its own;                                                          *)
(*  - the expunge daemon (proc-expunge.py), which deletes old test         *)
(*    identifiers with no lock at all, and the command that replaces it    *)
(*    (proc-expunge_v2.py), which works off whole batches of copies.       *)
(*                                                                         *)
(* A transaction is one action.  A request that reads sees the last commit.*)
(***************************************************************************)
EXTENDS IdentifierRow

CONSTANTS WebRequests,     \* requests served by the web server
          DaemonRequests,  \* calls of setMetadata by the Crossref daemon
          CommandRequests, \* deletions by proc-expunge_v2
          WebOperations,   \* what a web request may ask for
          Expunging,       \* whether the identifier is an expired test one
          MaxFailures,     \* bound on database errors and restarts
          NoOperation, NoAnswer

Requests == WebRequests \union DaemonRequests \union CommandRequests

Operations == [kind: {"create", "update", "delete"}, user: People,
               metadata: Seq(Elements), external: BOOLEAN, updateIfExists: BOOLEAN]

Answers == {"success", "forbidden", "bad request", "no such identifier",
            "identifier already exists", "internal server error", "lost"}

\* proc-crossref.py check_status: what it asks setMetadata to do.
DaemonOperations ==
    { [kind |-> "update", user |-> "admin",
       metadata |-> <<[key |-> "_crossref", value |-> s]>>,
       external |-> FALSE, updateIfExists |-> FALSE] :
      s \in {"working", "success", "warning", "failure"} }

\* proc-expunge_v2.py: what it does to every identifier of its batch.
ExpungeOperation == [kind |-> "delete", user |-> "admin", metadata |-> <<>>,
                     external |-> TRUE, updateIfExists |-> FALSE]

ASSUME TableAssumption ==
    /\ WebRequests \intersect DaemonRequests = {}
    /\ CommandRequests \intersect (WebRequests \union DaemonRequests) = {}
    /\ WebOperations \subseteq Operations
    \* createIdentifier has no parameter to keep it from the agencies.
    /\ \A op \in WebOperations : op.kind = "create" => op.external
    /\ Expunging \in BOOLEAN
    /\ MaxFailures \in Nat
    /\ NoOperation \notin Operations
    /\ NoAnswer \notin Answers

VARIABLES row,             \* the row of table Identifier, or NoRow
          pk,              \* its primary key
          lastPk,          \* the table's AUTO_INCREMENT
          searchQueue,     \* table SearchIndexerQueue, in seq order
          externalQueue,   \* tables CrossrefQueue and DataciteQueue
          pc,              \* where each request is
          asked,           \* what it asks for
          si,              \* its copy of the row ...
          siPk,            \* ... and of the primary key
          answer,          \* how it was answered
          failures         \* database errors and restarts so far

database == <<row, pk, lastPk, searchQueue, externalQueue>>
vars == <<database, pc, asked, si, siPk, answer, failures>>

Snapshots == [op: {"create", "update", "delete"}, row: Rows]

Init ==
    /\ row = NoRow
    /\ pk = 0
    /\ lastPk = 0
    /\ searchQueue = <<>>
    /\ externalQueue = <<>>
    /\ pc = [r \in Requests |-> "new"]
    /\ asked = [r \in Requests |-> NoOperation]
    /\ si = [r \in Requests |-> NoRow]
    /\ siPk = [r \in Requests |-> 0]
    /\ answer = [r \in Requests |-> NoAnswer]
    /\ failures = 0

-----------------------------------------------------------------------------
(* impl/enqueue.py *)

\* Mutant: only public identifiers are sent to the registration agencies.
enqueuePublicOnly(c, op, external) ==
    /\ searchQueue' = Append(searchQueue, [op |-> op, row |-> c])
    /\ externalQueue' = IF c.status = "public" /\ external
                        THEN Append(externalQueue, [op |-> op, row |-> c])
                        ELSE externalQueue

\* A snapshot of the identifier goes to the search indexer, and to the
\* registration agencies unless it is reserved or the caller says no.
enqueue(c, op, external) ==
    /\ searchQueue' = Append(searchQueue, [op |-> op, row |-> c])
    /\ externalQueue' = IF ~IsReserved(c) /\ external
                        THEN Append(externalQueue, [op |-> op, row |-> c])
                        ELSE externalQueue

-----------------------------------------------------------------------------
(* Requests *)

InProgress(r) == pc[r] \notin {"new", "done"}

SameProcess(r, s) == \/ {r, s} \subseteq WebRequests
                     \/ {r, s} \subseteq DaemonRequests

\* Mutant: nobody else is looked at.
LockUnchecked(r) == ~InProgress(r)

\* _acquireIdentifierLock: the lock excludes the other requests of the process.
LockFree(r) == \A s \in Requests : SameProcess(r, s) => ~InProgress(s)

Begin(r, op) ==
    /\ pc[r] = "new"
    /\ LockFree(r)
    /\ pc' = [pc EXCEPT ![r] = IF op.kind = "create" THEN "creating" ELSE "reading"]
    /\ asked' = [asked EXCEPT ![r] = op]
    /\ UNCHANGED <<database, si, siPk, answer, failures>>

\* The Crossref daemon learns the fate of an operation it submitted.
CrossrefAnswers(r) ==
    /\ \E n \in DOMAIN externalQueue : externalQueue[n].op # "delete"
    /\ \E op \in DaemonOperations : Begin(r, op)

Finish(r, a) ==
    /\ pc' = [pc EXCEPT ![r] = "done"]
    /\ answer' = [answer EXCEPT ![r] = a]
    /\ UNCHANGED <<asked, failures>>

\* createIdentifier up to its transaction: the new row is made from the request
\* alone.
PrepareCreate(r) ==
    LET op == asked[r]
        new == Created(op.metadata, op.user)
    IN  /\ pc[r] = "creating"
        /\ \/ /\ ~Authorized(op.user)
              /\ Finish(r, "forbidden")
              /\ UNCHANGED <<si, siPk>>
           \/ /\ Authorized(op.user)
              /\ new = Rejected
              /\ Finish(r, "bad request")
              /\ UNCHANGED <<si, siPk>>
           \/ /\ Authorized(op.user)
              /\ new # Rejected
              /\ pc' = [pc EXCEPT ![r] = "saving"]
              /\ si' = [si EXCEPT ![r] = new]
              /\ siPk' = [siPk EXCEPT ![r] = 0]
              /\ UNCHANGED <<asked, answer, failures>>
        /\ UNCHANGED database

\* setMetadata and deleteIdentifier up to their transactions.
ReadRow(r) ==
    LET op == asked[r]
        new == IF op.kind = "delete"
               THEN IF MayDelete(row, op.user) THEN row ELSE Rejected
               ELSE Updated(row, op.metadata, op.user, op.external)
    IN  /\ pc[r] = "reading"
        /\ \/ /\ row = NoRow
              /\ Finish(r, "no such identifier")
              /\ UNCHANGED <<si, siPk>>
           \/ /\ row # NoRow
              /\ ~Authorized(op.user)
              /\ Finish(r, "forbidden")
              /\ UNCHANGED <<si, siPk>>
           \/ /\ row # NoRow
              /\ Authorized(op.user)
              /\ new = Rejected
              /\ Finish(r, "bad request")
              /\ UNCHANGED <<si, siPk>>
           \/ /\ row # NoRow
              /\ Authorized(op.user)
              /\ new # Rejected
              /\ pc' = [pc EXCEPT ![r] = IF op.kind = "delete" THEN "deleting" ELSE "saving"]
              /\ si' = [si EXCEPT ![r] = new]
              /\ siPk' = [siPk EXCEPT ![r] = pk]
              /\ UNCHANGED <<asked, answer, failures>>
        /\ UNCHANGED database

\* Django's save(): an INSERT of a row that has no key yet; otherwise an UPDATE,
\* which becomes an INSERT if the row is gone.  Another row with the same
\* identifier is a violation of the unique index.
Insertable(r) == row = NoRow \/ (siPk[r] # 0 /\ pk = siPk[r])

\* Mutant: the snapshot is of the row as it was.
SaveRowQueuesOldRow(r) ==
    /\ pc[r] = "saving"
    /\ Insertable(r)
    /\ row' = si[r]
    /\ lastPk' = IF siPk[r] = 0 THEN lastPk + 1 ELSE lastPk
    /\ pk' = IF siPk[r] = 0 THEN lastPk' ELSE siPk[r]
    /\ enqueue(IF row = NoRow THEN si[r] ELSE row, "update", asked[r].external)
    /\ Finish(r, "success")
    /\ UNCHANGED <<si, siPk>>

\* The transaction of createIdentifier and setMetadata.
SaveRow(r) ==
    /\ pc[r] = "saving"
    /\ Insertable(r)
    /\ row' = si[r]
    /\ lastPk' = IF siPk[r] = 0 THEN lastPk + 1 ELSE lastPk
    /\ pk' = IF siPk[r] = 0 THEN lastPk' ELSE siPk[r]
    /\ enqueue(si[r], IF siPk[r] = 0 THEN "create" ELSE "update", asked[r].external)
    /\ Finish(r, "success")
    /\ UNCHANGED <<si, siPk>>

\* IntegrityError: with updateIfExists a create goes on as a setMetadata inside
\* the same lock; in setMetadata it is an unexpected error.
SaveCollides(r) ==
    /\ pc[r] = "saving"
    /\ ~Insertable(r)
    /\ \/ /\ siPk[r] = 0
          /\ asked[r].updateIfExists
          /\ pc' = [pc EXCEPT ![r] = "reading"]
          /\ UNCHANGED <<asked, answer, failures>>
       \/ /\ siPk[r] = 0
          /\ ~asked[r].updateIfExists
          /\ Finish(r, "identifier already exists")
       \/ siPk[r] # 0 /\ Finish(r, "internal server error")
    /\ UNCHANGED <<database, si, siPk>>

\* The transaction of deleteIdentifier, and of proc-expunge_v2.py.  Deleting a row
\* that is gone succeeds, and is queued.
DeleteRow(r) ==
    /\ pc[r] = "deleting"
    /\ enqueue(si[r], "delete", asked[r].external)
    /\ IF pk = siPk[r] THEN row' = NoRow /\ pk' = 0 ELSE UNCHANGED <<row, pk>>
    /\ Finish(r, "success")
    /\ UNCHANGED <<lastPk, si, siPk>>

\* Mutant: a row that was updated stays so when its snapshot cannot be queued.
TransactionHalfDone(r) ==
    /\ failures < MaxFailures
    /\ failures' = failures + 1
    /\ pc[r] = "saving"
    /\ siPk[r] # 0
    /\ row' = si[r]
    /\ pc' = [pc EXCEPT ![r] = "done"]
    /\ answer' = [answer EXCEPT ![r] = "internal server error"]
    /\ UNCHANGED <<pk, lastPk, searchQueue, externalQueue, asked, si, siPk>>

\* A statement of the transaction fails, and all of it is rolled back.
TransactionFails(r) ==
    /\ failures < MaxFailures
    /\ failures' = failures + 1
    /\ pc[r] \in {"saving", "deleting"}
    /\ pc' = [pc EXCEPT ![r] = "done"]
    /\ answer' = [answer EXCEPT ![r] = "internal server error"]
    /\ UNCHANGED <<database, asked, si, siPk>>

\* A restart of the web server forgets its lock and its requests.
Restart ==
    /\ failures < MaxFailures
    /\ failures' = failures + 1
    /\ LET lost == {r \in WebRequests : InProgress(r)}
       IN  /\ lost # {}
           /\ pc' = [r \in Requests |-> IF r \in lost THEN "done" ELSE pc[r]]
           /\ answer' = [r \in Requests |-> IF r \in lost THEN "lost" ELSE answer[r]]
    /\ UNCHANGED <<database, asked, si, siPk>>

\* proc-expunge.py: its query fetches the key alone, so enqueue reads the row
\* inside the transaction.
Expunge ==
    /\ Expunging
    /\ row # NoRow
    /\ enqueue(row, "delete", TRUE)
    /\ row' = NoRow
    /\ pk' = 0
    /\ UNCHANGED <<lastPk, pc, asked, si, siPk, answer, failures>>

\* The query of proc-expunge_v2.py: it has read the row for a batch, the rest of
\* which it may delete first, without a lock.
ReadBatch(r) ==
    /\ pc[r] = "new"
    /\ row # NoRow
    /\ pc' = [pc EXCEPT ![r] = "deleting"]
    /\ asked' = [asked EXCEPT ![r] = ExpungeOperation]
    /\ si' = [si EXCEPT ![r] = row]
    /\ siPk' = [siPk EXCEPT ![r] = pk]
    /\ UNCHANGED <<database, answer, failures>>

-----------------------------------------------------------------------------
Step(r) ==
    \/ PrepareCreate(r)
    \/ ReadRow(r)
    \/ SaveRow(r)
    \/ SaveCollides(r)
    \/ DeleteRow(r)
    \/ TransactionFails(r)

Next ==
    \/ \E r \in WebRequests, op \in WebOperations : Begin(r, op)
    \/ \E r \in DaemonRequests : CrossrefAnswers(r)
    \/ \E r \in CommandRequests : ReadBatch(r)
    \/ \E r \in Requests : Step(r)
    \/ Restart
    \/ Expunge

Spec == Init /\ [][Next]_vars
-----------------------------------------------------------------------------
(* Properties *)

Phases == {"new", "creating", "reading", "saving", "deleting", "done"}

\* The variables have the types of the code's, and a row that exists is one that
\* my_full_clean accepts.
TypeOK ==
    /\ row \in Rows \union {NoRow}
    /\ row # NoRow => clean(row) = row
    /\ lastPk \in Nat /\ pk \in 0..lastPk
    /\ (pk = 0) <=> (row = NoRow)
    /\ searchQueue \in Seq(Snapshots) /\ externalQueue \in Seq(Snapshots)
    /\ pc \in [Requests -> Phases]
    /\ asked \in [Requests -> Operations \union {NoOperation}]
    /\ si \in [Requests -> Rows \union {NoRow}]
    /\ siPk \in [Requests -> 0..lastPk]
    /\ answer \in [Requests -> Answers \union {NoAnswer}]
    /\ failures \in 0..MaxFailures

\* The web server's requests are atomic: each reads, decides and writes as if
\* nobody else were there, through a create that turns into an update, failed
\* transactions and restarts.
Atomic == INSTANCE AtomicTable WITH
            Requests <- WebRequests,
            Operations <- WebOperations

ImplementsAtomicTable == Atomic!Spec

\* "the refIdentifier holds the current state": the newest snapshot in the
\* search indexer's queue is the row itself, or a delete if there is no row, so
\* that an indexer that works through the queue in order ends with the table.
SearchQueueMatchesRow ==
    IF searchQueue = <<>> THEN row = NoRow
    ELSE LET newest == Last(searchQueue)
         IN  IF newest.op = "delete" THEN row = NoRow ELSE row = newest.row

\* The newest state in the search indexer's queue is the state of the row, as
\* long as there is one, whoever wrote it and from however old a copy: no
\* transaction saves a row without queueing that very row.
NewestSnapshotIsRow ==
    row # NoRow =>
        \E n \in DOMAIN searchQueue :
            /\ searchQueue[n].op # "delete"
            /\ searchQueue[n].row = row
            /\ \A m \in DOMAIN searchQueue : m > n => searchQueue[m].op = "delete"

\* What the registration agencies are asked last is what EZID publishes: the
\* status and target of a row that is not reserved; and an identifier that is
\* gone is withdrawn, unless an administrator had put it back to reserved.
AgenciesAreTold ==
    LET newest == Last(externalQueue)
        withdrawn == externalQueue = <<>> \/ newest.op = "delete"
    IN  IF row = NoRow
        THEN withdrawn \/ IsReserved(Last(searchQueue).row)
        ELSE \/ IsReserved(row)
             \/ /\ ~withdrawn
                /\ newest.row.status = row.status
                /\ newest.row.target = row.target

\* An identifier that was published is not reserved again by anyone but an
\* administrator, whatever copies the daemons hold while its status changes.
PublishedStaysPublished ==
    [][ row # NoRow /\ row' # NoRow /\ ~IsReserved(row) => ~IsReserved(row') ]_vars
=============================================================================
