----------------------------- MODULE SearchIndexer -----------------------------
(***************************************************************************)
(* The daemon of the search index, proc-search-indexer.py: it keeps two    *)
(* copies of every identifier, a row of table SearchIdentifier in the      *)
(* database and a document in OpenSearch, from the snapshots of the        *)
(* SearchIndexerQueue.                                                     *)
(*                                                                         *)
(* OpenSearch takes no part in the database's transaction.  The daemon     *)
(* writes the row, then the document, then commits; when one of them fails *)
(* it rolls the row back and may have to undo the document.  A call to     *)
(* OpenSearch that fails may have had its effect all the same (a timeout). *)
(***************************************************************************)
EXTENDS AsyncQueue

CONSTANT Anonymous    \* the identifiers that have no owner

ASSUME AnonymousAssumption == Anonymous \subseteq Identifiers

VARIABLES
    table,      \* SearchIdentifier: the snapshot each identifier has there, or 0
    index,      \* OpenSearch: the same
    stage,      \* how far the daemon is with the current task
    performed   \* the tasks do_task has returned from, for the properties

vars == <<queueVars, table, index, stage, performed>>

Stages == {"ready", "written", "undo", "done", "failed"}

Task == tasks[Current]

Init ==
    /\ QueueInit
    /\ table = [id \in Identifiers |-> 0]
    /\ index = [id \in Identifiers |-> 0]
    /\ stage = "ready"
    /\ performed = {}

-----------------------------------------------------------------------------
(* Performing a task *)

\* What happens next, and in the case of success that the task is performed.
Goto(s) ==
    /\ stage' = s
    /\ performed' = IF s = "done" THEN performed \union {Current} ELSE performed

Working == batch # <<>> /\ UNCHANGED queueVars

\* Mutant: the deletion of what is in the table is skipped too.
SkipDeletes ==
    /\ Working /\ stage = "ready" /\ Current \in refs
    /\ Task.identifier \in Anonymous \/ Task.operation = "DELETE"
    /\ Goto("done")
    /\ UNCHANGED <<table, index>>

\* A task is skipped for an identifier without an owner, and so is the deletion
\* of one that is not in the table.
Skip ==
    /\ Working /\ stage = "ready" /\ Current \in refs
    /\ \/ Task.identifier \in Anonymous
       \/ Task.operation = "DELETE" /\ table[Task.identifier] = 0
    /\ Goto("done")
    /\ UNCHANGED <<table, index>>

\* The snapshot is gone: RefIdentifier.DoesNotExist, from any of the operations.
RefMissing ==
    /\ Working /\ stage = "ready" /\ Current \notin refs
    /\ Goto("failed")
    /\ UNCHANGED <<table, index>>

\* A call to OpenSearch that would leave snapshot s of an identifier there.
Call(id, s, answered, refused) ==
    \/ index' = [index EXCEPT ![id] = s] /\ Goto(answered)
    \/ index' = [index EXCEPT ![id] = s] /\ Goto(refused)
    \/ UNCHANGED index /\ Goto(refused)

\* Mutant: the answer of OpenSearch is not looked at.
UpdateOrCreateUnchecked ==
    /\ Working /\ stage = "ready" /\ Current \in refs
    /\ Task.operation \in {"CREATE", "UPDATE"}
    /\ Task.identifier \notin Anonymous
    /\ \/ Call(Task.identifier, Current, "written", "written")
       \/ Goto("undo") /\ UNCHANGED index
    /\ UNCHANGED table

\* _update_or_create, up to its commit: the row is saved, not yet visible, and
\* the document is indexed.
UpdateOrCreate ==
    /\ Working /\ stage = "ready" /\ Current \in refs
    /\ Task.operation \in {"CREATE", "UPDATE"}
    /\ Task.identifier \notin Anonymous
    /\ \/ Call(Task.identifier, Current, "written", "failed")
       \/ Goto("undo") /\ UNCHANGED index
    /\ UNCHANGED table

\* delete, up to its commit: the document is removed first.
Delete ==
    /\ Working /\ stage = "ready" /\ Current \in refs
    /\ Task.operation = "DELETE"
    /\ Task.identifier \notin Anonymous
    /\ table[Task.identifier] # 0
    /\ Call(Task.identifier, 0, "written", "failed")
    /\ UNCHANGED table

\* The transaction commits, or the database fails and it is rolled back.
Commit ==
    /\ Working /\ stage = "written"
    /\ \/ /\ table' = [table EXCEPT ![Task.identifier] =
                          IF Task.operation = "DELETE" THEN 0 ELSE Current]
          /\ Goto("done")
       \/ UNCHANGED table /\ Goto("undo")
    /\ UNCHANGED index

\* After the database failed: a document whose row does not exist is removed; a
\* document whose row was not deleted is indexed again, from the identifier
\* itself if that exists.  The task has failed in any case.
Undo ==
    /\ Working /\ stage = "undo"
    /\ LET id == Task.identifier
       IN  \/ /\ Task.operation # "DELETE" /\ table[id] = 0
              /\ Call(id, 0, "failed", "failed")
           \/ /\ Task.operation = "DELETE" /\ Exists(id)
              /\ Call(id, Newest(id), "failed", "failed")
           \/ Goto("failed") /\ UNCHANGED index
    /\ UNCHANGED table

\* The end of the loop's body: the status is saved and the next task taken.
Settle ==
    /\ batch # <<>>
    /\ stage \in {"done", "failed"}
    /\ SaveTask(IF stage = "done" THEN "SUCCESS" ELSE "FAILURE")
    /\ stage' = "ready"
    /\ UNCHANGED <<table, index, performed>>

Crash ==
    /\ EndDaemon
    /\ stage' = "ready"
    /\ UNCHANGED <<table, index, performed>>

-----------------------------------------------------------------------------

stores == <<table, index, stage, performed>>

Daemon ==
    \/ Fetch /\ UNCHANGED stores
    \/ Skip
    \/ RefMissing
    \/ UpdateOrCreate
    \/ Delete
    \/ Commit
    \/ Undo
    \/ Settle

Others ==
    /\ \/ \E id \in Identifiers, operation \in Operations : Enqueue(id, operation)
       \/ OtherProcesses
    /\ UNCHANGED stores

Next == Daemon \/ Crash \/ Others

\* The daemon runs when it can, and days pass.
Fairness ==
    /\ WF_vars(Daemon)
    /\ \A s \in 1..MaxTasks : WF_vars(Expire(s) /\ UNCHANGED stores)

Spec == Init /\ [][Next]_vars /\ Fairness

-----------------------------------------------------------------------------
(* Properties *)

\* Every variable has its type; a row of the queue always has its snapshot, a
\* row that is put back included, and no stage lasts beyond its batch.
TypeOK ==
    /\ QueueTypeOK
    /\ table \in [Identifiers -> {0} \union Seqs]
    /\ index \in [Identifiers -> {0} \union Seqs]
    /\ stage \in Stages
    /\ performed \subseteq Seqs
    /\ batch = <<>> => stage = "ready"

\* The table and the index hold the same of an identifier whenever it has no
\* task left to perform or failed: what goes wrong between the two, a crash
\* included, is never behind a task that counts as a success.
StoresAgree ==
    \A id \in Identifiers : Outstanding(id) = {} => table[id] = index[id]

\* An identifier that never had two tasks outstanding at once is found in search
\* as it is, or not at all once it is deleted.
NewestUnlessCrowded ==
    \A id \in Identifiers \ (crowded \union Anonymous) :
        Outstanding(id) = {} => table[id] = IF Exists(id) THEN Newest(id) ELSE 0

\* A row disappears from the queue only after its task was performed, or was
\* marked by hand.
NoTaskLost == \A s \in Seqs : s \in DOMAIN queue \union performed \union ignored

\* Once nothing more is enqueued every task has been attempted at some time: the
\* newer ones do not starve the older, however often they fail.
BacklogDrains == <>[](Rows({"UNSUBMITTED"}) = {})

\* "Order of insertion into this table; also, the order in which identifier
\* operations must be performed": no task is performed after a later one of the
\* same identifier.
PerformedInOrder ==
    [][ \A s \in performed' \ performed :
            \A t \in performed :
                tasks[t].identifier = tasks[s].identifier => t < s ]_vars
=============================================================================
