------------------------------ MODULE AsyncQueue ------------------------------
(***************************************************************************)
(* A queue of identifier operations that a daemon performs elsewhere       *)
(* (ezidapp/models/async_queue.py), and the processes that share its table *)
(* in the database:                                                        *)
(*                                                                         *)
(*   - every operation on an identifier adds a RefIdentifier, a snapshot   *)
(*     of the identifier, and a row that refers to it (impl/enqueue.py);   *)
(*   - the daemon takes a batch of rows and performs them one by one (the  *)
(*     loop of proc_base.py, and proc-search-indexer.py's copy of it);     *)
(*   - proc-cleanup-async-queues deletes the rows that are done, then the  *)
(*     snapshots no queue refers to;                                       *)
(*   - update-async-queue-for-delete, run by hand, marks an identifier's   *)
(*     rows as IGNORED.                                                    *)
(*                                                                         *)
(* This module has what is the same for every queue; a module of a daemon  *)
(* extends it with what performing a task is.  The snapshot of a task is   *)
(* its place in the order of enqueueing: what matters of its metadata is   *)
(* only how recent it is.                                                  *)
(***************************************************************************)
EXTENDS Naturals, Sequences, SequencesExt, FiniteSets, FiniteSetsExt

CONSTANTS Identifiers,
          BatchSize,         \* DAEMONS_MAX_BATCH_SIZE
          RetriesFailures,   \* whether the daemon takes failed tasks again
          MaxTasks,          \* bound on the tasks enqueued
          MaxCrashes,        \* bound on the crashes of the daemon
          MaxMarks           \* bound on the tasks marked by hand

ASSUME QueueAssumption ==
    /\ BatchSize \in Nat \ {0}
    /\ RetriesFailures \in BOOLEAN
    /\ MaxTasks \in Nat
    /\ MaxCrashes \in Nat
    /\ MaxMarks \in Nat

VARIABLES
    tasks,      \* every task enqueued, by seq: its identifier and operation
    refs,       \* the tasks whose RefIdentifier exists
    queue,      \* the queue's table: the status of every row, by seq
    batch,      \* the daemon's copies of the rows it has still to perform
    expired,    \* the tasks that were enqueued more than a day ago
    cleaning,   \* the row the cleanup is about to delete, or 0
    crashes     \* how often the daemon has crashed

\* What happened, for the properties.
VARIABLES
    ignored,    \* the tasks that were marked by hand
    crowded     \* the identifiers that had two tasks outstanding at once

queueVars == <<tasks, refs, queue, batch, expired, cleaning, crashes, ignored, crowded>>

Operations == {"CREATE", "UPDATE", "DELETE"}

\* UNCHECKED, SUBMITTED and WARNING are the Crossref daemon's.
Statuses == {"UNSUBMITTED", "UNCHECKED", "SUBMITTED",
             "SUCCESS", "WARNING", "FAILURE", "IGNORED"}

\* Tasks whose performance has not ended.
Open == {"UNSUBMITTED", "UNCHECKED", "SUBMITTED"}

Seqs == 1..Len(tasks)

TasksOf(id) == {s \in Seqs : tasks[s].identifier = id}

Newest(id) == Max(TasksOf(id) \union {0})

\* Whether the Identifier table has a row for it.
Exists(id) == TasksOf(id) # {} /\ tasks[Newest(id)].operation # "DELETE"

Rows(statuses) == {s \in DOMAIN queue : queue[s] \in statuses}

\* Tasks that are still to be performed, or may be, or were given up.
Outstanding(id) == TasksOf(id) \intersect
                     (Rows(Open \union IF RetriesFailures THEN {"FAILURE"} ELSE {})
                        \union Range(batch) \union ignored)

QueueInit ==
    /\ tasks = <<>> /\ refs = {} /\ queue = <<>> /\ batch = <<>>
    /\ expired = {} /\ cleaning = 0 /\ crashes = 0
    /\ ignored = {} /\ crowded = {}

WithRow(s, status) == [r \in DOMAIN queue \union {s} |-> IF r = s THEN status ELSE queue[r]]

WithoutRow(s) == [r \in DOMAIN queue \ {s} |-> queue[r]]

-----------------------------------------------------------------------------
(* The web server *)

\* enqueue, in the transaction of the operation itself.
Enqueue(id, operation) ==
    LET s == Len(tasks) + 1
    IN  /\ s <= MaxTasks
        /\ Exists(id) <=> operation # "CREATE"
        /\ tasks' = Append(tasks, [identifier |-> id, operation |-> operation])
        /\ refs' = refs \union {s}
        /\ queue' = WithRow(s, "UNSUBMITTED")
        /\ crowded' = IF Outstanding(id) = {} THEN crowded ELSE crowded \union {id}
        /\ UNCHANGED <<batch, expired, cleaning, crashes, ignored>>

-----------------------------------------------------------------------------
(* The daemon *)

\* Mutant: a failed task is tried again for ever.
RetryableForever(due) == IF RetriesFailures THEN due \intersect Rows({"FAILURE"}) ELSE {}

\* Failed tasks that were tried more than five minutes ago, and are not too old.
Retryable(due) ==
    IF RetriesFailures THEN (due \intersect Rows({"FAILURE"})) \ expired ELSE {}

\* order_by and the slice: what the query may return, one sequence as no two rows
\* have the same seq.
Slices(rows, Before(_, _)) ==
    {SubSeq(s, 1, Min({BatchSize, Len(s)})) :
        s \in {r \in SetToSeqs(rows) : \A m, n \in DOMAIN r : m < n => Before(r[m], r[n])}}

\* order_by("-seq")
Batches(rows) == Slices(rows, LAMBDA s, t : s > t)

\* The query of run, when the last batch is finished.
Fetch ==
    /\ batch = <<>>
    /\ \E due \in SUBSET Rows({"FAILURE"}) :
          LET rows == Rows({"UNSUBMITTED"}) \union Retryable(due)
          IN  rows # {} /\ batch' \in Batches(rows)
    /\ UNCHANGED <<tasks, refs, queue, expired, cleaning, crashes, ignored, crowded>>

Current == Head(batch)

\* Mutant: nothing protects a row's reference to its snapshot.
SaveTaskUnprotected(status) ==
    /\ queue' = WithRow(Current, status)
    /\ batch' = Tail(batch)
    /\ UNCHANGED <<tasks, refs, expired, cleaning, crashes, ignored, crowded>>

\* task_model.save() of the daemon's copy: it puts the row back if it was
\* deleted meanwhile, unless the RefIdentifier is gone too, when the foreign key
\* fails, outside of any try, and the daemon ends.
SaveTask(status) ==
    /\ IF Current \in refs
         THEN /\ queue' = WithRow(Current, status)
              /\ batch' = Tail(batch)
         ELSE /\ batch' = <<>>
              /\ UNCHANGED queue
    /\ UNCHANGED <<tasks, refs, expired, cleaning, crashes, ignored, crowded>>

\* The daemon ends, at any point, and is started again.
EndDaemon ==
    /\ crashes < MaxCrashes
    /\ crashes' = crashes + 1
    /\ batch' = <<>>
    /\ UNCHANGED <<tasks, refs, queue, expired, cleaning, ignored, crowded>>

\* A day has passed since the task was enqueued.  It matters once it has failed.
Expire(s) ==
    /\ RetriesFailures
    /\ s \in Rows({"FAILURE"}) \ expired
    /\ expired' = expired \union {s}
    /\ UNCHANGED <<tasks, refs, queue, batch, cleaning, crashes, ignored, crowded>>

-----------------------------------------------------------------------------
(* The other processes *)

\* Mutant: whatever has an end status is cleaned up.
DoneIfEnded == {"SUCCESS", "IGNORED", "FAILURE"}

Done == {"SUCCESS", "IGNORED"}

\* proc-cleanup-async-queues reads a row that is done.  Which snapshots it looks
\* at is a range of dates, which may be given on the command line.
FindDone(s) ==
    /\ cleaning = 0
    /\ s \in Rows(Done)
    /\ cleaning' = s
    /\ UNCHANGED <<tasks, refs, queue, batch, expired, crashes, ignored, crowded>>

\* deleteRecord, of a row, in a transaction of its own.
DeleteDone ==
    /\ cleaning # 0
    /\ queue' = WithoutRow(cleaning)
    /\ cleaning' = 0
    /\ UNCHANGED <<tasks, refs, batch, expired, crashes, ignored, crowded>>

\* deleteRecord, of a snapshot: the foreign key protects it while a row of the
\* queue refers to it.  The other queues may be done with it or not.
DeleteRef(s) ==
    /\ cleaning = 0
    /\ s \in refs \ DOMAIN queue
    /\ refs' = refs \ {s}
    /\ UNCHANGED <<tasks, queue, batch, expired, cleaning, crashes, ignored, crowded>>

\* update-async-queue-for-delete of an identifier: it expects one snapshot.
MarkIgnored(id) ==
    /\ Cardinality(ignored) < MaxMarks
    /\ \E s \in refs :
          /\ TasksOf(id) \intersect refs = {s}
          /\ s \in DOMAIN queue
          /\ queue' = WithRow(s, "IGNORED")
          /\ ignored' = ignored \union {s}
    /\ UNCHANGED <<tasks, refs, batch, expired, cleaning, crashes, crowded>>

OtherProcesses ==
    \/ \E s \in Seqs : Expire(s) \/ FindDone(s) \/ DeleteRef(s)
    \/ DeleteDone
    \/ \E id \in Identifiers : MarkIgnored(id)

-----------------------------------------------------------------------------
(* Properties *)

QueueTypeOK ==
    /\ tasks \in Seq([identifier: Identifiers, operation: Operations])
    /\ DOMAIN queue \subseteq refs /\ refs \subseteq Seqs
    /\ \A s \in DOMAIN queue : queue[s] \in Statuses
    /\ Range(batch) \subseteq Seqs /\ Len(batch) <= BatchSize
    /\ expired \subseteq Seqs /\ cleaning \in {0} \union Seqs
    /\ crashes \in 0..MaxCrashes
    /\ ignored \subseteq Seqs /\ crowded \subseteq Identifiers
=============================================================================
