---------------------------- MODULE DataciteDaemon ----------------------------
(***************************************************************************)
(* The daemon that registers DOIs with DataCite, proc-datacite.py, on      *)
(* impl/datacite.py.  DataCite keeps three things of a DOI, each set by a  *)
(* call of its own: the metadata, the target, and whether the DOI is in    *)
(* its search index.  Uploading metadata puts it there.                    *)
(*                                                                         *)
(* A call makes several attempts, minutes apart.  What the daemon sees in  *)
(* the end is success, a refusal that it gets as a string, or an           *)
(* exception; in the last case an attempt may have taken effect.           *)
(***************************************************************************)
EXTENDS AsyncQueue

CONSTANT DataciteDois    \* the identifiers that DataCite registers, test DOIs not among them

ASSUME DataciteAssumption == DataciteDois \subseteq Identifiers

VARIABLES
    remote,     \* what DataCite has: the tasks the metadata and the target come from
    standing,   \* the identifier's status in each task's snapshot
    progress    \* how far the daemon is with the current task

dataciteVars == <<remote, standing, progress>>

Standings == {"public", "unavailable"}

Doi == tasks[Current].identifier

Unregistered == [metadata |-> 0, target |-> 0, listed |-> FALSE]

DataciteInit ==
    /\ remote = [id \in Identifiers |-> Unregistered]
    /\ standing = <<>>
    /\ progress = "ready"

Request(id, operation) ==
    /\ Enqueue(id, operation)
    /\ \E status \in Standings :
          /\ operation = "CREATE" => status = "public"
          /\ standing' = Append(standing, status)
    /\ UNCHANGED <<remote, progress>>

-----------------------------------------------------------------------------
(* The daemon *)

Advance(now, next) ==
    /\ batch # <<>>
    /\ progress = now
    /\ progress' = next

Registering(operations) ==
    /\ batch # <<>> /\ Current \in refs
    /\ Doi \in DataciteDois
    /\ tasks[Current].operation \in operations
    /\ UNCHANGED <<queueVars, standing>>

\* A call that would make DataCite's record of the DOI what record says.
Effective(record) == remote' = [remote EXCEPT ![Doi] = record]

\* _is_eligible: the task is not for DataCite.  The IGNORED it sets is overwritten
\* by run, whose SUCCESS is as good for the cleanup.
Ineligible ==
    /\ Advance("ready", "done")
    /\ Current \in refs
    /\ Doi \notin DataciteDois
    /\ UNCHANGED <<queueVars, standing, remote>>

\* uploadMetadata; a refusal and an exception both fail the task.
Upload ==
    /\ Registering({"CREATE", "UPDATE"})
    /\ \/ /\ Advance("ready", "uploaded")
          /\ Effective([remote[Doi] EXCEPT !.metadata = Current, !.listed = TRUE])
       \/ /\ Advance("ready", "failed")
          /\ \/ Effective([remote[Doi] EXCEPT !.metadata = Current, !.listed = TRUE])
             \/ UNCHANGED remote

\* Mutant: the answer is not looked at, as it is not on a delete.
SetTargetUnchecked ==
    /\ Registering({"CREATE", "UPDATE"})
    /\ Advance("uploaded", "targeted")
    /\ \/ Effective([remote[Doi] EXCEPT !.target = Current])
       \/ UNCHANGED remote

\* setTargetUrl, to resolverTarget.
SetTarget ==
    /\ Registering({"CREATE", "UPDATE"})
    /\ \/ /\ Advance("uploaded", "targeted")
          /\ Effective([remote[Doi] EXCEPT !.target = Current])
       \/ /\ Advance("uploaded", "failed")
          /\ \/ Effective([remote[Doi] EXCEPT !.target = Current])
             \/ UNCHANGED remote

\* The names in a snapshot's metadata: citation elements, and the one that the
\* daemon adds.  The status and the export flag are columns of their own.
Elements == {"datacite", "_profile"}

\* "check for non-public and adjust to suit": it looks for the status among the
\* elements, by its name in the store of old.
ToBeDeactivated(s) == "_is" \in Elements /\ standing[s] = "unavailable"

\* The task is saved as a success before that.  Without its snapshot the save
\* fails, and the task with it.
SaveEarly ==
    /\ batch # <<>> /\ progress = "targeted"
    /\ IF Current \in refs
         THEN /\ queue' = WithRow(Current, "SUCCESS")
              /\ progress' = IF ToBeDeactivated(Current) THEN "deactivate" ELSE "done"
         ELSE /\ progress' = "failed"
              /\ UNCHANGED queue
    /\ UNCHANGED <<tasks, refs, batch, expired, cleaning, crashes, ignored, crowded,
                   remote, standing>>

\* delete: a DOI cannot be deleted, so its target is made invalid; a refusal of
\* that goes unnoticed.
Invalidate ==
    /\ Registering({"DELETE"})
    /\ \E raised \in BOOLEAN : Advance("ready", IF raised THEN "failed" ELSE "deactivate")
    /\ \/ Effective([remote[Doi] EXCEPT !.target = Current])
       \/ UNCHANGED remote

\* _deactivate: it compares the bytes of the answer with a string, finds them
\* different whatever they are, and raises after the last attempt.
Delist ==
    /\ Advance("deactivate", "failed")
    /\ \/ Effective([remote[Doi] EXCEPT !.listed = FALSE])
       \/ UNCHANGED remote

\* deactivateIdentifier: where DataCite has no metadata some is made up for it
\* first, and deactivated if that could be uploaded.
Deactivate ==
    /\ \/ Delist
       \/ /\ Advance("deactivate", "failed")
          /\ remote[Doi].metadata = 0
          /\ Effective([remote[Doi] EXCEPT !.listed = TRUE])
    /\ UNCHANGED <<queueVars, standing>>

\* The snapshot is gone when the task is looked at.
SnapshotGone ==
    /\ Advance("ready", "failed")
    /\ Current \notin refs
    /\ UNCHANGED <<queueVars, standing, remote>>

\* The status run gives the task.
DataciteSettle ==
    /\ batch # <<>> /\ progress \in {"done", "failed"}
    /\ SaveTask(IF progress = "done" THEN "SUCCESS" ELSE "FAILURE")
    /\ progress' = "ready"
    /\ UNCHANGED <<remote, standing>>

DataciteCrash ==
    /\ EndDaemon
    /\ progress' = "ready"
    /\ UNCHANGED <<remote, standing>>

-----------------------------------------------------------------------------

DataciteLoop ==
    \/ Fetch /\ UNCHANGED dataciteVars
    \/ Ineligible
    \/ Upload \/ SetTarget \/ SaveEarly
    \/ Invalidate \/ Deactivate
    \/ SnapshotGone
    \/ DataciteSettle

DataciteNext ==
    \/ DataciteLoop
    \/ DataciteCrash
    \/ \E id \in Identifiers, operation \in Operations : Request(id, operation)
    \/ OtherProcesses /\ UNCHANGED dataciteVars

-----------------------------------------------------------------------------
(* Properties *)

DataciteTypeOK ==
    /\ remote \in [Identifiers -> [metadata : 0..Len(tasks), target : 0..Len(tasks),
                                   listed : BOOLEAN]]
    /\ Range(standing) \subseteq Standings
    /\ progress \in {"ready", "uploaded", "targeted", "deactivate", "done", "failed"}
=============================================================================
