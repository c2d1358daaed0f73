---------------------------- MODULE CrossrefDaemon ----------------------------
(***************************************************************************)
(* The daemon that registers DOIs with Crossref, proc-crossref.py.         *)
(* Registration is asynchronous at Crossref too: the daemon submits a      *)
(* deposit, in a pass over the oldest open rows of its queue, and asks for *)
(* its outcome in later passes.  Every answer it writes into the           *)
(* identifier, by the operation users update identifiers with, and then    *)
(* into the row.                                                           *)
(*                                                                         *)
(* Crossref's side is external: a deposit is processed after a while, with *)
(* any outcome; of one that never arrived Crossref says, for ever, that    *)
(* the submission is unknown, which counts as one in progress.             *)
(***************************************************************************)
EXTENDS AsyncQueue

CONSTANTS CrossrefDois,    \* the identifiers that Crossref registers
          MaxLost          \* bound on the deposits that do not arrive

ASSUME CrossrefAssumption == CrossrefDois \subseteq Identifiers /\ MaxLost \in Nat

VARIABLES
    deposits,   \* what Crossref has of each task's last batch
    shown,      \* Identifier.crossrefStatus
    held,       \* the status in the daemon's copy of each row of the batch
    step,       \* how far the daemon is with the current task
    verdict     \* the status it is about to save

crossrefVars == <<deposits, shown, held, step, verdict>>

Outcomes == {"SUCCESS", "WARNING", "FAILURE"}

DepositStates == {"none", "lost", "processing"} \union Outcomes

Lost == {s \in DOMAIN deposits : deposits[s] = "lost"}

Subject == tasks[Current].identifier

CrossrefInit ==
    /\ deposits = <<>>
    /\ shown = [id \in Identifiers |-> ""]
    /\ held = <<>>
    /\ step = "ready"
    /\ verdict = "UNSUBMITTED"

-----------------------------------------------------------------------------

\* setMetadata and createIdentifier set the status back to CR_WORKING as they
\* enqueue; it is gone with the row on a delete.
Operate(id, operation) ==
    /\ Enqueue(id, operation)
    /\ deposits' = Append(deposits, "none")
    /\ shown' = [shown EXCEPT ![id] =
                    IF id \in CrossrefDois /\ operation # "DELETE" THEN "SUBMITTED" ELSE ""]
    /\ UNCHANGED <<held, step, verdict>>

\* Crossref is done with a deposit.
CrossrefProcesses(s) ==
    /\ s \in DOMAIN deposits /\ deposits[s] = "processing"
    /\ \E outcome \in Outcomes : deposits' = [deposits EXCEPT ![s] = outcome]
    /\ UNCHANGED <<queueVars, shown, held, step, verdict>>

-----------------------------------------------------------------------------
(* The daemon *)

\* Mutant: a deposit is looked at once.
OpenUnlessChecked == {"UNSUBMITTED", "UNCHECKED"}

Polled == Open

\* The query of run: oldest first.
CrossrefFetch ==
    /\ batch = <<>>
    /\ Rows(Polled) # {}
    /\ batch' \in Slices(Rows(Polled), LAMBDA s, t : s < t)
    /\ held' = [s \in Range(batch') |-> queue[s]]
    /\ UNCHANGED <<tasks, refs, queue, expired, cleaning, crashes, ignored, crowded,
                   deposits, shown, step, verdict>>

Performing(now, next) ==
    /\ batch # <<>>
    /\ step = now
    /\ step' = next
    /\ UNCHANGED <<queueVars, held>>

\* submit, of an identifier that is not Crossref's: AsyncProcessingIgnored.
PassOver ==
    /\ Performing("ready", "settle")
    /\ Current \in refs /\ held[Current] = "UNSUBMITTED"
    /\ Subject \notin CrossrefDois
    /\ verdict' = "IGNORED"
    /\ UNCHANGED <<deposits, shown>>

\* submit: what _submitDeposit returns is not looked at, so a deposit that did not
\* arrive counts as submitted.
Submit ==
    /\ Performing("ready", "settle")
    /\ Current \in refs /\ held[Current] = "UNSUBMITTED"
    /\ Subject \in CrossrefDois
    /\ \/ deposits' = [deposits EXCEPT ![Current] = "processing"]
       \/ /\ Cardinality(Lost) < MaxLost
          /\ deposits' = [deposits EXCEPT ![Current] = "lost"]
    /\ verdict' = "UNCHECKED"
    /\ UNCHANGED shown

Answer(deposit) == IF deposit \in Outcomes THEN deposit ELSE "SUBMITTED"

\* Mutant: the row is saved before the identifier is told.
PollSaving ==
    /\ batch # <<>> /\ step = "ready" /\ step' = "tell"
    /\ Current \in refs /\ held[Current] \in {"UNCHECKED", "SUBMITTED"}
    /\ verdict' = Answer(deposits[Current])
    /\ queue' = WithRow(Current, verdict')
    /\ UNCHANGED <<tasks, refs, batch, expired, cleaning, crashes, ignored, crowded,
                   held, deposits, shown>>

\* check_status, as far as Crossref's answer.
Poll ==
    /\ Performing("ready", "tell")
    /\ Current \in refs /\ held[Current] \in {"UNCHECKED", "SUBMITTED"}
    /\ verdict' = Answer(deposits[Current])
    /\ UNCHANGED <<deposits, shown>>

\* check_status: the answer is written into the identifier, unless the operation
\* was its deletion.  If it is gone by now setMetadata refuses, and the assertion
\* after it fails the task.
Tell ==
    /\ Performing("tell", "settle")
    /\ IF tasks[Current].operation = "DELETE"
         THEN UNCHANGED <<shown, verdict>>
         ELSE IF Exists(Subject)
           THEN /\ shown' = [shown EXCEPT ![Subject] = verdict]
                /\ UNCHANGED verdict
           ELSE /\ verdict' = "FAILURE"
                /\ UNCHANGED shown
    /\ UNCHANGED deposits

\* An exception fails the task for good: the metadata makes no deposit, the
\* snapshot is gone, Crossref does not answer when asked, setMetadata refuses.
Fail ==
    /\ step \in {"ready", "tell"}
    /\ Performing(step, "settle")
    /\ verdict' = "FAILURE"
    /\ UNCHANGED <<deposits, shown>>

\* _sendEmail, of a warning the identifier has been told of, raises, and the task
\* fails.  Mail that is sent changes nothing here.
MailFails ==
    /\ Performing("settle", "settle")
    /\ verdict = "WARNING"
    /\ verdict' = "FAILURE"
    /\ UNCHANGED <<deposits, shown>>

\* The copies that are left, when the daemon is through with one of them.
Dismiss ==
    /\ held' = [s \in Range(batch') |-> held[s]]
    /\ step' = "ready"
    /\ verdict' = "UNSUBMITTED"
    /\ UNCHANGED <<deposits, shown>>

\* task_model.save()
CrossrefSettle ==
    /\ batch # <<>> /\ step = "settle"
    /\ SaveTask(verdict)
    /\ Dismiss

CrossrefCrash ==
    /\ EndDaemon
    /\ Dismiss

-----------------------------------------------------------------------------

CrossrefLoop ==
    \/ CrossrefFetch
    \/ PassOver \/ Submit
    \/ Poll \/ Tell
    \/ Fail \/ MailFails
    \/ CrossrefSettle

CrossrefNext ==
    \/ CrossrefLoop
    \/ CrossrefCrash
    \/ \E s \in Seqs : CrossrefProcesses(s)
    \/ \E id \in Identifiers, operation \in Operations : Operate(id, operation)
    \/ OtherProcesses /\ UNCHANGED crossrefVars

-----------------------------------------------------------------------------
(* Properties *)

CrossrefTypeOK ==
    /\ Len(deposits) \in {0, Len(tasks)} /\ Range(deposits) \subseteq DepositStates
    /\ shown \in [Identifiers -> Outcomes \union {"", "SUBMITTED"}]
    /\ DOMAIN held \subseteq Seqs /\ \A s \in DOMAIN held : held[s] \in Open
    /\ step \in {"ready", "tell", "settle"}
    /\ verdict \in Statuses
=============================================================================
