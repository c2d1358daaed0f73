------------------------------- MODULE Agencies -------------------------------
(***************************************************************************)
(* The two registration agencies.  Every operation on an identifier that   *)
(* is not reserved is put into the queues of both, whoever the identifier  *)
(* belongs to, and each daemon passes over what is the other's.  The       *)
(* queues share nothing but the snapshots, so a behaviour of this module   *)
(* follows one of the two.                                                 *)
(***************************************************************************)
EXTENDS CrossrefDaemon, DataciteDaemon

VARIABLE followed    \* the agency whose queue this is

agenciesVars == <<queueVars, crossrefVars, dataciteVars, followed>>

AgenciesInit ==
    /\ QueueInit /\ CrossrefInit /\ DataciteInit
    /\ followed \in {"Crossref", "DataCite"}

Crossref == followed = "Crossref" /\ CrossrefNext /\ UNCHANGED <<dataciteVars, followed>>

Datacite == followed = "DataCite" /\ DataciteNext /\ UNCHANGED <<crossrefVars, followed>>

AgenciesNext == Crossref \/ Datacite

\* The daemons run, and Crossref gets round to what it has received.
AgenciesFairness ==
    /\ WF_agenciesVars(followed = "Crossref" /\ CrossrefLoop /\ UNCHANGED <<dataciteVars, followed>>)
    /\ WF_agenciesVars(followed = "DataCite" /\ DataciteLoop /\ UNCHANGED <<crossrefVars, followed>>)
    /\ \A s \in 1..MaxTasks :
          WF_agenciesVars(CrossrefProcesses(s) /\ UNCHANGED <<dataciteVars, followed>>)

AgenciesSpec == AgenciesInit /\ [][AgenciesNext]_agenciesVars /\ AgenciesFairness

-----------------------------------------------------------------------------
(* Properties *)

\* Every variable has its type, and a row of either queue always has its snapshot.
AgenciesTypeOK ==
    /\ QueueTypeOK
    /\ CrossrefTypeOK
    /\ DataciteTypeOK

\* The row, the identifier and Crossref tell the same of an identifier that never
\* had two deposits under way at once: when the row of its last operation says
\* that Crossref registered it, Crossref did, and the identifier says the same,
\* wherever the daemon was stopped and started again.
OutcomeReachesIdentifier ==
    followed = "Crossref" =>
        \A id \in CrossrefDois \ crowded :
            LET s == Newest(id)
            IN  Exists(id) /\ s \in Rows({"SUCCESS", "WARNING"}) =>
                    queue[s] = deposits[s] /\ shown[id] = deposits[s]

\* As long as fewer deposits were lost than a batch has places, every other
\* deposit comes to its end, and so does every task for DataCite.  Lost deposits
\* are polled for ever, before all others.
TasksEnd ==
    [](Cardinality(Lost) < BatchSize) => <>[](Rows(Open) \subseteq Lost)

\* The last operation on a DOI was performed for DataCite, and not given up or
\* marked by hand.
Succeeded(id) ==
    LET s == Newest(id)
    IN  /\ Exists(id)
        /\ s \in Rows({"SUCCESS"}) \/ s \notin DOMAIN queue
        /\ s \notin ignored

\* If the last operation on a DOI that never had two waiting at once has
\* succeeded, DataCite has its metadata and its target: the two calls, the early
\* save and the crashes in between never leave one of them behind.  A public DOI is
\* listed, too.  ("check for non-public and adjust to suit" would have one that is
\* unavailable taken out of the list; the daemon leaves it there, and nothing is
\* said of it here.)
DataciteHasNewest ==
    followed = "DataCite" =>
        \A id \in DataciteDois \ crowded : Succeeded(id) =>
            /\ remote[id].metadata = Newest(id)
            /\ remote[id].target = Newest(id)
            /\ standing[Newest(id)] = "public" => remote[id].listed
=============================================================================
