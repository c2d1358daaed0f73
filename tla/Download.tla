-------------------------------- MODULE Download --------------------------------
(***************************************************************************)
(* Batch download: the queue of requests (impl/download.py) and the daemon *)
(* that serves them one after the other (proc-download.py).                *)
(*                                                                         *)
(* A request is harvested, from table SearchIdentifier into a file, one    *)
(* page of one owner at a time, then compressed, uploaded and announced.   *)
(* The row of the request holds how far it is, and the file may be ahead   *)
(* of the row: the daemon may be stopped between any two steps, and the    *)
(* identifiers change meanwhile.                                           *)
(*                                                                         *)
(* A file is the sequence of its entries.  An entry is a pair: which of    *)
(* the request's owners, and the identifier; a header belongs to part 0,   *)
(* and a footer to the part after the last.                                *)
(***************************************************************************)
EXTENDS Naturals, Sequences, SequencesExt, FiniteSets, FiniteSetsExt

CONSTANTS Identifiers,    \* numbers, for the order of the identifiers
          Owners,
          Nobody,         \* for an identifier that is not in SearchIdentifier
          Requests,       \* what may be asked for
          PageSize,       \* 1000 in the code
          MaxRequests,    \* bound on the requests
          MaxChanges,     \* bound on the changes of identifiers
          MaxStops,       \* bound on the crashes and terminations of the daemon
          MaxFailures,    \* bound on the stages and uploads that fail
          MaxOutages      \* bound on the weeks in which nothing is done

Formats == {"ANVL", "CSV", "XML"}

ASSUME DownloadAssumption ==
    /\ Identifiers \subseteq Nat \ {0} /\ IsFiniteSet(Identifiers)
    /\ Nobody \notin Owners
    /\ Requests \subseteq [format : Formats, toHarvest : Seq(Owners),
                           matching : SUBSET Identifiers]
    /\ \A request \in Requests :
          request.toHarvest # <<>> /\ IsInjective(request.toHarvest)
    /\ PageSize \in Nat \ {0}
    /\ {MaxRequests, MaxChanges, MaxStops, MaxFailures, MaxOutages} \subseteq Nat

VARIABLES
    requests,     \* every request made, by seq: what its row never changes
    rows,         \* the DownloadQueue: how far every request is, by seq
    owner,        \* SearchIdentifier: the owner of every identifier
    disk,         \* the local files of the first request, "work" and "packed"
    s3,           \* the files delivered, by seq
    old,          \* the local files that were last written more than a week ago
    pc,           \* where the daemon is
    job,          \* its copy of the first row, once it works on it
    terminated    \* it was sent a signal

\* What happened, for the properties and the bounds.
VARIABLES
    changes, stops, failures, outages,
    moved,        \* the identifiers that changed since the file was created
    curtailed,    \* the requests harvested when a signal came
    unsent,       \* the requests with an upload that failed
    notified      \* the requests whose requestor was sent the link

queueVars == <<requests, rows>>
daemonVars == <<pc, job, terminated>>
fileVars == <<disk, s3, old>>
history == <<changes, stops, failures, outages, moved, curtailed, unsent, notified>>
vars == <<queueVars, owner, daemonVars, fileVars, history>>

Stages == {"CREATE", "HARVEST", "COMPRESS", "DELETE", "MOVE", "NOTIFY"}

Seqs == 1..MaxRequests

NoJob == <<>>

\* order_by("seq")[:1]
First == Min(DOMAIN rows)

Row == rows[First]

Request == requests[First]

Header(request) == IF request.format = "ANVL" THEN <<>> ELSE << <<0, 0>> >>

Footer(request) ==
    IF request.format = "XML" THEN << <<Len(request.toHarvest) + 1, 0>> >> ELSE <<>>

WithRow(s, row) == [t \in DOMAIN rows \union {s} |-> IF t = s THEN row ELSE rows[t]]

Written(file, content) ==
    /\ disk' = [f \in DOMAIN disk \union {file} |-> IF f = file THEN content ELSE disk[f]]
    /\ old' = old \ {file}

Removed(files) ==
    /\ disk' = [f \in DOMAIN disk \ files |-> disk[f]]
    /\ old' = old \ files

Init ==
    /\ requests = <<>> /\ rows = <<>>
    /\ owner \in [Identifiers -> Owners]
    /\ disk = <<>> /\ s3 = <<>> /\ old = {}
    /\ pc = "fetch" /\ job = NoJob /\ terminated = FALSE
    /\ changes = 0 /\ stops = 0 /\ failures = 0 /\ outages = 0
    /\ moved = {} /\ curtailed = {} /\ unsent = {} /\ notified = {}

-----------------------------------------------------------------------------
(* The web server and the search daemon *)

\* enqueueRequest, of a request that is well formed and authorised.
Enqueue(request) ==
    /\ Len(requests) < MaxRequests
    /\ requests' = Append(requests, request)
    /\ rows' = WithRow(Len(requests) + 1,
                   [stage |-> "CREATE", currentIndex |-> 1, lastId |-> 0, fileSize |-> 0])
    /\ UNCHANGED <<owner, daemonVars, fileVars, history>>

\* An identifier is created, deleted or given to someone else.
Change(id, to) ==
    /\ changes < MaxChanges
    /\ owner[id] # to
    /\ owner' = [owner EXCEPT ![id] = to]
    /\ changes' = changes + 1
    /\ moved' = moved \union {id}
    /\ UNCHANGED <<queueVars, daemonVars, fileVars, stops, failures, outages,
                   curtailed, unsent, notified>>

-----------------------------------------------------------------------------
(* The stages of a request, each up to the save of the row *)

\* The daemon's loop has read the first row, at this stage.
Begins(stage) ==
    /\ pc = "fetch" /\ ~terminated
    /\ DOMAIN rows # {} /\ rows[First].stage = stage
    /\ UNCHANGED <<queueVars, owner, terminated, changes, stops, outages, curtailed>>

\* What the stage did is still to be saved in the row.
Save(row) == pc' = "save" /\ job' = row

CreateFile ==
    /\ Begins("CREATE")
    /\ Written("work", Header(Request))
    /\ Save([Row EXCEPT !.stage = "HARVEST", !.fileSize = Len(Header(Request))])
    /\ moved' = {}
    /\ UNCHANGED <<s3, failures, unsent, notified>>

\* Mutant: a file as long as the row says counts as short.
OpenLongerFile ==
    /\ Begins("HARVEST")
    /\ "work" \in DOMAIN disk /\ Len(disk["work"]) > Row.fileSize
    /\ Written("work", SubSeq(disk["work"], 1, Row.fileSize))
    /\ pc' = "harvest" /\ job' = Row
    /\ UNCHANGED <<s3, failures, moved, unsent, notified>>

\* Mutant: the file is continued where it ends.
OpenFileWithoutTruncating ==
    /\ Begins("HARVEST")
    /\ "work" \in DOMAIN disk /\ Len(disk["work"]) >= Row.fileSize
    /\ old' = old \ {"work"}
    /\ pc' = "harvest" /\ job' = Row
    /\ UNCHANGED <<disk, s3, failures, moved, unsent, notified>>

\* The head of _harvest: what the row does not know of is cut off.
OpenFile ==
    /\ Begins("HARVEST")
    /\ "work" \in DOMAIN disk /\ Len(disk["work"]) >= Row.fileSize
    /\ Written("work", SubSeq(disk["work"], 1, Row.fileSize))
    /\ pc' = "harvest" /\ job' = Row
    /\ UNCHANGED <<s3, failures, moved, unsent, notified>>

CompressFile ==
    /\ Begins("COMPRESS")
    /\ "work" \in DOMAIN disk
    /\ Written("packed", disk["work"])
    /\ Save([Row EXCEPT !.stage = "DELETE"])
    /\ UNCHANGED <<s3, failures, moved, unsent, notified>>

DeleteUncompressedFile ==
    /\ Begins("DELETE")
    /\ Removed({"work"})
    /\ Save([Row EXCEPT !.stage = "MOVE"])
    /\ UNCHANGED <<s3, failures, moved, unsent, notified>>

\* Mutant: a file that has disappeared is passed over.
MoveCompressedFileIfAny ==
    /\ Begins("MOVE")
    /\ s3' = [s \in DOMAIN s3 \union {First : f \in DOMAIN disk \intersect {"packed"}} |->
                 IF s = First THEN disk["packed"] ELSE s3[s]]
    /\ Save([Row EXCEPT !.stage = "NOTIFY"])
    /\ UNCHANGED <<disk, old, failures, moved, unsent, notified>>

\* upload_file logs an upload that fails and returns.
MoveCompressedFile ==
    /\ Begins("MOVE")
    /\ "packed" \in DOMAIN disk
    /\ \/ /\ s3' = [s \in DOMAIN s3 \union {First} |->
                      IF s = First THEN disk["packed"] ELSE s3[s]]
          /\ UNCHANGED <<failures, unsent>>
       \/ /\ failures < MaxFailures
          /\ failures' = failures + 1
          /\ unsent' = unsent \union {First}
          /\ UNCHANGED s3
    /\ Save([Row EXCEPT !.stage = "NOTIFY"])
    /\ UNCHANGED <<disk, old, moved, notified>>

\* The mail is sent; what is still to be saved is that the row is deleted.
NotifyRequestor ==
    /\ Begins("NOTIFY")
    /\ notified' = notified \union {First}
    /\ Save(Row)
    /\ UNCHANGED <<fileVars, failures, moved, unsent>>

-----------------------------------------------------------------------------
(* Inside _harvest *)

Harvesting ==
    /\ pc = "harvest"
    /\ UNCHANGED <<owner, s3, terminated, history>>

\* The identifiers of the current owner that are still to come.
Matches ==
    {id \in Identifiers :
        id > job.lastId /\ owner[id] = Request.toHarvest[job.currentIndex]}

\* order_by("identifier") and the slice: the first of them.
Page == {id \in Matches : Cardinality({m \in Matches : m < id}) < PageSize}

InOrder(S) == {ids \in SetToSeqs(S) : \A m, n \in DOMAIN ids : m < n => ids[m] < ids[n]}

\* What may be written of them, one sequence as no two identifiers are equal.
Entries ==
    {[n \in DOMAIN ids |-> <<job.currentIndex, ids[n]>>] :
        ids \in InOrder(Page \intersect Request.matching)}

\* A page is written and flushed.
HarvestPage ==
    /\ Harvesting /\ ~terminated
    /\ Page # {}
    /\ \E entries \in Entries : Written("work", disk["work"] \o entries)
    /\ job' = [job EXCEPT !.lastId = Max(Page), !.fileSize = Len(disk'["work"])]
    /\ pc' = "flushed"
    /\ UNCHANGED queueVars

\* The r.save() of _harvest1.
SavePage ==
    /\ pc = "flushed"
    /\ rows' = WithRow(First, job)
    /\ pc' = "harvest"
    /\ UNCHANGED <<requests, owner, job, terminated, fileVars, history>>

\* _harvest1 returns: the owner has no more identifiers, or a signal has come.
OwnerDone == terminated \/ Page = {}

\* Mutant: the position is kept when the next owner is begun.
NextOwnerKeepingPosition ==
    /\ Harvesting /\ OwnerDone
    /\ job.currentIndex < Len(Request.toHarvest)
    /\ job' = [job EXCEPT !.currentIndex = @ + 1]
    /\ rows' = WithRow(First, job')
    /\ UNCHANGED <<requests, pc, disk, old>>

\* Mutant: the last owner is not the last.
NextOwnerAlways ==
    /\ Harvesting /\ OwnerDone
    /\ job.currentIndex <= Len(Request.toHarvest)
    /\ job' = [job EXCEPT !.currentIndex = @ + 1, !.lastId = 0]
    /\ rows' = WithRow(First, job')
    /\ UNCHANGED <<requests, pc, disk, old>>

NextOwner ==
    /\ Harvesting /\ OwnerDone
    /\ job.currentIndex < Len(Request.toHarvest)
    /\ job' = [job EXCEPT !.currentIndex = @ + 1, !.lastId = 0]
    /\ rows' = WithRow(First, job')
    /\ UNCHANGED <<requests, pc, disk, old>>

\* The end of _harvest: the footer, and the next stage.
CloseFile ==
    /\ Harvesting /\ OwnerDone
    /\ job.currentIndex = Len(Request.toHarvest)
    /\ Written("work", disk["work"] \o Footer(Request))
    /\ Save([job EXCEPT !.stage = "COMPRESS"])
    /\ UNCHANGED queueVars

-----------------------------------------------------------------------------
(* The daemon's loop *)

\* The r.save() or r.delete() at the end of a stage.  The local files of a request
\* that is done have names no other request uses.
SaveStage ==
    /\ pc = "save"
    /\ IF rows[First].stage = "NOTIFY"
         THEN /\ rows' = [s \in DOMAIN rows \ {First} |-> rows[s]]
              /\ Removed({"work", "packed"})
         ELSE /\ rows' = WithRow(First, job)
              /\ UNCHANGED <<disk, old>>
    /\ pc' = "sweep" /\ job' = NoJob
    /\ UNCHANGED <<requests, owner, s3, terminated, history>>

RemoveExpiredFiles ==
    /\ pc = "sweep"
    /\ Removed(old)
    /\ pc' = "fetch"
    /\ UNCHANGED <<queueVars, owner, s3, job, terminated, history>>

\* An exception: it is logged, and the stage begins anew from the row.  A page may
\* be written in part.
StageFails ==
    /\ failures < MaxFailures
    /\ failures' = failures + 1
    /\ \/ /\ pc = "harvest"
          /\ \E entries \in Entries : \E n \in 0..Len(entries) :
                Written("work", disk["work"] \o SubSeq(entries, 1, n))
       \/ /\ pc \in {"flushed", "save"}
          /\ UNCHANGED <<disk, old>>
    /\ pc' = "fetch" /\ job' = NoJob
    /\ UNCHANGED <<queueVars, owner, s3, terminated, changes, stops, outages,
                   moved, curtailed, unsent, notified>>

\* SIGTERM or SIGINT: the handler sets a flag.
Terminate ==
    /\ pc # "down" /\ ~terminated
    /\ stops < MaxStops
    /\ stops' = stops + 1
    /\ terminated' = TRUE
    /\ curtailed' = IF pc \in {"harvest", "flushed"} THEN curtailed \union {First} ELSE curtailed
    /\ UNCHANGED <<queueVars, owner, pc, job, fileVars, changes, failures, outages,
                   moved, unsent, notified>>

\* The loop of run ends.
Exit ==
    /\ pc = "fetch" /\ terminated
    /\ pc' = "down"
    /\ UNCHANGED <<queueVars, owner, job, terminated, fileVars, history>>

\* The process dies at any point.
Crash ==
    /\ pc # "down"
    /\ stops < MaxStops
    /\ stops' = stops + 1
    /\ pc' = "down" /\ job' = NoJob
    /\ UNCHANGED <<queueVars, owner, terminated, fileVars, changes, failures, outages,
                   moved, curtailed, unsent, notified>>

Restart ==
    /\ pc = "down"
    /\ pc' = "fetch" /\ terminated' = FALSE
    /\ UNCHANGED <<queueVars, owner, job, fileVars, history>>

\* A week passes in which the daemon is down, or a stage fails all the time.
Outage ==
    /\ pc \in {"down", "fetch"}
    /\ outages < MaxOutages
    /\ outages' = outages + 1
    /\ old' = DOMAIN disk
    /\ UNCHANGED <<queueVars, owner, daemonVars, disk, s3, changes, stops, failures,
                   moved, curtailed, unsent, notified>>

Daemon ==
    \/ CreateFile
    \/ OpenFile \/ HarvestPage \/ SavePage \/ NextOwner \/ CloseFile
    \/ CompressFile
    \/ DeleteUncompressedFile
    \/ MoveCompressedFile
    \/ NotifyRequestor
    \/ SaveStage
    \/ RemoveExpiredFiles
    \/ StageFails
    \/ Exit \/ Restart

Next ==
    \/ \E request \in Requests : Enqueue(request)
    \/ \E id \in Identifiers, to \in Owners \union {Nobody} : Change(id, to)
    \/ Daemon
    \/ Terminate
    \/ Crash
    \/ Outage

Spec == Init /\ [][Next]_vars /\ WF_vars(Daemon)

-----------------------------------------------------------------------------
(* Properties *)

Places == {"fetch", "harvest", "flushed", "save", "sweep", "down"}

RowType == [stage : Stages, currentIndex : Nat \ {0}, lastId : {0} \union Identifiers,
            fileSize : Nat]

\* Every variable has its type; a row's position is in its list of owners, and a
\* copy is at hand exactly while a stage is in progress.
TypeOK ==
    /\ requests \in Seq(Requests) /\ DOMAIN rows \subseteq DOMAIN requests
    /\ \A s \in DOMAIN rows :
          rows[s] \in RowType /\ rows[s].currentIndex <= Len(requests[s].toHarvest)
    /\ owner \in [Identifiers -> Owners \union {Nobody}]
    /\ DOMAIN disk \subseteq {"work", "packed"} /\ old \subseteq DOMAIN disk
    /\ DOMAIN s3 \subseteq DOMAIN requests
    /\ pc \in Places /\ terminated \in BOOLEAN
    /\ IF pc \in {"harvest", "flushed", "save"} THEN job \in RowType ELSE job = NoJob

\* The files of the first request: the local ones, and the one delivered.
Copies == {disk[f] : f \in DOMAIN disk} \union {s3[s] : s \in DOMAIN s3 \intersect {First}}

Precedes(entry, next) ==
    \/ entry[1] < next[1]
    \/ entry[1] = next[1] /\ entry[2] < next[2]

\* The assertion "file is short" of _harvest: a file is never behind its row,
\* whatever is written in part, stopped or swept.
NotShort ==
    \A s \in DOMAIN rows :
        s = First /\ rows[s].stage = "HARVEST" =>
            "work" \in DOMAIN disk /\ Len(disk["work"]) >= rows[s].fileSize

\* While it is harvested a file is not behind its row, and it is delivered with
\* its header and footer once, each in its place, and with no record twice or out
\* of order between them, after any stops, failures and changes of the identifiers.
WellFormed ==
    /\ NotShort
    /\ \A s \in DOMAIN s3 :
        LET content == s3[s]
            request == requests[s]
            records == (1..Len(request.toHarvest)) \X request.matching
        IN  /\ \A i \in 1..Len(content) - 1 : Precedes(content[i], content[i + 1])
            /\ Range(content) \ records = Range(Header(request)) \union Range(Footer(request))

\* What a harvested file of the first request holds of an identifier that did not
\* change since the file was created: one record, if it is asked for.
HasWhatIsAskedFor(content) ==
    \A id \in Request.matching \ moved :
        {entry \in Range(content) : entry[2] = id} =
            {<<i, id>> : i \in {j \in DOMAIN Request.toHarvest :
                                   Request.toHarvest[j] = owner[id]}}

Harvested == DOMAIN rows # {} /\ Row.stage \notin {"CREATE", "HARVEST"}

\* A file is complete, however often the daemon crashed, unless a signal came
\* while it was harvested.
CompleteUnlessCurtailed ==
    Harvested /\ First \notin curtailed => \A content \in Copies : HasWhatIsAskedFor(content)

\* "If the server is restarted, the current download resumes where it left off":
\* a file is complete after a restart, by a signal too.
ResumesWhereItLeftOff ==
    Harvested => \A content \in Copies : HasWhatIsAskedFor(content)

\* A request leaves the queue only when its requestor was told, and a requestor
\* is told only what was delivered, or failed in the upload itself: a file that
\* expired is never announced.
AnnouncedWhenDelivered ==
    /\ DOMAIN requests \ DOMAIN rows \subseteq notified
    /\ notified \subseteq DOMAIN s3 \union unsent

\* Every request is served, unless the daemon gets nothing done for a week.
EveryRequestServed ==
    [](outages = 0) => \A s \in Seqs : s \in DOMAIN requests ~> s \in notified
=============================================================================
