---------------------------- MODULE DownloadProofs ----------------------------
(***************************************************************************)
(* What a download announces and what its file holds, for all owners,      *)
(* requests and page sizes and any number of stops, failures, outages and  *)
(* changes of the identifiers.                                             *)
(*                                                                         *)
(* ToldWhenDelivered: only the first row is ever past CREATE, and between  *)
(* the effect of a stage and its save the daemon's copy is one stage ahead *)
(* (IInv).                                                                 *)
(*                                                                         *)
(* DownloadTyped, DownloadWellFormed and DownloadComplete: what the row    *)
(* knows of the file (its first fileSize entries), and while the daemon is *)
(* at work the whole file, is what was harvested up to a position (Grown); *)
(* what comes after is cut off when the file is opened.  A page adds what  *)
(* lies between two positions, an owner without identifiers left moves the *)
(* position on, and with the footer the file is finished (Finished) and    *)
(* stays so while it is compressed, moved and announced (Files).           *)
(***************************************************************************)
EXTENDS Download, SequenceTheorems, FiniteSetTheorems, WellFoundedInduction, TLAPS

\* The rows are those of the last requests.
InSequence ==
    /\ requests \in Seq(Requests)
    /\ \E first \in 1..Len(requests) + 1 : DOMAIN rows = first..Len(requests)

\* All but the first row are as they were enqueued.
OthersWait == \A s \in DOMAIN rows : s # First => rows[s].stage = "CREATE"

HasStage == \A s \in DOMAIN rows : "stage" \in DOMAIN rows[s]

Following == {<<"CREATE", "HARVEST">>, <<"HARVEST", "COMPRESS">>, <<"COMPRESS", "DELETE">>,
              <<"DELETE", "MOVE">>, <<"MOVE", "NOTIFY">>, <<"NOTIFY", "NOTIFY">>}

\* The daemon's copy against the first row.
CopyFollows ==
    /\ pc \in {"harvest", "flushed", "save"} => DOMAIN rows # {} /\ "stage" \in DOMAIN job
    /\ pc \in {"harvest", "flushed"} => Row.stage = "HARVEST" /\ job.stage = "HARVEST"
    /\ pc = "save" => <<Row.stage, job.stage>> \in Following

\* What is true of a request about to be announced, and of one that was.
ReadyToAnnounce ==
    /\ DOMAIN rows # {} /\ Row.stage = "NOTIFY" => First \in DOMAIN s3 \union unsent
    /\ pc = "save" /\ job.stage = "NOTIFY" => First \in DOMAIN s3 \union unsent
    /\ pc = "save" /\ Row.stage = "NOTIFY" => First \in notified

IInv == InSequence /\ OthersWait /\ HasStage /\ CopyFollows /\ ReadyToAnnounce
          /\ AnnouncedWhenDelivered

-----------------------------------------------------------------------------
(* The first row *)

LEMMA MinOfInterval ==
    ASSUME NEW a \in Nat, NEW b \in Nat, a <= b
    PROVE  Min(a..b) = a
<1>1. a \in a..b /\ \A y \in a..b : a =< y
  OBVIOUS
<1>2. \A x \in a..b : (\A y \in a..b : x =< y) => x = a
  OBVIOUS
<1>3. QED
  BY <1>1, <1>2 DEF Min

LEMMA FirstIsLeast ==
    ASSUME InSequence, DOMAIN rows # {}
    PROVE  /\ First \in 1..Len(requests)
           /\ DOMAIN rows = First..Len(requests)
<1>1. Len(requests) \in Nat
  BY LenProperties DEF InSequence
<1>2. PICK a \in 1..Len(requests) + 1 : DOMAIN rows = a..Len(requests)
  BY DEF InSequence
<1>3. a <= Len(requests)
  BY <1>1, <1>2
<1>4. First = a
  BY <1>1, <1>2, <1>3, MinOfInterval DEF First
<1>5. QED
  BY <1>1, <1>2, <1>3, <1>4

\* A save of the first row changes nothing of the queue but its stage.
LEMMA FirstRowSaved ==
    ASSUME InSequence, OthersWait, HasStage, DOMAIN rows # {},
           NEW row, "stage" \in DOMAIN row,
           rows' = WithRow(First, row), requests' = requests
    PROVE  /\ DOMAIN rows' = DOMAIN rows
           /\ First' = First
           /\ Row' = row
           /\ InSequence' /\ OthersWait' /\ HasStage'
<1>1. First \in DOMAIN rows
  <2>1. Len(requests) \in Nat
    BY LenProperties DEF InSequence
  <2>2. QED
    BY <2>1, FirstIsLeast
<1>2. DOMAIN rows' = DOMAIN rows
  BY <1>1 DEF WithRow
<1>3. First' = First
  BY <1>2 DEF First
<1>4. \A s \in DOMAIN rows' : rows'[s] = IF s = First THEN row ELSE rows[s]
  BY <1>1 DEF WithRow
<1>5. Row' = row
  BY <1>1, <1>2, <1>3, <1>4 DEF Row
<1>6. InSequence'
  BY <1>2 DEF InSequence
<1>7. OthersWait'
  BY <1>2, <1>3, <1>4 DEF OthersWait
<1>8. HasStage'
  BY <1>2, <1>4 DEF HasStage
<1>9. QED
  BY <1>2, <1>3, <1>5, <1>6, <1>7, <1>8

\* While the queue is as it was, the invariant is about the daemon's copy.
LEMMA RowsKept ==
    ASSUME IInv, UNCHANGED <<requests, rows>>,
           DOMAIN s3 \subseteq DOMAIN s3', unsent \subseteq unsent', notified \subseteq notified',
           notified' \subseteq notified \union DOMAIN s3' \union unsent',
           CopyFollows', ReadyToAnnounce'
    PROVE  IInv'
<1>1. InSequence' /\ OthersWait' /\ HasStage'
  BY DEF IInv, InSequence, OthersWait, HasStage, First
<1>2. AnnouncedWhenDelivered'
  BY DEF IInv, AnnouncedWhenDelivered
<1>3. QED
  BY <1>1, <1>2 DEF IInv

\* The daemon drops its copy, or nothing it works on changes.
LEMMA CopyKeptOrDropped ==
    ASSUME IInv, UNCHANGED <<requests, rows, s3, unsent, notified>>,
           \/ UNCHANGED <<pc, job>>
           \/ pc' \notin {"harvest", "flushed", "save"}
    PROVE  IInv'
<1>1. CopyFollows'
  BY DEF IInv, CopyFollows, Row, First
<1>2. ReadyToAnnounce'
  BY DEF IInv, ReadyToAnnounce, Row, First
<1>3. QED
  BY <1>1, <1>2, RowsKept

-----------------------------------------------------------------------------
(* The daemon's steps that leave the queue alone *)

\* A stage has its effect, and the copy is one stage ahead.
LEMMA StageDone ==
    ASSUME IInv, UNCHANGED <<requests, rows>>, DOMAIN rows # {},
           NEW row, "stage" \in DOMAIN row, Save(row),
           <<Row.stage, row.stage>> \in Following,
           DOMAIN s3 \subseteq DOMAIN s3', unsent \subseteq unsent',
           notified' = IF Row.stage = "NOTIFY" THEN notified \union {First} ELSE notified,
           row.stage = "NOTIFY" => First \in DOMAIN s3' \union unsent'
    PROVE  IInv'
<1>1. First' = First /\ Row' = Row
  BY DEF First, Row
<1>2. Row.stage = "NOTIFY" => row.stage = "NOTIFY"
  BY DEF Following
<1>3. CopyFollows'
  BY <1>1 DEF CopyFollows, Save
<1>4. ReadyToAnnounce'
  BY <1>1, <1>2 DEF IInv, ReadyToAnnounce, Save
<1>5. notified' \subseteq notified \union DOMAIN s3' \union unsent'
  BY <1>2
<1>6. QED
  BY <1>3, <1>4, <1>5, RowsKept

LEMMA StagesKeepInv ==
    ASSUME IInv, CreateFile \/ CompressFile \/ DeleteUncompressedFile \/
                 MoveCompressedFile \/ NotifyRequestor
    PROVE  IInv'
<1>1. DOMAIN rows # {} /\ UNCHANGED <<requests, rows>>
  BY DEF CreateFile, CompressFile, DeleteUncompressedFile, MoveCompressedFile,
         NotifyRequestor, Begins, queueVars
<1>2. First \in DOMAIN rows
  <2>1. Len(requests) \in Nat
    BY LenProperties DEF IInv, InSequence
  <2>2. QED
    BY <1>1, <2>1, FirstIsLeast DEF IInv
<1>3. "stage" \in DOMAIN Row
  BY <1>2 DEF IInv, HasStage, Row
<1>4. CASE CreateFile
  <2> DEFINE row == [Row EXCEPT !.stage = "HARVEST", !.fileSize = Len(Header(Request))]
  <2>1. "stage" \in DOMAIN row /\ row.stage = "HARVEST" /\ Row.stage = "CREATE"
    BY <1>3, <1>4 DEF CreateFile, Begins, Row
  <2>2. Save(row) /\ UNCHANGED <<s3, unsent, notified>>
    BY <1>4 DEF CreateFile
  <2> HIDE DEF row
  <2>3. QED
    BY <1>1, <2>1, <2>2, StageDone DEF Following
<1>5. CASE CompressFile
  <2> DEFINE row == [Row EXCEPT !.stage = "DELETE"]
  <2>1. "stage" \in DOMAIN row /\ row.stage = "DELETE" /\ Row.stage = "COMPRESS"
    BY <1>3, <1>5 DEF CompressFile, Begins, Row
  <2>2. Save(row) /\ UNCHANGED <<s3, unsent, notified>>
    BY <1>5 DEF CompressFile
  <2> HIDE DEF row
  <2>3. QED
    BY <1>1, <2>1, <2>2, StageDone DEF Following
<1>6. CASE DeleteUncompressedFile
  <2> DEFINE row == [Row EXCEPT !.stage = "MOVE"]
  <2>1. "stage" \in DOMAIN row /\ row.stage = "MOVE" /\ Row.stage = "DELETE"
    BY <1>3, <1>6 DEF DeleteUncompressedFile, Begins, Row
  <2>2. Save(row) /\ UNCHANGED <<s3, unsent, notified>>
    BY <1>6 DEF DeleteUncompressedFile
  <2> HIDE DEF row
  <2>3. QED
    BY <1>1, <2>1, <2>2, StageDone DEF Following
<1>7. CASE MoveCompressedFile
  <2> DEFINE row == [Row EXCEPT !.stage = "NOTIFY"]
  <2>1. "stage" \in DOMAIN row /\ row.stage = "NOTIFY" /\ Row.stage = "MOVE"
    BY <1>3, <1>7 DEF MoveCompressedFile, Begins, Row
  <2>2. Save(row) /\ UNCHANGED notified
    BY <1>7 DEF MoveCompressedFile
  <2>3. /\ DOMAIN s3 \subseteq DOMAIN s3' /\ unsent \subseteq unsent'
        /\ First \in DOMAIN s3' \union unsent'
    BY <1>7 DEF MoveCompressedFile
  <2> HIDE DEF row
  <2>4. QED
    BY <1>1, <2>1, <2>2, <2>3, StageDone DEF Following
<1>8. CASE NotifyRequestor
  <2>1. Row.stage = "NOTIFY"
    BY <1>8 DEF NotifyRequestor, Begins, Row
  <2>2. Save(Row) /\ UNCHANGED <<s3, unsent>> /\ notified' = notified \union {First}
    BY <1>8 DEF NotifyRequestor, fileVars
  <2>3. First \in DOMAIN s3' \union unsent'
    BY <1>1, <2>1, <2>2 DEF IInv, ReadyToAnnounce
  <2>4. QED
    BY <1>1, <1>3, <2>1, <2>2, <2>3, StageDone DEF Following
<1>9. QED
  BY <1>4, <1>5, <1>6, <1>7, <1>8

LEMMA HarvestKeepsInv ==
    ASSUME IInv, OpenFile \/ HarvestPage \/ CloseFile
    PROVE  IInv'
<1>1. CASE OpenFile
  <2>1. /\ DOMAIN rows # {} /\ UNCHANGED <<requests, rows>> /\ Row.stage = "HARVEST"
        /\ pc' = "harvest" /\ job' = Row /\ UNCHANGED <<s3, unsent, notified>>
    BY <1>1 DEF OpenFile, Begins, queueVars, Row
  <2>2. "stage" \in DOMAIN Row
    <3>1. Len(requests) \in Nat
      BY LenProperties DEF IInv, InSequence
    <3>2. QED
      BY <2>1, <3>1, FirstIsLeast DEF IInv, HasStage, Row
  <2>3. Row' = Row /\ First' = First
    BY <2>1 DEF Row, First
  <2>4. CopyFollows' /\ ReadyToAnnounce'
    BY <2>1, <2>2, <2>3 DEF CopyFollows, ReadyToAnnounce
  <2>5. QED
    BY <2>1, <2>4, RowsKept
<1>2. CASE HarvestPage
  <2>1. /\ UNCHANGED <<requests, rows, s3, unsent, notified>>
        /\ pc = "harvest" /\ pc' = "flushed"
        /\ job' = [job EXCEPT !.lastId = Max(Page), !.fileSize = Len(disk'["work"])]
    BY <1>2 DEF HarvestPage, Harvesting, queueVars, history
  <2>2. Row.stage = "HARVEST" /\ job.stage = "HARVEST" /\ "stage" \in DOMAIN job
    BY <2>1 DEF IInv, CopyFollows
  <2>3. job'.stage = "HARVEST" /\ "stage" \in DOMAIN job'
    BY <2>1, <2>2
  <2>4. Row' = Row /\ First' = First
    BY <2>1 DEF Row, First
  <2>5. CopyFollows' /\ ReadyToAnnounce'
    BY <2>1, <2>2, <2>3, <2>4 DEF IInv, CopyFollows, ReadyToAnnounce
  <2>6. QED
    BY <2>1, <2>5, RowsKept
<1>3. CASE CloseFile
  <2> DEFINE row == [job EXCEPT !.stage = "COMPRESS"]
  <2>1. /\ UNCHANGED <<requests, rows, s3, unsent, notified>>
        /\ pc = "harvest" /\ Save(row)
    BY <1>3 DEF CloseFile, Harvesting, queueVars, history
  <2>2. DOMAIN rows # {} /\ Row.stage = "HARVEST" /\ "stage" \in DOMAIN job
    BY <2>1 DEF IInv, CopyFollows
  <2>3. "stage" \in DOMAIN row /\ row.stage = "COMPRESS"
    BY <2>2
  <2> HIDE DEF row
  <2>4. QED
    BY <2>1, <2>2, <2>3, StageDone DEF Following
<1>4. QED
  BY <1>1, <1>2, <1>3

-----------------------------------------------------------------------------
(* The steps that change the queue *)

\* A page or the next owner is saved: the stage stays HARVEST.
LEMMA ProgressKeepsInv ==
    ASSUME IInv, SavePage \/ NextOwner
    PROVE  IInv'
<1>1. /\ DOMAIN rows # {} /\ Row.stage = "HARVEST"
      /\ "stage" \in DOMAIN job /\ job.stage = "HARVEST"
  BY DEF SavePage, NextOwner, Harvesting, IInv, CopyFollows
<1>2. /\ UNCHANGED <<requests, s3, unsent, notified>>
      /\ pc' = "harvest" /\ rows' = WithRow(First, job')
      /\ job' = job \/ job' = [job EXCEPT !.currentIndex = @ + 1, !.lastId = 0]
  BY DEF SavePage, NextOwner, Harvesting, fileVars, history
<1>3. "stage" \in DOMAIN job' /\ job'.stage = "HARVEST"
  BY <1>1, <1>2
<1>4. /\ DOMAIN rows' = DOMAIN rows /\ First' = First /\ Row' = job'
      /\ InSequence' /\ OthersWait' /\ HasStage'
  BY <1>1, <1>2, <1>3, FirstRowSaved DEF IInv
<1>5. CopyFollows' /\ ReadyToAnnounce'
  BY <1>1, <1>2, <1>3, <1>4 DEF CopyFollows, ReadyToAnnounce
<1>6. AnnouncedWhenDelivered'
  BY <1>2, <1>4 DEF IInv, AnnouncedWhenDelivered
<1>7. QED
  BY <1>4, <1>5, <1>6 DEF IInv

LEMMA SaveStageKeepsInv ==
    ASSUME IInv, SaveStage
    PROVE  IInv'
<1>1. /\ UNCHANGED <<requests, s3, unsent, notified>>
      /\ pc = "save" /\ pc' = "sweep"
  BY DEF SaveStage, history
<1>2. /\ DOMAIN rows # {} /\ "stage" \in DOMAIN job
      /\ <<Row.stage, job.stage>> \in Following
  BY <1>1 DEF IInv, CopyFollows
<1>3. CopyFollows'
  BY <1>1 DEF CopyFollows
<1>4. CASE Row.stage # "NOTIFY"
  <2>1. rows' = WithRow(First, job)
    BY <1>4 DEF SaveStage, Row
  <2>2. /\ DOMAIN rows' = DOMAIN rows /\ First' = First /\ Row' = job
        /\ InSequence' /\ OthersWait' /\ HasStage'
    BY <1>1, <1>2, <2>1, FirstRowSaved DEF IInv
  <2>3. ReadyToAnnounce'
    BY <1>1, <2>2 DEF IInv, ReadyToAnnounce
  <2>4. AnnouncedWhenDelivered'
    BY <1>1, <2>2 DEF IInv, AnnouncedWhenDelivered
  <2>5. QED
    BY <1>3, <2>2, <2>3, <2>4 DEF IInv
<1>5. CASE Row.stage = "NOTIFY"
  <2>1. rows' = [s \in DOMAIN rows \ {First} |-> rows[s]]
    BY <1>5 DEF SaveStage, Row
  <2>2. Len(requests) \in Nat /\ First \in 1..Len(requests) /\ DOMAIN rows = First..Len(requests)
    BY <1>2, FirstIsLeast, LenProperties DEF IInv, InSequence
  <2>3. First + 1 \in 1..Len(requests) + 1 /\ DOMAIN rows' = (First + 1)..Len(requests)
    BY <2>1, <2>2
  <2>4. InSequence'
    BY <1>1, <2>3 DEF IInv, InSequence
  <2>5. \A s \in DOMAIN rows' : "stage" \in DOMAIN rows'[s] /\ rows'[s].stage = "CREATE"
    BY <2>1 DEF IInv, HasStage, OthersWait
  <2>6. DOMAIN rows' # {} => First' \in DOMAIN rows'
    <3>1. SUFFICES ASSUME DOMAIN rows' # {} PROVE First' \in DOMAIN rows'
      OBVIOUS
    <3>2. First + 1 <= Len(requests)
      BY <2>2, <2>3, <3>1
    <3>3. First' = First + 1
      BY <2>2, <2>3, <3>2, MinOfInterval DEF First
    <3>4. QED
      BY <2>2, <2>3, <3>2, <3>3
  <2>7. ReadyToAnnounce'
    BY <1>1, <2>5, <2>6 DEF ReadyToAnnounce, Row
  <2>8. First \in notified
    BY <1>1, <1>5 DEF IInv, ReadyToAnnounce
  <2>9. AnnouncedWhenDelivered'
    BY <1>1, <2>1, <2>8 DEF IInv, AnnouncedWhenDelivered
  <2>10. QED
    BY <1>3, <2>4, <2>5, <2>7, <2>9 DEF IInv, OthersWait, HasStage
<1>6. QED
  BY <1>4, <1>5

LEMMA EnqueueKeepsInv ==
    ASSUME IInv, NEW request \in Requests, Enqueue(request)
    PROVE  IInv'
<1> DEFINE n == Len(requests)
           new == [stage |-> "CREATE", currentIndex |-> 1, lastId |-> 0, fileSize |-> 0]
<1>1. /\ requests' = Append(requests, request) /\ rows' = WithRow(n + 1, new)
      /\ UNCHANGED <<pc, job, s3, unsent, notified>>
  BY DEF Enqueue, daemonVars, fileVars, history
<1>2. n \in Nat /\ requests' \in Seq(Requests) /\ Len(requests') = n + 1
  BY <1>1, LenProperties, AppendProperties DEF IInv, InSequence
<1>3. DOMAIN requests = 1..n /\ DOMAIN requests' = 1..(n + 1)
  BY <1>1, <1>2, LenProperties DEF IInv, InSequence
<1>4. "stage" \in DOMAIN new /\ new.stage = "CREATE"
  OBVIOUS
<1>5. PICK a \in 1..n + 1 : DOMAIN rows = a..n
  BY DEF IInv, InSequence
<1> HIDE DEF n, new
<1>6. DOMAIN rows' = a..(n + 1) /\ a \in 1..(n + 1) + 1
  BY <1>1, <1>2, <1>5 DEF WithRow
<1>7. \A s \in DOMAIN rows' : rows'[s] = IF s = n + 1 THEN new ELSE rows[s]
  BY <1>1 DEF WithRow
<1>8. First' = a /\ (DOMAIN rows # {} => First = a)
  <2>1. First' = a
    BY <1>2, <1>5, <1>6, MinOfInterval DEF First
  <2>2. DOMAIN rows # {} => a <= n
    BY <1>2, <1>5
  <2>3. DOMAIN rows # {} => First = a
    BY <1>2, <1>5, <2>2, MinOfInterval DEF First
  <2>4. QED
    BY <2>1, <2>3
<1>9. DOMAIN rows # {} => Row' = Row
  BY <1>2, <1>5, <1>6, <1>7, <1>8 DEF Row
<1>10. DOMAIN rows = {} => Row'.stage = "CREATE"
  BY <1>2, <1>4, <1>5, <1>6, <1>7, <1>8 DEF Row
<1>11. InSequence'
  BY <1>2, <1>6 DEF InSequence
<1>12. \A s \in DOMAIN rows' : s = n + 1 \/ s \in DOMAIN rows
  BY <1>2, <1>5, <1>6
<1>13. OthersWait'
  <2> SUFFICES ASSUME NEW s \in DOMAIN rows', s # First' PROVE rows'[s].stage = "CREATE"
    BY DEF OthersWait
  <2>1. CASE s = n + 1
    BY <1>4, <1>7, <2>1
  <2>2. CASE s \in DOMAIN rows /\ s # n + 1
    BY <1>7, <1>8, <2>2 DEF IInv, OthersWait
  <2>3. QED
    BY <1>12, <2>1, <2>2
<1>14. HasStage'
  BY <1>4, <1>7, <1>12 DEF IInv, HasStage
<1>15. CopyFollows'
  <2>1. DOMAIN rows' # {}
    BY <1>2, <1>5, <1>6
  <2>2. pc' = pc /\ job' = job
    BY <1>1
  <2>3. CopyFollows
    BY DEF IInv
  <2>4. QED
    BY <1>9, <2>1, <2>2, <2>3 DEF CopyFollows
<1>16. ReadyToAnnounce'
  BY <1>1, <1>8, <1>9, <1>10 DEF IInv, CopyFollows, ReadyToAnnounce
<1>17. AnnouncedWhenDelivered'
  BY <1>1, <1>2, <1>3, <1>5, <1>6 DEF IInv, AnnouncedWhenDelivered
<1>18. QED
  BY <1>11, <1>13, <1>14, <1>15, <1>16, <1>17 DEF IInv

-----------------------------------------------------------------------------
(* Every step *)

LEMMA InitHolds == Init => IInv
<1> SUFFICES ASSUME Init PROVE IInv
  OBVIOUS
<1>1. requests = <<>> /\ rows = <<>> /\ pc = "fetch" /\ notified = {}
  BY DEF Init
<1>2. Len(requests) = 0 /\ DOMAIN rows = {} /\ DOMAIN requests = {}
  BY <1>1
<1>3. InSequence
  BY <1>1, <1>2 DEF InSequence
<1>4. OthersWait /\ HasStage /\ CopyFollows /\ ReadyToAnnounce /\ AnnouncedWhenDelivered
  BY <1>1, <1>2 DEF OthersWait, HasStage, CopyFollows, ReadyToAnnounce, AnnouncedWhenDelivered
<1>5. QED
  BY <1>3, <1>4 DEF IInv

LEMMA StepKeepsInv == IInv /\ [Next]_vars => IInv'
<1> SUFFICES ASSUME IInv, [Next]_vars PROVE IInv'
  OBVIOUS
<1>1. CASE \E request \in Requests : Enqueue(request)
  BY <1>1, EnqueueKeepsInv
<1>2. CASE \E id \in Identifiers, to \in Owners \union {Nobody} : Change(id, to)
  BY <1>2, CopyKeptOrDropped DEF Change, queueVars, daemonVars, fileVars
<1>3. CASE CreateFile \/ CompressFile \/ DeleteUncompressedFile \/ MoveCompressedFile
             \/ NotifyRequestor
  BY <1>3, StagesKeepInv
<1>4. CASE OpenFile \/ HarvestPage \/ CloseFile
  BY <1>4, HarvestKeepsInv
<1>5. CASE SavePage \/ NextOwner
  BY <1>5, ProgressKeepsInv
<1>6. CASE SaveStage
  BY <1>6, SaveStageKeepsInv
<1>7. CASE RemoveExpiredFiles
  BY <1>7, CopyKeptOrDropped DEF RemoveExpiredFiles, queueVars, history
<1>8. CASE StageFails
  BY <1>8, CopyKeptOrDropped DEF StageFails, queueVars
<1>9. CASE Exit \/ Restart
  BY <1>9, CopyKeptOrDropped DEF Exit, Restart, queueVars, fileVars, history
<1>10. CASE Terminate
  BY <1>10, CopyKeptOrDropped DEF Terminate, queueVars, fileVars
<1>11. CASE Crash
  BY <1>11, CopyKeptOrDropped DEF Crash, queueVars, fileVars
<1>12. CASE Outage
  BY <1>12, CopyKeptOrDropped DEF Outage, queueVars, daemonVars
<1>13. CASE UNCHANGED vars
  BY <1>13, CopyKeptOrDropped DEF vars, queueVars, daemonVars, fileVars, history
<1>14. QED
  BY <1>1, <1>2, <1>3, <1>4, <1>5, <1>6, <1>7, <1>8, <1>9, <1>10, <1>11, <1>12, <1>13
     DEF Next, Daemon

-----------------------------------------------------------------------------
(* The content of a file                                                   *)

Entry == Nat \X Nat

Ordered(c) == \A j, k \in DOMAIN c : j < k => Precedes(c[j], c[k])

Records(q) == (1..Len(q.toHarvest)) \X q.matching

Behind(e, i, last) == e[1] < i \/ (e[1] = i /\ e[2] <= last)

\* What was harvested of request q up to identifier "last" of its owner i: the
\* header and records, in order; and of every identifier that is not in mv one
\* record for each time own has its owner there, unless the harvest was cut (cut is
\* not empty).
Grown(c, q, i, last, own, mv, cut) ==
    /\ c \in Seq(Entry) /\ Ordered(c)
    /\ Range(Header(q)) \subseteq Range(c)
    /\ \A e \in Range(c) \ Range(Header(q)) :
          /\ e \in Records(q) /\ Behind(e, i, last)
          /\ e[2] \notin mv => q.toHarvest[e[1]] = own[e[2]]
    /\ cut = {} => \A id \in q.matching \ mv, j \in 1..Len(q.toHarvest) :
          q.toHarvest[j] = own[id] /\ Behind(<<j, id>>, i, last) => <<j, id>> \in Range(c)

\* A file with its footer.
Shaped(c, q) ==
    /\ c \in Seq(Entry) /\ Ordered(c)
    /\ Range(c) \ Records(q) = Range(Header(q)) \union Range(Footer(q))

Finished(c, q, own, mv, cut) ==
    /\ Shaped(c, q)
    /\ cut = {} => \A id \in q.matching \ mv :
          {e \in Range(c) : e[2] = id} =
             {<<j, id>> : j \in {k \in DOMAIN q.toHarvest : q.toHarvest[k] = own[id]}}

\* Every set of numbers but the empty one has a least.
LEMMA LeastOf ==
    ASSUME NEW S \in SUBSET Nat, S # {}
    PROVE  \E m \in S : \A x \in S : m <= x
<1>1. PICK m \in S : \A x \in S : ~(<<x, m>> \in OpToRel(<, Nat))
  BY NatLessThanWellFounded, WFMin
<1>2. ASSUME NEW x \in S PROVE m <= x
  <2>1. m \in Nat /\ x \in Nat
    OBVIOUS
  <2>2. ~(x < m)
    BY <1>1, <2>1 DEF OpToRel
  <2>3. QED
    BY <2>1, <2>2
<1>3. QED
  BY <1>2

LEMMA GreatestOf ==
    ASSUME NEW S \in SUBSET Nat, S # {}, IsFiniteSet(S)
    PROVE  Max(S) \in S /\ \A x \in S : x <= Max(S)
<1> DEFINE After(x) == {y \in S : y > x}
           T == {Cardinality(After(x)) : x \in S}
<1>1. \A x : IsFiniteSet(After(x)) /\ Cardinality(After(x)) \in Nat
  <2>1. \A x : After(x) \subseteq S
    OBVIOUS
  <2>2. QED
    BY <2>1, FS_Subset, FS_CardinalityType
<1>2. PICK k \in T : \A n \in T : k <= n
  <2>1. T \in SUBSET Nat
    BY <1>1
  <2>2. T # {}
    OBVIOUS
  <2>3. QED
    BY <2>1, <2>2, LeastOf
<1>3. PICK m \in S : k = Cardinality(After(m))
  BY <1>2
<1>4. ASSUME NEW x \in S PROVE m >= x
  <2>1. m \in Nat /\ x \in Nat /\ \A y \in S : y \in Nat
    OBVIOUS
  <2>2. SUFFICES ASSUME x > m PROVE FALSE
    BY <2>1
  <2>3. After(x) \subseteq After(m) /\ x \in After(m) /\ x \notin After(x)
    <3>1. \A y \in S : y > x => y > m
      BY <2>1, <2>2
    <3>2. x > m /\ ~(x > x)
      BY <2>1, <2>2
    <3>3. QED
      BY <3>1, <3>2
  <2>4. Cardinality(After(x)) < Cardinality(After(m))
    <3> HIDE DEF After
    <3>1. QED
      BY <1>1, <2>3, FS_Subset
  <2>5. k <= Cardinality(After(x))
    BY <1>2
  <2>6. QED
    BY <1>1, <1>3, <2>4, <2>5
<1>5. QED
  BY <1>4 DEF Max

LEMMA PageIsPositive == PageSize \in Nat \ {0}
  BY DownloadAssumption

\* A page is not empty while something is left, and leaves out nothing up to its last.
LEMMA FirstOnes ==
    ASSUME NEW S \in SUBSET Nat, S # {}, IsFiniteSet(S),
           NEW P, P = {id \in S : Cardinality({m \in S : m < id}) < PageSize}
    PROVE  /\ P \subseteq S /\ P # {} /\ Max(P) \in P
           /\ \A id \in P : id <= Max(P)
           /\ \A id \in S : id <= Max(P) => id \in P
<1> DEFINE Before(id) == {m \in S : m < id}
<1>1. \A id : IsFiniteSet(Before(id)) /\ Cardinality(Before(id)) \in Nat
  <2>1. \A id : Before(id) \subseteq S
    OBVIOUS
  <2>2. QED
    BY <2>1, FS_Subset, FS_CardinalityType
<1>2. P # {}
  <2>1. PICK m \in S : \A x \in S : m <= x
    BY LeastOf
  <2>2. Before(m) = {}
    <3>1. m \in Nat /\ \A x \in S : x \in Nat
      OBVIOUS
    <3>2. \A x \in S : ~(x < m)
      BY <2>1, <3>1
    <3>3. QED
      BY <3>2
  <2>3. Cardinality(Before(m)) = 0
    BY <2>2, FS_EmptySet
  <2>4. QED
    BY <2>3, PageIsPositive
<1>3. P \subseteq S /\ P \in SUBSET Nat /\ IsFiniteSet(P)
  BY FS_Subset
<1>4. Max(P) \in P /\ \A id \in P : id <= Max(P)
  BY <1>2, <1>3, GreatestOf
<1>5. ASSUME NEW id \in S, id <= Max(P) PROVE id \in P
  <2>1. Before(id) \subseteq Before(Max(P))
    <3>1. id \in Nat /\ Max(P) \in Nat /\ \A x \in S : x \in Nat
      BY <1>3, <1>4
    <3>2. \A x \in S : x < id => x < Max(P)
      BY <1>5, <3>1
    <3>3. QED
      BY <3>2
  <2>2. Cardinality(Before(id)) <= Cardinality(Before(Max(P)))
    <3> HIDE DEF Before
    <3>1. QED
      BY <1>1, <2>1, FS_Subset
  <2>3. Cardinality(Before(Max(P))) < PageSize
    BY <1>4
  <2>4. Cardinality(Before(id)) < PageSize
    <3>1. Cardinality(Before(id)) \in Nat /\ Cardinality(Before(Max(P))) \in Nat
      BY <1>1
    <3> HIDE DEF Before
    <3>2. QED
      BY <2>2, <2>3, <3>1, PageIsPositive
  <2>5. QED
    BY <2>4
<1>6. QED
  BY <1>2, <1>3, <1>4, <1>5

LEMMA AllInOrder ==
    ASSUME NEW S \in SUBSET Nat, IsFiniteSet(S), NEW ids \in InOrder(S)
    PROVE  /\ ids \in Seq(S) /\ DOMAIN ids = 1..Len(ids) /\ Range(ids) = S
           /\ \A m, n \in DOMAIN ids : m < n => ids[m] < ids[n]
<1> DEFINE D == 1..Cardinality(S)
<1>1. Cardinality(S) \in Nat
  BY FS_CardinalityType
<1>2. ids \in [D -> S] /\ \A m, n \in D : m # n => ids[m] # ids[n]
  BY DEF InOrder, SetToSeqs
<1>3. ids \in Seq(S) /\ DOMAIN ids = 1..Len(ids)
  BY <1>1, <1>2
<1>4. IsFiniteSet(D) /\ Cardinality(D) = Cardinality(S)
  <2>1. 1 \in Int /\ Cardinality(S) \in Int
    BY <1>1
  <2>2. QED
    BY <1>1, <2>1, FS_Interval
<1>5. ids \in Injection(D, S)
  BY <1>2 DEF Injection, IsInjective
<1>6. ids \in Surjection(D, S)
  BY <1>4, <1>5, FS_Injection
<1>7. Range(ids) = S
  BY <1>2, <1>6 DEF Surjection, Range
<1>8. \A m, n \in DOMAIN ids : m < n => ids[m] < ids[n]
  BY DEF InOrder
<1>9. QED
  BY <1>3, <1>7, <1>8

LEMMA IdentifiersAreNumbers == {0} \union Identifiers \subseteq Nat
  BY DownloadAssumption

USE DownloadAssumption

LEMMA RequestTyped ==
    ASSUME NEW q \in Requests
    PROVE  /\ q.toHarvest \in Seq(Owners) /\ Len(q.toHarvest) \in Nat \ {0}
           /\ DOMAIN q.toHarvest = 1..Len(q.toHarvest)
           /\ q.matching \subseteq Identifiers /\ q.matching \subseteq Nat \ {0}
<1>1. q.toHarvest \in Seq(Owners) /\ q.matching \subseteq Identifiers /\ q.toHarvest # <<>>
  OBVIOUS
<1>2. QED
  BY <1>1, EmptySeq, LenProperties

\* More identifiers may have changed, and a harvest may be cut afterwards.
LEMMA GrownFrame ==
    ASSUME NEW c, NEW q, NEW i, NEW last, NEW own, NEW mv, NEW cut,
           NEW own2, NEW mv2, NEW cut2, Grown(c, q, i, last, own, mv, cut),
           mv \subseteq mv2, \A id \in q.matching \ mv2 : own2[id] = own[id],
           cut \subseteq cut2
    PROVE  Grown(c, q, i, last, own2, mv2, cut2)
<1>1. \A e \in Range(c) \ Range(Header(q)) : e[2] \notin mv2 => q.toHarvest[e[1]] = own2[e[2]]
  <2>1. ASSUME NEW e \in Range(c) \ Range(Header(q)), e[2] \notin mv2
        PROVE  q.toHarvest[e[1]] = own2[e[2]]
    <3>1. e \in Records(q) /\ q.toHarvest[e[1]] = own[e[2]]
      BY <2>1 DEF Grown
    <3>2. e[2] \in q.matching
      BY <3>1 DEF Records
    <3>3. QED
      BY <2>1, <3>1, <3>2
  <2>2. QED
    BY <2>1
<1>2. cut2 = {} => \A id \in q.matching \ mv2, j \in 1..Len(q.toHarvest) :
          q.toHarvest[j] = own2[id] /\ Behind(<<j, id>>, i, last) => <<j, id>> \in Range(c)
  BY DEF Grown
<1>3. QED
  BY <1>1, <1>2 DEF Grown

LEMMA FinishedFrame ==
    ASSUME NEW c, NEW q, NEW own, NEW mv, NEW cut,
           NEW own2, NEW mv2, NEW cut2, Finished(c, q, own, mv, cut),
           mv \subseteq mv2, \A id \in q.matching \ mv2 : own2[id] = own[id],
           cut \subseteq cut2
    PROVE  Finished(c, q, own2, mv2, cut2)
<1>1. \A id \in q.matching \ mv2 :
         {k \in DOMAIN q.toHarvest : q.toHarvest[k] = own2[id]} =
         {k \in DOMAIN q.toHarvest : q.toHarvest[k] = own[id]}
  OBVIOUS
<1>2. QED
  BY <1>1 DEF Finished

LEMMA ConcatOrdered ==
    ASSUME NEW c \in Seq(Entry), NEW d \in Seq(Entry), Ordered(c), Ordered(d),
           \A e \in Range(c), f \in Range(d) : Precedes(e, f)
    PROVE  /\ c \o d \in Seq(Entry) /\ Ordered(c \o d)
           /\ Range(c \o d) = Range(c) \union Range(d)
<1> DEFINE s == c \o d
<1>1. /\ s \in Seq(Entry) /\ Len(s) = Len(c) + Len(d)
      /\ \A i \in 1..Len(c) + Len(d) : s[i] = IF i <= Len(c) THEN c[i] ELSE d[i - Len(c)]
  BY ConcatProperties
<1>2. /\ Len(c) \in Nat /\ Len(d) \in Nat /\ DOMAIN c = 1..Len(c) /\ DOMAIN d = 1..Len(d)
      /\ DOMAIN s = 1..Len(c) + Len(d)
  BY <1>1, LenProperties
<1> HIDE DEF s
<1>3. ASSUME NEW j \in DOMAIN s, NEW k \in DOMAIN s, j < k
      PROVE  Precedes(s[j], s[k])
  <2>1. CASE k <= Len(c)
    <3>1. j \in DOMAIN c /\ k \in DOMAIN c /\ s[j] = c[j] /\ s[k] = c[k]
      BY <1>1, <1>2, <1>3, <2>1
    <3>2. QED
      BY <1>3, <3>1 DEF Ordered
  <2>2. CASE ~(j <= Len(c))
    <3>1. j - Len(c) \in DOMAIN d /\ k - Len(c) \in DOMAIN d /\ j - Len(c) < k - Len(c)
          /\ s[j] = d[j - Len(c)] /\ s[k] = d[k - Len(c)]
      BY <1>1, <1>2, <1>3, <2>2
    <3>2. QED
      BY <3>1 DEF Ordered
  <2>3. CASE j <= Len(c) /\ ~(k <= Len(c))
    <3>1. j \in DOMAIN c /\ k - Len(c) \in DOMAIN d /\ s[j] = c[j] /\ s[k] = d[k - Len(c)]
      BY <1>1, <1>2, <1>3, <2>3
    <3>2. QED
      BY <3>1 DEF Range
  <2>4. QED
    BY <1>2, <1>3, <2>1, <2>2, <2>3
<1>4. Range(s) = Range(c) \union Range(d)
  BY RangeConcatenation DEF s
<1>5. QED
  BY <1>1, <1>3, <1>4 DEF Ordered, s

LEMMA HeaderAndFooter ==
    ASSUME NEW q \in Requests
    PROVE  /\ Header(q) \in Seq(Entry) /\ Ordered(Header(q))
           /\ \A e \in Range(Header(q)) : e = <<0, 0>>
           /\ Footer(q) \in Seq(Entry) /\ Ordered(Footer(q))
           /\ \A e \in Range(Footer(q)) : e = <<Len(q.toHarvest) + 1, 0>>
<1>1. Len(q.toHarvest) \in Nat
  BY RequestTyped
<1>2. /\ Header(q) = <<>> \/ Header(q) = << <<0, 0>> >>
      /\ Footer(q) = <<>> \/ Footer(q) = << <<Len(q.toHarvest) + 1, 0>> >>
  BY DEF Header, Footer
<1>3. ASSUME NEW e \in Entry, NEW s, s = <<>> \/ s = <<e>>
      PROVE  s \in Seq(Entry) /\ Ordered(s) /\ \A x \in Range(s) : x = e
  <2>1. CASE s = <<>>
    BY <2>1 DEF Ordered, Range
  <2>2. CASE s = <<e>>
    <3>1. s \in Seq(Entry) /\ DOMAIN s = {1} /\ s[1] = e
      BY <2>2
    <3>2. QED
      BY <3>1 DEF Ordered, Range
  <2>3. QED
    BY <1>3, <2>1, <2>2
<1>4. <<0, 0>> \in Entry /\ <<Len(q.toHarvest) + 1, 0>> \in Entry
  BY <1>1 DEF Entry
<1>5. QED
  BY <1>2, <1>3, <1>4

\* A file that was just created.
LEMMA HeaderGrown ==
    ASSUME NEW q \in Requests, NEW own, NEW mv, NEW cut
    PROVE  Grown(Header(q), q, 1, 0, own, mv, cut)
<1>1. Header(q) \in Seq(Entry) /\ Ordered(Header(q))
  BY HeaderAndFooter
<1>2. ASSUME NEW id \in q.matching, NEW j \in 1..Len(q.toHarvest)
      PROVE  ~Behind(<<j, id>>, 1, 0)
  <2>1. id \in Nat \ {0} /\ j \in Nat \ {0}
    BY RequestTyped
  <2>2. QED
    BY <2>1 DEF Behind
<1>3. QED
  BY <1>1, <1>2 DEF Grown

\* What a page adds, with the position after it.
LEMMA PageGrown ==
    ASSUME NEW q \in Requests, NEW c, NEW i \in 1..Len(q.toHarvest), NEW last \in Nat,
           NEW own, NEW mv, NEW cut, Grown(c, q, i, last, own, mv, cut),
           NEW P \in SUBSET Identifiers, NEW max \in P,
           \A id \in P : id <= max /\ id > last /\ own[id] = q.toHarvest[i],
           \A id \in Identifiers :
              id <= max /\ id > last /\ own[id] = q.toHarvest[i] => id \in P,
           NEW ids \in InOrder(P \intersect q.matching),
           NEW d \in Seq(Entry), DOMAIN d = DOMAIN ids,
           \A n \in DOMAIN ids : d[n] = <<i, ids[n]>>
    PROVE  Grown(c \o d, q, i, max, own, mv, cut)
<1>1. /\ Len(q.toHarvest) \in Nat /\ q.matching \subseteq Nat \ {0} /\ q.matching \subseteq Identifiers
      /\ i \in Nat \ {0}
  BY RequestTyped
<1>2. /\ P \subseteq Nat \ {0} /\ max \in Nat /\ last < max
      /\ \A id \in P : last < id /\ own[id] = q.toHarvest[i]
  OBVIOUS
<1> DEFINE R == P \intersect q.matching
<1>3. IsFiniteSet(R) /\ R \in SUBSET Nat
  <2>1. R \subseteq Identifiers /\ IsFiniteSet(Identifiers)
    OBVIOUS
  <2>2. QED
    BY <2>1, FS_Subset
<1>4. /\ ids \in Seq(R) /\ DOMAIN ids = 1..Len(ids) /\ Range(ids) = R
      /\ \A m, n \in DOMAIN ids : m < n => ids[m] < ids[n]
  BY <1>3, AllInOrder
<1>5. Len(ids) \in Nat /\ \A n \in DOMAIN ids : ids[n] \in R /\ ids[n] \in Nat
  BY <1>3, <1>4, LenProperties
<1>6. DOMAIN d = DOMAIN ids /\ \A n \in DOMAIN d : d[n] = <<i, ids[n]>>
  OBVIOUS
<1>7. d \in Seq(Entry)
  OBVIOUS
<1>8. Ordered(d)
  BY <1>4, <1>6 DEF Ordered, Precedes
<1>9. \A e \in Range(d) : \E id \in R : e = <<i, id>>
  BY <1>5, <1>6 DEF Range
<1>10. \A id \in R : <<i, id>> \in Range(d)
  BY <1>4, <1>6 DEF Range
<1>11. c \in Seq(Entry) /\ Ordered(c) /\ Range(c) \subseteq Entry
  BY RangeOfSeq DEF Grown
<1>12. ASSUME NEW e \in Range(c), NEW f \in Range(d) PROVE Precedes(e, f)
  <2>1. PICK id \in R : f = <<i, id>>
    BY <1>9
  <2>2. e[1] \in Nat /\ e[2] \in Nat
    BY <1>11 DEF Entry
  <2>3. e = <<0, 0>> \/ Behind(e, i, last)
    BY HeaderAndFooter DEF Grown
  <2>4. last < id /\ id \in Nat
    BY <1>2
  <2>5. QED
    BY <1>1, <2>1, <2>2, <2>3, <2>4 DEF Precedes, Behind
<1>13. /\ c \o d \in Seq(Entry) /\ Ordered(c \o d)
       /\ Range(c \o d) = Range(c) \union Range(d)
  BY <1>7, <1>8, <1>11, <1>12, ConcatOrdered
<1>14. ASSUME NEW e \in Range(c \o d) \ Range(Header(q))
       PROVE  /\ e \in Records(q) /\ Behind(e, i, max)
              /\ e[2] \notin mv => q.toHarvest[e[1]] = own[e[2]]
  <2>1. CASE e \in Range(c)
    <3>1. /\ e \in Records(q) /\ Behind(e, i, last)
          /\ e[2] \notin mv => q.toHarvest[e[1]] = own[e[2]]
      BY <1>14, <2>1 DEF Grown
    <3>2. e[1] \in Nat /\ e[2] \in Nat
      BY <1>11, <2>1 DEF Entry
    <3>3. QED
      BY <1>2, <3>1, <3>2 DEF Behind
  <2>2. CASE e \in Range(d)
    <3>1. PICK id \in R : e = <<i, id>>
      BY <1>9, <2>2
    <3>2. e[1] = i /\ e[2] = id
      BY <3>1
    <3>3. e \in Records(q) /\ Behind(e, i, max)
      BY <3>1, <3>2 DEF Records, Behind
    <3>4. q.toHarvest[e[1]] = own[e[2]]
      BY <1>2, <3>1, <3>2
    <3>5. QED
      BY <3>3, <3>4
  <2>3. QED
    BY <1>13, <1>14, <2>1, <2>2
<1>15. ASSUME cut = {}, NEW id \in q.matching \ mv, NEW j \in 1..Len(q.toHarvest),
              q.toHarvest[j] = own[id], Behind(<<j, id>>, i, max)
       PROVE  <<j, id>> \in Range(c \o d)
  <2>1. id \in Nat \ {0} /\ id \in Identifiers
    BY <1>1
  <2>2. CASE Behind(<<j, id>>, i, last)
    BY <1>13, <1>15, <2>2 DEF Grown
  <2>3. CASE ~Behind(<<j, id>>, i, last)
    <3>1. j = i /\ id > last /\ id <= max
      BY <1>1, <1>15, <2>1, <2>3 DEF Behind
    <3>2. id \in R
      BY <1>15, <2>1, <3>1
    <3>3. QED
      BY <1>10, <1>13, <3>1, <3>2
  <2>4. QED
    BY <2>2, <2>3
<1>16. Range(Header(q)) \subseteq Range(c \o d)
  BY <1>13 DEF Grown
<1>17. QED
  BY <1>7, <1>13, <1>14, <1>15, <1>16 DEF Grown

\* An owner who has no identifier left is done, and so is any after a signal.
LEMMA OwnerGrown ==
    ASSUME NEW q \in Requests, NEW c, NEW i \in 1..Len(q.toHarvest), NEW last \in Nat,
           NEW own, NEW mv, NEW cut, Grown(c, q, i, last, own, mv, cut),
           cut # {} \/ \A id \in Identifiers : ~(id > last /\ own[id] = q.toHarvest[i])
    PROVE  Grown(c, q, i + 1, 0, own, mv, cut)
<1>1. /\ Len(q.toHarvest) \in Nat /\ q.matching \subseteq Nat \ {0} /\ q.matching \subseteq Identifiers
      /\ i \in Nat \ {0}
  BY RequestTyped
<1>2. ASSUME NEW e \in Range(c) \ Range(Header(q))
      PROVE  Behind(e, i + 1, 0)
  <2>1. e \in Entry
    BY RangeOfSeq DEF Grown
  <2>2. Behind(e, i, last)
    BY DEF Grown
  <2>3. QED
    BY <1>1, <2>1, <2>2 DEF Behind, Entry
<1>3. ASSUME cut = {}, NEW id \in q.matching \ mv, NEW j \in 1..Len(q.toHarvest),
             q.toHarvest[j] = own[id], Behind(<<j, id>>, i + 1, 0)
      PROVE  <<j, id>> \in Range(c)
  <2>1. id \in Nat \ {0} /\ id \in Identifiers /\ j \in Nat
    BY <1>1
  <2>2. j <= i
    BY <1>1, <1>3, <2>1 DEF Behind
  <2>3. j = i => id <= last
    BY <1>3, <2>1
  <2>4. Behind(<<j, id>>, i, last)
    BY <1>1, <2>1, <2>2, <2>3 DEF Behind
  <2>5. QED
    BY <1>3, <2>4 DEF Grown
<1>4. QED
  BY <1>2, <1>3 DEF Grown

\* With its footer a file whose owners are all done is finished.
LEMMA FooterFinishes ==
    ASSUME NEW q \in Requests, NEW c, NEW own, NEW mv, NEW cut,
           Grown(c, q, Len(q.toHarvest) + 1, 0, own, mv, cut)
    PROVE  Finished(c \o Footer(q), q, own, mv, cut)
<1> DEFINE n == Len(q.toHarvest)
<1>1. n \in Nat \ {0} /\ q.matching \subseteq Nat \ {0} /\ DOMAIN q.toHarvest = 1..n
  BY RequestTyped
<1>2. /\ c \in Seq(Entry) /\ Ordered(c) /\ Range(c) \subseteq Entry
      /\ Footer(q) \in Seq(Entry) /\ Ordered(Footer(q))
      /\ \A f \in Range(Footer(q)) : f = <<n + 1, 0>>
      /\ \A e \in Range(Header(q)) : e = <<0, 0>>
  BY HeaderAndFooter, RangeOfSeq DEF Grown
<1>3. \A e \in Range(c) : e \in Range(Header(q)) \/ e \in Records(q)
  BY DEF Grown
<1>4. ASSUME NEW e \in Range(c), NEW f \in Range(Footer(q)) PROVE Precedes(e, f)
  <2>1. e[1] \in Nat /\ e[1] < n + 1
    BY <1>1, <1>2, <1>3 DEF Records
  <2>2. QED
    BY <1>1, <1>2, <2>1 DEF Precedes
<1>5. /\ c \o Footer(q) \in Seq(Entry) /\ Ordered(c \o Footer(q))
      /\ Range(c \o Footer(q)) = Range(c) \union Range(Footer(q))
  BY <1>2, <1>4, ConcatOrdered
<1>6. Range(c \o Footer(q)) \ Records(q) = Range(Header(q)) \union Range(Footer(q))
  <2>1. Range(Header(q)) \intersect Records(q) = {} /\ Range(Footer(q)) \intersect Records(q) = {}
    BY <1>1, <1>2 DEF Records
  <2>2. Range(Header(q)) \subseteq Range(c)
    BY DEF Grown
  <2>3. QED
    BY <1>3, <1>5, <2>1, <2>2
<1>7. ASSUME cut = {}, NEW id \in q.matching \ mv
      PROVE  {e \in Range(c \o Footer(q)) : e[2] = id} =
                {<<j, id>> : j \in {k \in DOMAIN q.toHarvest : q.toHarvest[k] = own[id]}}
  <2>1. ASSUME NEW e \in Range(c \o Footer(q)), e[2] = id
        PROVE  e[1] \in DOMAIN q.toHarvest /\ q.toHarvest[e[1]] = own[id] /\ e = <<e[1], id>>
    <3>1. e # <<0, 0>> /\ e # <<n + 1, 0>>
      BY <1>1, <2>1
    <3>2. e \in Range(c) /\ e \notin Range(Header(q))
      BY <1>2, <1>5, <3>1
    <3>3. e \in Records(q) /\ q.toHarvest[e[1]] = own[e[2]]
      BY <1>7, <2>1, <3>2 DEF Grown
    <3>4. QED
      BY <1>1, <2>1, <3>3 DEF Records
  <2>2. ASSUME NEW j \in DOMAIN q.toHarvest, q.toHarvest[j] = own[id]
        PROVE  <<j, id>> \in Range(c \o Footer(q))
    <3>1. j \in 1..n /\ Behind(<<j, id>>, n + 1, 0)
      BY <1>1 DEF Behind
    <3>2. QED
      BY <1>5, <1>7, <2>2, <3>1 DEF Grown
  <2>3. QED
    BY <2>1, <2>2
<1>8. QED
  BY <1>5, <1>6, <1>7 DEF Finished, Shaped

LEMMA Prefix ==
    ASSUME NEW c \in Seq(Entry), NEW k \in Nat, k <= Len(c)
    PROVE  /\ SubSeq(c, 1, k) \in Seq(Entry) /\ Len(SubSeq(c, 1, k)) = k
           /\ \A i \in 1..k : SubSeq(c, 1, k)[i] = c[i]
<1>1. Len(c) \in Nat /\ \A i \in 1..k : c[i] \in Entry
  BY LenProperties, ElementOfSeq
<1>2. 1 \in Int /\ k \in Int
  OBVIOUS
<1>3. /\ SubSeq(c, 1, k) \in Seq(Entry)
      /\ Len(SubSeq(c, 1, k)) = (IF 1 <= k THEN k - 1 + 1 ELSE 0)
      /\ \A i \in 1..k - 1 + 1 : SubSeq(c, 1, k)[i] = c[1 + i - 1]
  BY <1>1, <1>2, SubSeqProperties
<1>4. QED
  BY <1>3

LEMMA WholePrefix == ASSUME NEW c \in Seq(Entry) PROVE SubSeq(c, 1, Len(c)) = c
<1>1. Len(c) \in Nat
  BY LenProperties
<1>2. /\ SubSeq(c, 1, Len(c)) \in Seq(Entry) /\ Len(SubSeq(c, 1, Len(c))) = Len(c)
      /\ \A i \in 1..Len(c) : SubSeq(c, 1, Len(c))[i] = c[i]
  BY <1>1, Prefix
<1>3. QED
  BY <1>2, SeqEqual

\* A file begins with what it was.
LEMMA PrefixOfLonger ==
    ASSUME NEW c \in Seq(Entry), NEW d \in Seq(Entry)
    PROVE  /\ c \o d \in Seq(Entry) /\ Len(c \o d) \in Nat /\ Len(c) <= Len(c \o d)
           /\ SubSeq(c \o d, 1, Len(c)) = c
<1> DEFINE s == c \o d
           k == Len(c)
<1>1. /\ s \in Seq(Entry) /\ Len(s) = k + Len(d) /\ k \in Nat /\ Len(d) \in Nat
      /\ \A i \in 1..k : s[i] = c[i]
  BY ConcatProperties, LenProperties
<1> HIDE DEF s
<1>2. k \in Nat /\ k <= Len(s) /\ Len(s) \in Nat
  BY <1>1
<1>3. /\ SubSeq(s, 1, k) \in Seq(Entry) /\ Len(SubSeq(s, 1, k)) = k
      /\ \A i \in 1..k : SubSeq(s, 1, k)[i] = s[i]
  BY <1>1, <1>2, Prefix
<1>4. SubSeq(s, 1, k) = c
  BY <1>1, <1>3, SeqEqual
<1>5. QED
  BY <1>1, <1>2, <1>4 DEF s

-----------------------------------------------------------------------------
(* The files of the first request                                          *)

GrownNow(c, row) ==
    Grown(c, Request, row.currentIndex, row.lastId, owner, moved, curtailed \intersect {First})

FinishedNow(c) == Finished(c, Request, owner, moved, curtailed \intersect {First})

\* Requests that wait have harvested nothing, and the copy is at an owner.
Position ==
    /\ \A s \in DOMAIN rows :
          rows[s].stage = "CREATE" => rows[s].currentIndex = 1 /\ rows[s].lastId = 0
    /\ pc \in {"harvest", "flushed", "save"} => job.currentIndex <= Len(Request.toHarvest)

\* The file has what the row knows of, and may have more.
FileOfRow ==
    DOMAIN rows # {} /\ Row.stage = "HARVEST" =>
        /\ "work" \in DOMAIN disk /\ disk["work"] \in Seq(Entry)
        /\ Row.fileSize <= Len(disk["work"])
        /\ GrownNow(SubSeq(disk["work"], 1, Row.fileSize), Row)

\* While the daemon is at work the file has what its copy of the row knows of.
FileOfCopy ==
    pc \in {"harvest", "flushed"} \/ (pc = "save" /\ Row.stage = "CREATE") =>
        /\ "work" \in DOMAIN disk /\ "work" \notin old
        /\ GrownNow(disk["work"], job) /\ job.fileSize = Len(disk["work"])

AsSaved == pc = "harvest" => job = Row

\* The file is not swept before it is harvested, however old.
Fresh == pc = "sweep" /\ DOMAIN rows # {} /\ Row.stage = "HARVEST" => "work" \notin old

\* A signal in the middle of a harvest curtails it.
Signalled == pc \in {"harvest", "flushed"} /\ terminated => First \in curtailed

FilesDone ==
    Harvested \/ (pc = "save" /\ Row.stage = "HARVEST") =>
        \A f \in DOMAIN disk : FinishedNow(disk[f])

NothingPacked == "packed" \in DOMAIN disk => Harvested

DeliveredDone ==
    /\ \A s \in DOMAIN s3 : Shaped(s3[s], requests[s])
    /\ \A s \in DOMAIN s3 \intersect DOMAIN rows :
          s = First /\ Harvested /\ FinishedNow(s3[s])

Files ==
    /\ TypeOK /\ Position /\ FileOfRow /\ FileOfCopy /\ AsSaved /\ Fresh /\ Signalled
    /\ FilesDone /\ NothingPacked /\ DeliveredDone

LEMMA FirstRow ==
    ASSUME IInv, TypeOK, DOMAIN rows # {}
    PROVE  /\ First \in DOMAIN rows /\ First \in DOMAIN requests
           /\ Request \in Requests /\ Row \in RowType
           /\ Row.currentIndex \in 1..Len(Request.toHarvest)
           /\ Row.lastId \in Nat /\ Row.fileSize \in Nat
<1>1. Len(requests) \in Nat /\ requests \in Seq(Requests) /\ DOMAIN requests = 1..Len(requests)
  BY LenProperties DEF IInv, InSequence
<1>2. First \in 1..Len(requests) /\ First \in DOMAIN rows
  BY <1>1, FirstIsLeast DEF IInv
<1>3. Request \in Requests
  BY <1>1, <1>2, ElementOfSeq DEF Request
<1>4. Row \in RowType /\ Row.currentIndex <= Len(Request.toHarvest)
  BY <1>2 DEF TypeOK, Row, Request
<1>5. Len(Request.toHarvest) \in Nat
  BY <1>3, RequestTyped
<1>6. QED
  BY <1>1, <1>2, <1>3, <1>4, <1>5 DEF RowType

LEMMA CopyTyped ==
    ASSUME IInv, TypeOK, Position, pc \in {"harvest", "flushed", "save"}
    PROVE  /\ DOMAIN rows # {} /\ job \in RowType
           /\ job.currentIndex \in 1..Len(Request.toHarvest)
           /\ job.lastId \in Nat /\ job.fileSize \in Nat
<1>1. DOMAIN rows # {} /\ job \in RowType
  BY DEF IInv, CopyFollows, TypeOK
<1>2. Len(Request.toHarvest) \in Nat
  BY <1>1, FirstRow, RequestTyped
<1>3. job.currentIndex <= Len(Request.toHarvest)
  BY DEF Position
<1>4. job.currentIndex \in Nat \ {0} /\ job.lastId \in {0} \union Identifiers /\ job.fileSize \in Nat
  BY <1>1 DEF RowType
<1>5. job.lastId \in Nat
  BY <1>4, IdentifiersAreNumbers
<1>6. job.currentIndex \in 1..Len(Request.toHarvest)
  BY <1>2, <1>3, <1>4
<1>7. QED
  BY <1>1, <1>4, <1>5, <1>6

\* What may be written is one entry for every identifier.
LEMMA EntriesTyped ==
    ASSUME Request \in Requests, job.currentIndex \in Nat, NEW d \in Entries
    PROVE  /\ d \in Seq(Entry)
           /\ \E ids \in InOrder(Page \intersect Request.matching) :
                 DOMAIN d = DOMAIN ids /\ \A n \in DOMAIN ids : d[n] = <<job.currentIndex, ids[n]>>
<1>1. PICK ids \in InOrder(Page \intersect Request.matching) :
         d = [n \in DOMAIN ids |-> <<job.currentIndex, ids[n]>>]
  BY DEF Entries
<1> DEFINE R == Page \intersect Request.matching
<1>2. IsFiniteSet(R) /\ R \in SUBSET Nat
  <2>1. R \subseteq Identifiers
    BY DEF Page, Matches
  <2>2. QED
    BY <2>1, FS_Subset, IdentifiersAreNumbers
<1>3. ids \in InOrder(R)
  OBVIOUS
<1> HIDE DEF R
<1>4. ids \in Seq(R) /\ DOMAIN ids = 1..Len(ids) /\ Len(ids) \in Nat
  BY <1>2, <1>3, AllInOrder, LenProperties
<1>5. \A n \in 1..Len(ids) : <<job.currentIndex, ids[n]>> \in Entry
  <2>1. \A n \in 1..Len(ids) : ids[n] \in R
    BY <1>4, ElementOfSeq
  <2>2. \A n \in 1..Len(ids) : ids[n] \in Nat
    BY <1>2, <2>1
  <2>3. QED
    BY <2>2 DEF Entry
<1>6. d \in [1..Len(ids) -> Entry]
  BY <1>1, <1>4, <1>5
<1>7. d \in Seq(Entry)
  BY <1>4, <1>6
<1>8. DOMAIN d = DOMAIN ids /\ \A n \in DOMAIN ids : d[n] = <<job.currentIndex, ids[n]>>
  BY <1>1
<1>9. QED
  BY <1>7, <1>8

LEMMA SameRows ==
    ASSUME UNCHANGED <<requests, rows>>
    PROVE  First' = First /\ Row' = Row /\ Request' = Request /\ Harvested' = Harvested
  BY DEF First, Row, Request, Harvested

LEMMA WrittenIs ==
    ASSUME NEW file, NEW content, Written(file, content)
    PROVE  /\ DOMAIN disk' = DOMAIN disk \union {file} /\ disk'[file] = content
           /\ \A f \in DOMAIN disk \ {file} : disk'[f] = disk[f]
           /\ old' = old \ {file}
  BY DEF Written

\* Nothing is written, and what is claimed of the files is so of fewer identifiers.
LEMMA FilesFrame ==
    ASSUME IInv, Files, TypeOK', UNCHANGED <<requests, rows, disk, s3>>,
           moved \subseteq moved', \A id \in Identifiers \ moved' : owner'[id] = owner[id],
           curtailed \subseteq curtailed',
           \/ /\ UNCHANGED <<pc, job, old>>
              /\ pc \in {"harvest", "flushed"} /\ terminated' => First \in curtailed'
           \/ pc' \in {"fetch", "down"}
    PROVE  Files'
<1>1. First' = First /\ Row' = Row /\ Request' = Request /\ Harvested' = Harvested
  BY SameRows
<1>2. curtailed \intersect {First} \subseteq curtailed' \intersect {First}
  OBVIOUS
<1>3. ASSUME DOMAIN rows # {}
      PROVE  \A id \in Request.matching \ moved' : owner'[id] = owner[id]
  BY <1>3, FirstRow, RequestTyped DEF Files
<1>4. ASSUME DOMAIN rows # {}
      PROVE  \A c, i, last :
                Grown(c, Request, i, last, owner, moved, curtailed \intersect {First}) =>
                Grown(c, Request, i, last, owner', moved', curtailed' \intersect {First})
  BY <1>2, <1>3, <1>4, GrownFrame
<1>5. ASSUME DOMAIN rows # {}
      PROVE  \A c : Finished(c, Request, owner, moved, curtailed \intersect {First}) =>
                    Finished(c, Request, owner', moved', curtailed' \intersect {First})
  BY <1>2, <1>3, <1>5, FinishedFrame
<1>6. pc \in {"harvest", "flushed", "save"} => DOMAIN rows # {}
  BY DEF IInv, CopyFollows
<1>7. Position'
  BY <1>1 DEF Files, Position
<1>8. FileOfRow'
  BY <1>1, <1>4 DEF Files, FileOfRow, GrownNow
<1>9. FileOfCopy'
  BY <1>1, <1>4, <1>6 DEF Files, FileOfCopy, GrownNow
<1>10. AsSaved' /\ Fresh' /\ Signalled'
  BY <1>1 DEF Files, AsSaved, Fresh, Signalled
<1>11. FilesDone'
  BY <1>1, <1>5, <1>6 DEF Files, FilesDone, FinishedNow, Harvested
<1>12. NothingPacked' /\ DeliveredDone'
  BY <1>1, <1>5 DEF Files, NothingPacked, DeliveredDone, FinishedNow
<1>13. QED
  BY <1>7, <1>8, <1>9, <1>10, <1>11, <1>12 DEF Files

\* The row was just saved: it knows of the whole file.
LEMMA RowFollowed ==
    ASSUME "work" \in DOMAIN disk', disk'["work"] \in Seq(Entry),
           Row'.fileSize = Len(disk'["work"]),
           Grown(disk'["work"], Request', Row'.currentIndex, Row'.lastId, owner', moved',
                 curtailed' \intersect {First'})
    PROVE  FileOfRow'
<1>1. Len(disk'["work"]) \in Nat /\ SubSeq(disk'["work"], 1, Len(disk'["work"])) = disk'["work"]
  BY LenProperties, WholePrefix
<1>2. GrownNow(SubSeq(disk["work"], 1, Row.fileSize), Row)'
  BY <1>1, Zenon DEF GrownNow
<1>3. Row'.fileSize <= Len(disk'["work"])
  BY <1>1
<1>4. QED
  BY <1>2, <1>3 DEF FileOfRow

\* A step that makes a file before the harvest, or opens it.
LEMMA CreateFileFiles == IInv /\ Files /\ CreateFile => Files'
<1> SUFFICES ASSUME IInv, Files, CreateFile PROVE Files'
  OBVIOUS
<1>1. /\ pc = "fetch" /\ ~terminated /\ DOMAIN rows # {} /\ Row.stage = "CREATE"
      /\ UNCHANGED <<requests, rows, owner, terminated, s3, curtailed>>
      /\ pc' = "save" /\ job' = [Row EXCEPT !.stage = "HARVEST", !.fileSize = Len(Header(Request))]
      /\ Written("work", Header(Request))
  BY DEF CreateFile, Begins, Save, queueVars, Row
<1>2. /\ Request \in Requests /\ Row \in RowType /\ First \in DOMAIN rows
      /\ Row.currentIndex \in 1..Len(Request.toHarvest)
  BY <1>1, FirstRow DEF Files
<1>3. First' = First /\ Row' = Row /\ Request' = Request /\ Harvested' = Harvested /\ ~Harvested
  BY <1>1, SameRows DEF Harvested
<1>4. /\ DOMAIN disk' = DOMAIN disk \union {"work"} /\ disk'["work"] = Header(Request)
      /\ old' = old \ {"work"}
  BY <1>1, WrittenIs
<1>5. Header(Request) \in Seq(Entry) /\ Len(Header(Request)) \in Nat
  BY <1>2, HeaderAndFooter, LenProperties
<1>6. /\ job' \in RowType /\ job'.currentIndex = 1 /\ job'.lastId = 0
      /\ job'.fileSize = Len(Header(Request))
      /\ job'.currentIndex <= Len(Request.toHarvest)
  <2>1. Row.currentIndex = 1 /\ Row.lastId = 0
    BY <1>1, <1>2 DEF Files, Position, Row
  <2>2. 1 <= Len(Request.toHarvest)
    BY <1>2, <2>1
  <2>3. QED
    BY <1>1, <1>2, <1>5, <2>1, <2>2 DEF RowType, Stages
<1>7. TypeOK'
  BY <1>1, <1>4, <1>6 DEF Files, TypeOK, Places
<1>8. Position'
  BY <1>1, <1>3, <1>6 DEF Files, Position
<1>9. FileOfCopy'
  <2>1. Grown(Header(Request), Request, 1, 0, owner', moved', curtailed' \intersect {First})
    BY <1>2, HeaderGrown
  <2>2. QED
    BY <1>3, <1>4, <1>6, <2>1 DEF FileOfCopy, GrownNow
<1>10. FileOfRow' /\ AsSaved' /\ Fresh' /\ Signalled' /\ FilesDone'
  BY <1>1, <1>3 DEF FileOfRow, AsSaved, Fresh, Signalled, FilesDone
<1>11. NothingPacked' /\ DeliveredDone'
  BY <1>1, <1>3, <1>4 DEF Files, NothingPacked, DeliveredDone
<1>12. QED
  BY <1>7, <1>8, <1>9, <1>10, <1>11 DEF Files

LEMMA OpenFileFiles == IInv /\ Files /\ OpenFile => Files'
<1> SUFFICES ASSUME IInv, Files, OpenFile PROVE Files'
  OBVIOUS
<1> DEFINE c == SubSeq(disk["work"], 1, Row.fileSize)
<1>1. /\ pc = "fetch" /\ ~terminated /\ DOMAIN rows # {} /\ Row.stage = "HARVEST"
      /\ UNCHANGED <<requests, rows, owner, terminated, s3, moved, curtailed>>
      /\ pc' = "harvest" /\ job' = Row
      /\ Written("work", c)
  BY DEF OpenFile, Begins, queueVars, Row
<1>2. /\ Row \in RowType /\ Row.currentIndex <= Len(Request.toHarvest) /\ Row.fileSize \in Nat
  BY <1>1, FirstRow, RequestTyped DEF Files
<1>3. First' = First /\ Row' = Row /\ Request' = Request /\ Harvested' = Harvested /\ ~Harvested
  BY <1>1, SameRows DEF Harvested
<1>4. /\ disk["work"] \in Seq(Entry) /\ Row.fileSize <= Len(disk["work"])
      /\ GrownNow(c, Row)
  BY <1>1 DEF Files, FileOfRow
<1>5. c \in Seq(Entry) /\ Len(c) = Row.fileSize /\ SubSeq(c, 1, Row.fileSize) = c
  <2>1. c \in Seq(Entry) /\ Len(c) = Row.fileSize
    BY <1>2, <1>4, Prefix
  <2> HIDE DEF c
  <2>2. QED
    BY <2>1, WholePrefix
<1> HIDE DEF c
<1>6. /\ DOMAIN disk' = DOMAIN disk \union {"work"} /\ disk'["work"] = c
      /\ old' = old \ {"work"}
  BY <1>1, WrittenIs
<1>7. TypeOK'
  BY <1>1, <1>2, <1>6 DEF Files, TypeOK, Places
<1>8. Position'
  BY <1>1, <1>2, <1>3 DEF Files, Position
<1>9. Grown(c, Request, Row.currentIndex, Row.lastId, owner', moved', curtailed' \intersect {First})
  BY <1>1, <1>4 DEF GrownNow
<1>10. SubSeq(disk'["work"], 1, Row'.fileSize) = disk'["work"] /\ Len(disk'["work"]) = Row'.fileSize
       /\ disk'["work"] \in Seq(Entry)
  BY <1>3, <1>5, <1>6
<1>11. Grown(disk'["work"], Request', Row'.currentIndex, Row'.lastId, owner', moved',
              curtailed' \intersect {First'})
  BY <1>3, <1>6, <1>9
<1>12. FileOfRow'
  BY <1>2, <1>3, <1>6, <1>10, <1>11, RowFollowed
<1>13. FileOfCopy'
  <2>1. job' = Row'
    BY <1>1, <1>3
  <2>2. QED
    BY <1>6, <1>10, <1>11, <2>1 DEF FileOfCopy, GrownNow
<1>14. AsSaved' /\ Fresh' /\ Signalled' /\ FilesDone'
  BY <1>1, <1>3 DEF AsSaved, Fresh, Signalled, FilesDone
<1>15. NothingPacked' /\ DeliveredDone'
  BY <1>1, <1>3, <1>6 DEF Files, NothingPacked, DeliveredDone
<1>16. QED
  BY <1>7, <1>8, <1>14, <1>15, <1>12, <1>13 DEF Files

\* At work on a file: it has what the row, and the copy, know of.
LEMMA AtWork ==
    ASSUME IInv, Files, pc = "harvest"
    PROVE  /\ DOMAIN rows # {} /\ Row.stage = "HARVEST" /\ job = Row /\ ~Harvested
           /\ Request \in Requests /\ job \in RowType
           /\ job.currentIndex \in 1..Len(Request.toHarvest)
           /\ job.lastId \in Nat /\ Row.fileSize = Len(disk["work"])
           /\ "work" \in DOMAIN disk /\ "work" \notin old /\ disk["work"] \in Seq(Entry)
           /\ Grown(disk["work"], Request, job.currentIndex, job.lastId, owner, moved,
                    curtailed \intersect {First})
<1>1. DOMAIN rows # {} /\ Row.stage = "HARVEST" /\ job = Row
  BY DEF IInv, CopyFollows, Files, AsSaved
<1>2. QED
  BY <1>1, FirstRow DEF Files, FileOfRow, FileOfCopy, GrownNow, Harvested

\* The file grows while the row stays: what the row knows of is still there.
LEMMA RowOfLongerFile ==
    ASSUME IInv, Files, pc = "harvest", UNCHANGED <<requests, rows, owner, moved, curtailed>>,
           NEW d \in Seq(Entry), Written("work", disk["work"] \o d)
    PROVE  /\ FileOfRow' /\ NothingPacked'
           /\ DOMAIN disk' = DOMAIN disk \union {"work"} /\ disk'["work"] = disk["work"] \o d
           /\ old' = old \ {"work"}
           /\ disk'["work"] \in Seq(Entry) /\ Len(disk'["work"]) \in Nat
<1> DEFINE c == disk["work"]
<1>1. /\ DOMAIN rows # {} /\ Row.stage = "HARVEST" /\ job = Row /\ c \in Seq(Entry)
      /\ Row.fileSize = Len(c) /\ ~Harvested
      /\ Grown(c, Request, Row.currentIndex, Row.lastId, owner, moved, curtailed \intersect {First})
  BY AtWork
<1>2. First' = First /\ Row' = Row /\ Request' = Request /\ Harvested' = Harvested
  BY SameRows
<1>3. /\ DOMAIN disk' = DOMAIN disk \union {"work"} /\ disk'["work"] = c \o d
      /\ old' = old \ {"work"}
  BY WrittenIs
<1> HIDE DEF c
<1>4. /\ c \o d \in Seq(Entry) /\ Len(c \o d) \in Nat /\ Len(c) <= Len(c \o d)
      /\ SubSeq(c \o d, 1, Len(c)) = c
  BY <1>1, PrefixOfLonger
<1>5. FileOfRow'
  BY <1>1, <1>2, <1>3, <1>4 DEF FileOfRow, GrownNow
<1>6. NothingPacked'
  BY <1>2, <1>3 DEF Files, NothingPacked
<1>7. QED
  BY <1>3, <1>4, <1>5, <1>6 DEF c

LEMMA HarvestPageFiles == IInv /\ Files /\ HarvestPage => Files'
<1> SUFFICES ASSUME IInv, Files, HarvestPage PROVE Files'
  OBVIOUS
<1> DEFINE c == disk["work"]
<1>1. /\ pc = "harvest" /\ pc' = "flushed" /\ ~terminated /\ Page # {}
      /\ UNCHANGED <<requests, rows, owner, s3, terminated, moved, curtailed>>
      /\ job' = [job EXCEPT !.lastId = Max(Page), !.fileSize = Len(disk'["work"])]
  BY DEF HarvestPage, Harvesting, queueVars, history
<1>2. PICK d \in Entries : Written("work", c \o d)
  BY DEF HarvestPage
<1>3. /\ DOMAIN rows # {} /\ Row.stage = "HARVEST" /\ job = Row /\ ~Harvested
      /\ Request \in Requests /\ job \in RowType
      /\ job.currentIndex \in 1..Len(Request.toHarvest) /\ job.lastId \in Nat
      /\ "work" \in DOMAIN disk /\ "work" \notin old /\ c \in Seq(Entry)
      /\ Grown(c, Request, job.currentIndex, job.lastId, owner, moved, curtailed \intersect {First})
  BY <1>1, AtWork
<1>4. d \in Seq(Entry) /\ job.currentIndex \in Nat
  BY <1>3, EntriesTyped
<1>5. PICK ids \in InOrder(Page \intersect Request.matching) :
       DOMAIN d = DOMAIN ids /\ \A n \in DOMAIN ids : d[n] = <<job.currentIndex, ids[n]>>
  BY <1>4, <1>3, EntriesTyped
<1>6. /\ Page \subseteq Matches /\ Max(Page) \in Page
      /\ \A id \in Page : id <= Max(Page)
      /\ \A id \in Matches : id <= Max(Page) => id \in Page
  <2>1. Matches \subseteq Identifiers /\ Page \subseteq Matches
    BY DEF Matches, Page
  <2>2. IsFiniteSet(Matches) /\ Matches \in SUBSET Nat /\ Matches # {}
    BY <1>1, <2>1, FS_Subset, IdentifiersAreNumbers
  <2> DEFINE M == Matches
             P == Page
  <2>3. P = {id \in M : Cardinality({m \in M : m < id}) < PageSize}
    BY DEF Page
  <2> HIDE DEF M, P
  <2>4. IsFiniteSet(M) /\ M \in SUBSET Nat /\ M # {}
    BY <2>2 DEF M
  <2>5. /\ P \subseteq M /\ Max(P) \in P
        /\ \A id \in P : id <= Max(P)
        /\ \A id \in M : id <= Max(P) => id \in P
    BY <2>3, <2>4, FirstOnes
  <2>6. QED
    BY <2>5 DEF M, P
<1>7. Max(Page) \in Identifiers
  BY <1>6 DEF Matches
<1>8. /\ d \in Seq(Entry)
      /\ Grown(c \o d, Request, job.currentIndex, Max(Page), owner, moved, curtailed \intersect {First})
  <2> DEFINE P == Page
             i == job.currentIndex
             last == job.lastId
             q == Request
             cut == curtailed \intersect {First}
             max == Max(Page)
  <2>1. /\ P \in SUBSET Identifiers /\ max \in P
        /\ \A id \in P : id <= max /\ id > last /\ owner[id] = q.toHarvest[i]
        /\ \A id \in Identifiers :
              id <= max /\ id > last /\ owner[id] = q.toHarvest[i] => id \in P
    BY <1>6 DEF Matches
  <2>2. /\ ids \in InOrder(P \intersect q.matching) /\ d \in Seq(Entry)
        /\ DOMAIN d = DOMAIN ids /\ \A n \in DOMAIN ids : d[n] = <<i, ids[n]>>
        /\ q \in Requests /\ i \in 1..Len(q.toHarvest) /\ last \in Nat
        /\ Grown(c, q, i, last, owner, moved, cut)
    BY <1>4, <1>3, <1>5
  <2> HIDE DEF P, i, last, q, cut, c, max
  <2>3. Grown(c \o d, q, i, max, owner, moved, cut)
    BY <2>1, <2>2, PageGrown
  <2>4. QED
    BY <1>4, <2>3 DEF i, q, cut, max
<1>9. First' = First /\ Row' = Row /\ Request' = Request /\ Harvested' = Harvested
  BY <1>1, SameRows
<1>10. /\ FileOfRow' /\ NothingPacked'
      /\ DOMAIN disk' = DOMAIN disk \union {"work"} /\ disk'["work"] = c \o d
      /\ old' = old \ {"work"} /\ Len(disk'["work"]) \in Nat
  BY <1>1, <1>2, <1>8, RowOfLongerFile
<1>11. /\ job' \in RowType /\ job'.currentIndex = job.currentIndex /\ job'.lastId = Max(Page)
       /\ job'.fileSize = Len(disk'["work"])
  BY <1>1, <1>3, <1>7, <1>10 DEF RowType
<1>12. TypeOK'
  BY <1>1, <1>10, <1>11 DEF Files, TypeOK, Places
<1>13. Position'
  BY <1>1, <1>9, <1>11 DEF Files, Position
<1>14. FileOfCopy'
  BY <1>1, <1>8, <1>9, <1>10, <1>11 DEF FileOfCopy, GrownNow
<1>15. AsSaved' /\ Fresh' /\ Signalled' /\ FilesDone'
  BY <1>1, <1>3, <1>9 DEF AsSaved, Fresh, Signalled, FilesDone
<1>16. DeliveredDone'
  BY <1>1, <1>3, <1>9 DEF Files, DeliveredDone
<1>17. QED
  BY <1>10, <1>12, <1>13, <1>14, <1>15, <1>16 DEF Files

LEMMA RowSaved ==
    ASSUME IInv, DOMAIN rows # {}, NEW row, "stage" \in DOMAIN row,
           rows' = WithRow(First, row), requests' = requests
    PROVE  /\ DOMAIN rows' = DOMAIN rows /\ First' = First /\ Row' = row /\ Request' = Request
           /\ First \in DOMAIN rows
           /\ \A s \in DOMAIN rows' : rows'[s] = IF s = First THEN row ELSE rows[s]
<1>1. DOMAIN rows' = DOMAIN rows /\ First' = First /\ Row' = row
  BY FirstRowSaved DEF IInv
<1>2. First \in DOMAIN rows
  <2>1. Len(requests) \in Nat
    BY LenProperties DEF IInv, InSequence
  <2>2. QED
    BY <2>1, FirstIsLeast DEF IInv
<1>3. QED
  BY <1>1, <1>2 DEF WithRow, Request

\* Saving a row of the right type leaves the types.
LEMMA SavedTyped ==
    ASSUME TypeOK, DOMAIN rows' = DOMAIN rows,
           NEW row \in RowType, row.currentIndex <= Len(Request.toHarvest),
           \A s \in DOMAIN rows' : rows'[s] = IF s = First THEN row ELSE rows[s],
           UNCHANGED <<requests, owner, disk, s3, old, terminated>>, pc' \in Places,
           IF pc' \in {"harvest", "flushed", "save"} THEN job' \in RowType ELSE job' = NoJob
    PROVE  TypeOK'
<1>1. \A s \in DOMAIN rows' :
         rows'[s] \in RowType /\ rows'[s].currentIndex <= Len(requests'[s].toHarvest)
  BY DEF TypeOK, Request
<1>2. QED
  BY <1>1 DEF TypeOK

\* The owner at hand is done: nothing of it is left, or a signal has come.
LEMMA OwnerIsDone ==
    ASSUME IInv, Files, pc = "harvest", OwnerDone
    PROVE  Grown(disk["work"], Request, job.currentIndex + 1, 0, owner, moved,
                 curtailed \intersect {First})
<1> DEFINE M == {id \in Identifiers : id > job.lastId /\ owner[id] = Request.toHarvest[job.currentIndex]}
           cut == curtailed \intersect {First}
<1>1. /\ Request \in Requests /\ job.currentIndex \in 1..Len(Request.toHarvest)
      /\ job.lastId \in Nat
      /\ Grown(disk["work"], Request, job.currentIndex, job.lastId, owner, moved, cut)
  BY AtWork
<1>2. cut # {} \/ M = {}
  <2>1. CASE terminated
    BY <2>1 DEF Files, Signalled
  <2>2. CASE Page = {}
    <3>1. M = Matches
      BY DEF Matches
    <3>2. M \in SUBSET Nat /\ IsFiniteSet(M)
      <4>1. M \subseteq Identifiers
        OBVIOUS
      <4> HIDE DEF M
      <4>2. QED
        BY <4>1, FS_Subset, IdentifiersAreNumbers
    <3> DEFINE P == Page
    <3>3. P = {id \in M : Cardinality({m \in M : m < id}) < PageSize}
      BY <3>1 DEF Page
    <3>4. P = {}
      BY <2>2
    <3> HIDE DEF M, P
    <3>5. M = {}
      BY <3>2, <3>3, <3>4, FirstOnes
    <3>6. QED
      BY <3>5
  <2>3. QED
    BY <2>1, <2>2 DEF OwnerDone
<1>3. QED
  <2> DEFINE i == job.currentIndex
             last == job.lastId
             q == Request
             c == disk["work"]
  <2>1. /\ q \in Requests /\ i \in 1..Len(q.toHarvest) /\ last \in Nat
        /\ Grown(c, q, i, last, owner, moved, cut)
        /\ cut # {} \/ \A id \in Identifiers : ~(id > last /\ owner[id] = q.toHarvest[i])
    BY <1>1, <1>2
  <2> HIDE DEF i, last, q, c, cut, M
  <2>2. Grown(c, q, i + 1, 0, owner, moved, cut)
    BY <2>1, OwnerGrown
  <2>3. QED
    BY <2>2 DEF i, q, c, cut

\* What is saved is the copy, which the file follows.
LEMMA SavePageFiles == IInv /\ Files /\ SavePage => Files'
<1> SUFFICES ASSUME IInv, Files, SavePage PROVE Files'
  OBVIOUS
<1>1. /\ pc = "flushed" /\ pc' = "harvest" /\ rows' = WithRow(First, job)
      /\ UNCHANGED <<requests, owner, job, terminated, disk, s3, old, moved, curtailed>>
  BY DEF SavePage, fileVars, history
<1>2. /\ DOMAIN rows # {} /\ Row.stage = "HARVEST" /\ job.stage = "HARVEST"
      /\ "stage" \in DOMAIN job
  BY <1>1 DEF IInv, CopyFollows
<1>3. /\ job \in RowType /\ job.currentIndex \in 1..Len(Request.toHarvest)
      /\ job.fileSize \in Nat
  BY <1>1, CopyTyped DEF Files
<1>4. /\ DOMAIN rows' = DOMAIN rows /\ First' = First /\ Row' = job /\ Request' = Request
      /\ First \in DOMAIN rows
      /\ \A s \in DOMAIN rows' : rows'[s] = IF s = First THEN job ELSE rows[s]
  BY <1>1, <1>2, RowSaved
<1>5. ~Harvested /\ ~Harvested'
  BY <1>1, <1>2, <1>4 DEF Harvested
<1>6. /\ "work" \in DOMAIN disk /\ "work" \notin old /\ disk["work"] \in Seq(Entry)
      /\ job.fileSize = Len(disk["work"])
      /\ Grown(disk["work"], Request, job.currentIndex, job.lastId, owner, moved,
               curtailed \intersect {First})
  BY <1>1 DEF Files, FileOfCopy, GrownNow, Grown
<1>7. TypeOK'
  BY <1>1, <1>3, <1>4, SavedTyped DEF Files, Places
<1>8. Position'
  BY <1>1, <1>2, <1>3, <1>4 DEF Files, Position
<1>9. FileOfRow'
  BY <1>1, <1>3, <1>4, <1>6, RowFollowed
<1>10. FileOfCopy'
  BY <1>1, <1>4, <1>6 DEF FileOfCopy, GrownNow
<1>11. AsSaved' /\ Fresh' /\ Signalled' /\ FilesDone'
  BY <1>1, <1>4, <1>5 DEF Files, AsSaved, Fresh, Signalled, FilesDone
<1>12. NothingPacked' /\ DeliveredDone'
  BY <1>1, <1>4, <1>5 DEF Files, NothingPacked, DeliveredDone
<1>13. QED
  BY <1>7, <1>8, <1>9, <1>10, <1>11, <1>12 DEF Files

LEMMA NextOwnerFiles == IInv /\ Files /\ NextOwner => Files'
<1> SUFFICES ASSUME IInv, Files, NextOwner PROVE Files'
  OBVIOUS
<1>1. /\ pc = "harvest" /\ pc' = "harvest" /\ rows' = WithRow(First, job')
      /\ OwnerDone /\ job.currentIndex < Len(Request.toHarvest)
      /\ job' = [job EXCEPT !.currentIndex = @ + 1, !.lastId = 0]
      /\ UNCHANGED <<requests, owner, terminated, disk, s3, old, moved, curtailed>>
  BY DEF NextOwner, Harvesting, history
<1>2. /\ DOMAIN rows # {} /\ Row.stage = "HARVEST" /\ job = Row /\ ~Harvested
      /\ Request \in Requests /\ job \in RowType
      /\ job.currentIndex \in 1..Len(Request.toHarvest) /\ job.lastId \in Nat
      /\ Row.fileSize = Len(disk["work"])
      /\ "work" \in DOMAIN disk /\ "work" \notin old /\ disk["work"] \in Seq(Entry)
      /\ Grown(disk["work"], Request, job.currentIndex, job.lastId, owner, moved,
               curtailed \intersect {First})
  BY <1>1, AtWork
<1> DEFINE next == [job EXCEPT !.currentIndex = @ + 1, !.lastId = 0]
<1>3. /\ next \in RowType /\ next.stage = "HARVEST" /\ "stage" \in DOMAIN next
      /\ next.currentIndex = job.currentIndex + 1 /\ next.lastId = 0
      /\ next.fileSize = Len(disk["work"]) /\ next.fileSize \in Nat
      /\ next.currentIndex <= Len(Request.toHarvest)
  <2>1. Len(Request.toHarvest) \in Nat
    BY <1>2, RequestTyped
  <2>2. job.stage = "HARVEST" /\ job.fileSize = Len(disk["work"])
    BY <1>2
  <2>3. job.currentIndex + 1 \in Nat \ {0} /\ job \in RowType
    BY <1>2, <2>1
  <2>4. next \in RowType
    BY <2>3 DEF RowType
  <2>5. /\ "stage" \in DOMAIN next /\ next.stage = "HARVEST" /\ next.fileSize = job.fileSize
        /\ next.currentIndex = job.currentIndex + 1 /\ next.lastId = 0
    BY <1>2, <2>2 DEF RowType
  <2>6. job.currentIndex + 1 <= Len(Request.toHarvest)
    BY <1>1, <1>2, <2>1
  <2>7. job.fileSize \in Nat
    BY <1>2 DEF RowType
  <2> HIDE DEF next
  <2>8. QED
    BY <2>2, <2>4, <2>5, <2>6, <2>7
<1>4. job' = next
  BY <1>1
<1> HIDE DEF next
<1>5. /\ DOMAIN rows' = DOMAIN rows /\ First' = First /\ Row' = next /\ Request' = Request
      /\ First \in DOMAIN rows
      /\ \A s \in DOMAIN rows' : rows'[s] = IF s = First THEN next ELSE rows[s]
  BY <1>1, <1>2, <1>3, <1>4, RowSaved
<1>6. ~Harvested'
  BY <1>3, <1>5 DEF Harvested
<1>7. Grown(disk["work"], Request, job.currentIndex + 1, 0, owner, moved,
            curtailed \intersect {First})
  BY <1>1, <1>2, OwnerIsDone
<1>8. TypeOK'
  BY <1>1, <1>3, <1>5, <1>4, SavedTyped DEF Files, Places
<1>9. Position'
  BY <1>1, <1>3, <1>5, <1>4 DEF Files, Position
<1>10. FileOfRow'
  BY <1>1, <1>2, <1>3, <1>5, <1>4, <1>7, RowFollowed
<1>11. FileOfCopy'
  BY <1>1, <1>2, <1>3, <1>5, <1>4, <1>7 DEF FileOfCopy, GrownNow
<1>12. AsSaved' /\ Fresh' /\ Signalled' /\ FilesDone'
  BY <1>1, <1>5, <1>6, <1>4 DEF Files, AsSaved, Fresh, Signalled, FilesDone
<1>13. NothingPacked' /\ DeliveredDone'
  BY <1>1, <1>2, <1>5, <1>6 DEF Files, NothingPacked, DeliveredDone
<1>14. QED
  BY <1>8, <1>9, <1>10, <1>11, <1>12, <1>13 DEF Files

LEMMA CloseFileFiles == IInv /\ Files /\ CloseFile => Files'
<1> SUFFICES ASSUME IInv, Files, CloseFile PROVE Files'
  OBVIOUS
<1> DEFINE c == disk["work"]
           d == Footer(Request)
<1>1. /\ pc = "harvest" /\ pc' = "save"
      /\ OwnerDone /\ job.currentIndex = Len(Request.toHarvest)
      /\ job' = [job EXCEPT !.stage = "COMPRESS"] /\ Written("work", c \o d)
      /\ UNCHANGED <<requests, rows, owner, terminated, s3, moved, curtailed>>
  BY DEF CloseFile, Harvesting, Save, queueVars, history
<1>2. /\ DOMAIN rows # {} /\ Row.stage = "HARVEST" /\ job = Row /\ ~Harvested
      /\ Request \in Requests /\ job \in RowType
      /\ job.currentIndex \in 1..Len(Request.toHarvest)
      /\ Grown(c, Request, job.currentIndex, job.lastId, owner, moved,
               curtailed \intersect {First})
  BY <1>1, AtWork
<1>3. First' = First /\ Row' = Row /\ Request' = Request /\ Harvested' = Harvested
  BY <1>1, SameRows
<1>4. d \in Seq(Entry)
  BY <1>2, HeaderAndFooter
<1>5. /\ FileOfRow' /\ NothingPacked'
      /\ DOMAIN disk' = DOMAIN disk \union {"work"} /\ disk'["work"] = c \o d
      /\ old' = old \ {"work"}
  <2> HIDE DEF d
  <2>1. QED
    BY <1>1, <1>4, RowOfLongerFile
<1>6. FinishedNow(c \o d)
  <2>1. Grown(c, Request, Len(Request.toHarvest) + 1, 0, owner, moved, curtailed \intersect {First})
    BY <1>1, <1>2, OwnerIsDone
  <2>2. QED
    BY <1>2, <2>1, FooterFinishes DEF FinishedNow
<1>7. DOMAIN disk' = {"work"}
  BY <1>2, <1>5 DEF Files, TypeOK, NothingPacked
<1>8. /\ job' \in RowType /\ job'.currentIndex = job.currentIndex
  BY <1>1, <1>2 DEF RowType, Stages
<1>9. TypeOK'
  BY <1>1, <1>5, <1>8 DEF Files, TypeOK, Places
<1>10. Position'
  BY <1>1, <1>2, <1>3, <1>8 DEF Files, Position
<1>11. FileOfCopy' /\ AsSaved' /\ Fresh' /\ Signalled'
  BY <1>1, <1>2, <1>3 DEF FileOfCopy, AsSaved, Fresh, Signalled
<1>12. FilesDone'
  <2>1. Finished(disk'["work"], Request', owner', moved', curtailed' \intersect {First'})
    BY <1>1, <1>3, <1>5, <1>6 DEF FinishedNow
  <2>2. QED
    BY <1>7, <2>1 DEF FilesDone, FinishedNow
<1>13. DeliveredDone'
  BY <1>1, <1>2, <1>3 DEF Files, DeliveredDone
<1>14. QED
  BY <1>5, <1>9, <1>10, <1>11, <1>12, <1>13 DEF Files

LEMMA DeliveredFrame ==
    ASSUME DeliveredDone, UNCHANGED <<requests, rows, s3, owner, moved, curtailed>>
    PROVE  DeliveredDone'
<1>1. First' = First /\ Row' = Row /\ Request' = Request /\ Harvested' = Harvested
  BY SameRows
<1>2. QED
  BY <1>1 DEF DeliveredDone, FinishedNow

-----------------------------------------------------------------------------
(* The stages after the harvest                                            *)

\* The file that was just read is as finished as the others.
LEMMA CompressFileFiles == IInv /\ Files /\ CompressFile => Files'
<1> SUFFICES ASSUME IInv, Files, CompressFile PROVE Files'
  OBVIOUS
<1>1. /\ pc = "fetch" /\ DOMAIN rows # {} /\ Row.stage = "COMPRESS"
      /\ UNCHANGED <<requests, rows, owner, terminated, s3, moved, curtailed>>
      /\ pc' = "save" /\ job' = [Row EXCEPT !.stage = "DELETE"]
      /\ "work" \in DOMAIN disk /\ Written("packed", disk["work"])
  BY DEF CompressFile, Begins, Save, queueVars, Row
<1>2. First' = First /\ Row' = Row /\ Request' = Request /\ Harvested' = Harvested
  BY <1>1, SameRows
<1>3. /\ DOMAIN disk' = DOMAIN disk \union {"packed"}
      /\ \A f \in DOMAIN disk' : disk'[f] = disk["work"] \/ (f \in DOMAIN disk /\ disk'[f] = disk[f])
      /\ old' = old \ {"packed"}
  BY <1>1, WrittenIs
<1>4. Harvested /\ \A f \in DOMAIN disk : FinishedNow(disk[f])
  BY <1>1 DEF Harvested, Files, FilesDone
<1>5. /\ job' \in RowType /\ job'.currentIndex <= Len(Request.toHarvest)
  <2>1. /\ Row \in RowType /\ Row.currentIndex <= Len(Request.toHarvest)
        /\ First \in DOMAIN requests /\ First \in DOMAIN rows
    BY <1>1, FirstRow, RequestTyped DEF Files
  <2>2. job' \in RowType /\ job'.currentIndex = Row.currentIndex
    BY <1>1, <2>1 DEF RowType, Stages
  <2>3. QED
    BY <2>1, <2>2
<1>6. TypeOK'
  BY <1>1, <1>3, <1>5 DEF Files, TypeOK, Places
<1>7. FilesDone'
  <2>1. ASSUME NEW f \in DOMAIN disk'
        PROVE  Finished(disk'[f], Request', owner', moved', curtailed' \intersect {First'})
    BY <1>1, <1>2, <1>3, <1>4 DEF FinishedNow
  <2>2. QED
    BY <2>1 DEF FilesDone, FinishedNow
<1>8. Position'
  BY <1>1, <1>2, <1>5 DEF Files, Position
<1>9. FileOfRow' /\ FileOfCopy' /\ AsSaved' /\ Fresh' /\ Signalled'
  BY <1>1, <1>2 DEF FileOfRow, FileOfCopy, AsSaved, Fresh, Signalled
<1>10. NothingPacked'
  BY <1>2, <1>4 DEF NothingPacked
<1>11. DeliveredDone'
  BY <1>1, <1>2, DeliveredFrame DEF Files
<1>12. QED
  BY <1>6, <1>7, <1>8, <1>9, <1>10, <1>11 DEF Files

LEMMA DeleteUncompressedFileFiles == IInv /\ Files /\ DeleteUncompressedFile => Files'
<1> SUFFICES ASSUME IInv, Files, DeleteUncompressedFile PROVE Files'
  OBVIOUS
<1>1. /\ pc = "fetch" /\ DOMAIN rows # {} /\ Row.stage = "DELETE"
      /\ UNCHANGED <<requests, rows, owner, terminated, s3, moved, curtailed>>
      /\ pc' = "save" /\ job' = [Row EXCEPT !.stage = "MOVE"]
      /\ Removed({"work"})
  BY DEF DeleteUncompressedFile, Begins, Save, queueVars, Row
<1>2. First' = First /\ Row' = Row /\ Request' = Request /\ Harvested' = Harvested
  BY <1>1, SameRows
<1>3. /\ DOMAIN disk' = DOMAIN disk \ {"work"} /\ \A f \in DOMAIN disk' : disk'[f] = disk[f]
      /\ old' = old \ {"work"}
  BY <1>1 DEF Removed
<1>4. Harvested /\ \A f \in DOMAIN disk : FinishedNow(disk[f])
  BY <1>1 DEF Harvested, Files, FilesDone
<1>5. /\ job' \in RowType /\ job'.currentIndex <= Len(Request.toHarvest)
  <2>1. /\ Row \in RowType /\ Row.currentIndex <= Len(Request.toHarvest)
        /\ First \in DOMAIN requests /\ First \in DOMAIN rows
    BY <1>1, FirstRow, RequestTyped DEF Files
  <2>2. job' \in RowType /\ job'.currentIndex = Row.currentIndex
    BY <1>1, <2>1 DEF RowType, Stages
  <2>3. QED
    BY <2>1, <2>2
<1>6. TypeOK'
  BY <1>1, <1>3, <1>5 DEF Files, TypeOK, Places
<1>7. FilesDone'
  <2>1. ASSUME NEW f \in DOMAIN disk'
        PROVE  Finished(disk'[f], Request', owner', moved', curtailed' \intersect {First'})
    BY <1>1, <1>2, <1>3, <1>4 DEF FinishedNow
  <2>2. QED
    BY <2>1 DEF FilesDone, FinishedNow
<1>8. Position'
  BY <1>1, <1>2, <1>5 DEF Files, Position
<1>9. FileOfRow' /\ FileOfCopy' /\ AsSaved' /\ Fresh' /\ Signalled'
  BY <1>1, <1>2 DEF FileOfRow, FileOfCopy, AsSaved, Fresh, Signalled
<1>10. NothingPacked'
  BY <1>2, <1>4 DEF NothingPacked
<1>11. DeliveredDone'
  BY <1>1, <1>2, DeliveredFrame DEF Files
<1>12. QED
  BY <1>6, <1>7, <1>8, <1>9, <1>10, <1>11 DEF Files

LEMMA MoveCompressedFileFiles == IInv /\ Files /\ MoveCompressedFile => Files'
<1> SUFFICES ASSUME IInv, Files, MoveCompressedFile PROVE Files'
  OBVIOUS
<1>1. /\ pc = "fetch" /\ DOMAIN rows # {} /\ Row.stage = "MOVE"
      /\ UNCHANGED <<requests, rows, owner, terminated, disk, old, moved, curtailed>>
      /\ pc' = "save" /\ job' = [Row EXCEPT !.stage = "NOTIFY"]
      /\ "packed" \in DOMAIN disk
      /\ \/ s3' = [s \in DOMAIN s3 \union {First} |->
                      IF s = First THEN disk["packed"] ELSE s3[s]]
         \/ UNCHANGED s3
  BY DEF MoveCompressedFile, Begins, Save, queueVars, Row
<1>2. First' = First /\ Row' = Row /\ Request' = Request /\ Harvested' = Harvested
  BY <1>1, SameRows
<1>3. Harvested /\ \A f \in DOMAIN disk : FinishedNow(disk[f])
  BY <1>1 DEF Harvested, Files, FilesDone
<1>4. /\ DOMAIN s3' \subseteq DOMAIN s3 \union {First}
      /\ \A s \in DOMAIN s3' :
            \/ s = First /\ s3'[s] = disk["packed"]
            \/ s \in DOMAIN s3 /\ s3'[s] = s3[s]
  BY <1>1
<1>5. /\ job' \in RowType /\ job'.currentIndex <= Len(Request.toHarvest)
      /\ First \in DOMAIN requests /\ First \in DOMAIN rows
  <2>1. /\ Row \in RowType /\ Row.currentIndex <= Len(Request.toHarvest)
        /\ First \in DOMAIN requests /\ First \in DOMAIN rows
    BY <1>1, FirstRow, RequestTyped DEF Files
  <2>2. job' \in RowType /\ job'.currentIndex = Row.currentIndex
    BY <1>1, <2>1 DEF RowType, Stages
  <2>3. QED
    BY <2>1, <2>2
<1>6. TypeOK'
  BY <1>1, <1>4, <1>5 DEF Files, TypeOK, Places
<1>7. FilesDone'
  <2>1. \A f \in DOMAIN disk' :
           Finished(disk'[f], Request', owner', moved', curtailed' \intersect {First'})
    BY <1>1, <1>2, <1>3 DEF FinishedNow
  <2>2. QED
    BY <2>1 DEF FilesDone, FinishedNow
<1>8. Position'
  BY <1>1, <1>2, <1>5 DEF Files, Position
<1>9. FileOfRow' /\ FileOfCopy' /\ AsSaved' /\ Fresh' /\ Signalled'
  BY <1>1, <1>2 DEF FileOfRow, FileOfCopy, AsSaved, Fresh, Signalled
<1>10. NothingPacked'
  BY <1>1, <1>2, <1>3 DEF NothingPacked
<1>11. DeliveredDone'
  <2>1. ASSUME NEW s \in DOMAIN s3'
        PROVE  /\ Shaped(s3'[s], requests'[s])
               /\ s \in DOMAIN rows' =>
                     /\ s = First'
                     /\ Finished(s3'[s], Request', owner', moved', curtailed' \intersect {First'})
    <3>1. CASE s = First /\ s3'[s] = disk["packed"]
      <4>1. Finished(disk["packed"], Request, owner, moved, curtailed \intersect {First})
        BY <1>1, <1>3 DEF FinishedNow
      <4>2. Shaped(disk["packed"], requests[First])
        BY <4>1 DEF Finished, Request
      <4>3. QED
        BY <1>1, <1>2, <3>1, <4>1, <4>2
    <3>2. CASE s \in DOMAIN s3 /\ s3'[s] = s3[s]
      <4>1. /\ Shaped(s3[s], requests[s])
            /\ s \in DOMAIN rows => s = First /\ FinishedNow(s3[s])
        BY <3>2 DEF Files, DeliveredDone
      <4>2. QED
        BY <1>1, <1>2, <3>2, <4>1 DEF FinishedNow
    <3>3. QED
      BY <1>4, <3>1, <3>2
  <2>2. QED
    BY <1>2, <1>3, <2>1 DEF DeliveredDone, FinishedNow
<1>12. QED
  BY <1>6, <1>7, <1>8, <1>9, <1>10, <1>11 DEF Files

LEMMA NotifyRequestorFiles == IInv /\ Files /\ NotifyRequestor => Files'
<1> SUFFICES ASSUME IInv, Files, NotifyRequestor PROVE Files'
  OBVIOUS
<1>1. /\ pc = "fetch" /\ DOMAIN rows # {} /\ Row.stage = "NOTIFY"
      /\ UNCHANGED <<requests, rows, owner, terminated, disk, old, s3, moved, curtailed>>
      /\ pc' = "save" /\ job' = Row
  BY DEF NotifyRequestor, Begins, Save, queueVars, fileVars, Row
<1>2. First' = First /\ Row' = Row /\ Request' = Request /\ Harvested' = Harvested
  BY <1>1, SameRows
<1>3. Harvested /\ \A f \in DOMAIN disk : FinishedNow(disk[f])
  BY <1>1 DEF Harvested, Files, FilesDone
<1>4. /\ job' \in RowType /\ job'.currentIndex <= Len(Request.toHarvest)
  BY <1>1, FirstRow, RequestTyped DEF Files
<1>5. TypeOK'
  BY <1>1, <1>4 DEF Files, TypeOK, Places
<1>6. FilesDone'
  <2>1. \A f \in DOMAIN disk' :
           Finished(disk'[f], Request', owner', moved', curtailed' \intersect {First'})
    BY <1>1, <1>2, <1>3 DEF FinishedNow
  <2>2. QED
    BY <2>1 DEF FilesDone, FinishedNow
<1>7. Position'
  BY <1>1, <1>2, <1>4 DEF Files, Position
<1>8. FileOfRow' /\ FileOfCopy' /\ AsSaved' /\ Fresh' /\ Signalled'
  BY <1>1, <1>2 DEF FileOfRow, FileOfCopy, AsSaved, Fresh, Signalled
<1>9. NothingPacked'
  BY <1>1, <1>2, <1>3 DEF NothingPacked
<1>10. DeliveredDone'
  BY <1>1, <1>2, DeliveredFrame DEF Files
<1>11. QED
  BY <1>5, <1>6, <1>7, <1>8, <1>9, <1>10 DEF Files

\* The row is saved at its next stage, or deleted with its files.
LEMMA SaveStageFiles == IInv /\ Files /\ SaveStage => Files'
<1> SUFFICES ASSUME IInv, Files, SaveStage PROVE Files'
  OBVIOUS
<1>1. /\ pc = "save" /\ pc' = "sweep" /\ job' = NoJob
      /\ UNCHANGED <<requests, owner, s3, terminated, moved, curtailed>>
  BY DEF SaveStage, history
<1>2. /\ DOMAIN rows # {} /\ "stage" \in DOMAIN job
      /\ <<Row.stage, job.stage>> \in Following
  BY <1>1 DEF IInv, CopyFollows
<1>3. /\ job \in RowType /\ job.currentIndex \in 1..Len(Request.toHarvest)
      /\ job.fileSize \in Nat /\ Len(Request.toHarvest) \in Nat
  BY <1>1, <1>2, CopyTyped, FirstRow, RequestTyped DEF Files
<1>4. FileOfCopy' /\ AsSaved' /\ Signalled'
  BY <1>1 DEF FileOfCopy, AsSaved, Signalled
<1>5. CASE Row.stage # "NOTIFY"
  <2>1. rows' = WithRow(First, job) /\ UNCHANGED <<disk, old>>
    BY <1>5 DEF SaveStage, Row
  <2>2. /\ DOMAIN rows' = DOMAIN rows /\ First' = First /\ Row' = job /\ Request' = Request
        /\ First \in DOMAIN rows
        /\ \A s \in DOMAIN rows' : rows'[s] = IF s = First THEN job ELSE rows[s]
    BY <1>1, <1>2, <2>1, RowSaved
  <2>3. job.stage # "CREATE"
    BY <1>2 DEF Following
  <2>4. TypeOK'
    BY <1>1, <1>3, <2>1, <2>2, SavedTyped DEF Files, Places
  <2>5. Position'
    BY <1>1, <2>2, <2>3 DEF Files, Position
  <2>6. /\ job.stage = "HARVEST" => Row.stage = "CREATE"
        /\ job.stage # "HARVEST" => Harvested \/ Row.stage = "HARVEST"
        /\ Harvested => job.stage # "HARVEST"
    BY <1>2, <1>5 DEF Following, Harvested
  <2>7. Harvested' <=> job.stage # "HARVEST"
    BY <1>2, <2>2, <2>3 DEF Harvested
  <2>8. ASSUME job.stage = "HARVEST"
        PROVE  /\ "work" \in DOMAIN disk /\ "work" \notin old /\ disk["work"] \in Seq(Entry)
               /\ job.fileSize = Len(disk["work"])
               /\ Grown(disk["work"], Request, job.currentIndex, job.lastId, owner, moved,
                        curtailed \intersect {First})
    BY <1>1, <2>6, <2>8 DEF Files, FileOfCopy, GrownNow, Grown
  <2>9. FileOfRow'
    <3>1. CASE job.stage = "HARVEST"
      BY <1>1, <2>1, <2>2, <2>8, <3>1, RowFollowed
    <3>2. CASE job.stage # "HARVEST"
      BY <2>2, <3>2 DEF FileOfRow
    <3>3. QED
      BY <3>1, <3>2
  <2>10. Fresh'
    BY <2>1, <2>2, <2>8 DEF Fresh
  <2>11. FilesDone'
    <3>1. CASE job.stage = "HARVEST"
      BY <1>1, <2>7, <3>1 DEF FilesDone
    <3>2. CASE job.stage # "HARVEST"
      <4>1. \A f \in DOMAIN disk : Finished(disk[f], Request, owner, moved, curtailed \intersect {First})
        BY <1>1, <2>6, <3>2 DEF Files, FilesDone, FinishedNow
      <4>2. QED
        BY <1>1, <2>1, <2>2, <4>1 DEF FilesDone, FinishedNow
    <3>3. QED
      BY <3>1, <3>2
  <2>12. NothingPacked'
    BY <2>1, <2>6, <2>7 DEF Files, NothingPacked
  <2>13. DeliveredDone'
    BY <1>1, <2>2, <2>6, <2>7 DEF Files, DeliveredDone, FinishedNow
  <2>14. QED
    BY <1>4, <2>4, <2>5, <2>9, <2>10, <2>11, <2>12, <2>13 DEF Files
<1>6. CASE Row.stage = "NOTIFY"
  <2>1. rows' = [s \in DOMAIN rows \ {First} |-> rows[s]] /\ Removed({"work", "packed"})
    BY <1>6 DEF SaveStage, Row
  <2>2. /\ DOMAIN rows' = DOMAIN rows \ {First} /\ \A s \in DOMAIN rows' : rows'[s] = rows[s]
    BY <2>1
  <2>3. DOMAIN disk' = {} /\ old' = {}
    BY <2>1 DEF Removed, Files, TypeOK
  <2>4. \A s \in DOMAIN rows' : rows[s].stage = "CREATE"
    BY <2>2 DEF IInv, OthersWait
  <2>5. DOMAIN rows' # {} => First' \in DOMAIN rows'
    <3>1. Len(requests) \in Nat /\ First \in 1..Len(requests) /\ DOMAIN rows = First..Len(requests)
      BY <1>2, FirstIsLeast, LenProperties DEF IInv, InSequence
    <3>2. DOMAIN rows' = (First + 1)..Len(requests)
      BY <2>2, <3>1
    <3>3. ASSUME First + 1 <= Len(requests) PROVE First' = First + 1
      BY <3>1, <3>2, <3>3, MinOfInterval DEF First
    <3>4. QED
      BY <3>1, <3>2, <3>3
  <2>6. DOMAIN rows' # {} => Row'.stage = "CREATE"
    BY <2>2, <2>4, <2>5 DEF Row
  <2>7. TypeOK'
    BY <1>1, <2>2, <2>3 DEF Files, TypeOK, Places
  <2>8. Position'
    BY <1>1, <2>2 DEF Files, Position
  <2>9. FileOfRow' /\ Fresh' /\ FilesDone' /\ NothingPacked'
    BY <2>3, <2>6 DEF FileOfRow, Fresh, FilesDone, NothingPacked
  <2>10. DeliveredDone'
    <3>1. DOMAIN s3 \intersect DOMAIN rows' = {}
      BY <2>2 DEF Files, DeliveredDone
    <3>2. QED
      BY <1>1, <3>1 DEF Files, DeliveredDone
  <2>11. QED
    BY <1>4, <2>7, <2>8, <2>9, <2>10 DEF Files
<1>7. QED
  BY <1>5, <1>6

\* A file that is swept was not written for a week: none that the row counts on
\* while it is harvested.
LEMMA RemoveExpiredFilesFiles == IInv /\ Files /\ RemoveExpiredFiles => Files'
<1> SUFFICES ASSUME IInv, Files, RemoveExpiredFiles PROVE Files'
  OBVIOUS
<1>1. /\ pc = "sweep" /\ pc' = "fetch" /\ Removed(old)
      /\ UNCHANGED <<requests, rows, owner, s3, job, terminated, moved, curtailed>>
  BY DEF RemoveExpiredFiles, queueVars, history
<1>2. First' = First /\ Row' = Row /\ Request' = Request /\ Harvested' = Harvested
  BY <1>1, SameRows
<1>3. /\ DOMAIN disk' = DOMAIN disk \ old /\ \A f \in DOMAIN disk' : disk'[f] = disk[f]
      /\ old' = {}
  BY <1>1 DEF Removed
<1>4. TypeOK'
  BY <1>1, <1>3 DEF Files, TypeOK, Places
<1>5. Position' /\ FileOfCopy' /\ AsSaved' /\ Fresh' /\ Signalled'
  BY <1>1 DEF Files, Position, FileOfCopy, AsSaved, Fresh, Signalled
<1>6. FileOfRow'
  <2>1. SUFFICES ASSUME DOMAIN rows # {}, Row.stage = "HARVEST" PROVE FileOfRow'
    BY <1>1, <1>2 DEF FileOfRow
  <2>2. /\ "work" \in DOMAIN disk' /\ disk'["work"] = disk["work"]
    BY <1>1, <1>3, <2>1 DEF Files, FileOfRow, Fresh
  <2>3. QED
    BY <1>1, <1>2, <2>1, <2>2 DEF Files, FileOfRow, GrownNow
<1>7. FilesDone'
  <2>1. Harvested => \A f \in DOMAIN disk' :
           Finished(disk'[f], Request', owner', moved', curtailed' \intersect {First'})
    BY <1>1, <1>2, <1>3 DEF Files, FilesDone, FinishedNow
  <2>2. QED
    BY <1>1, <1>2, <2>1 DEF FilesDone, FinishedNow
<1>8. NothingPacked'
  BY <1>2, <1>3 DEF Files, NothingPacked
<1>9. DeliveredDone'
  BY <1>1, DeliveredFrame DEF Files
<1>10. QED
  BY <1>4, <1>5, <1>6, <1>7, <1>8, <1>9 DEF Files

\* A stage that fails may have written a page in part, and the row knows of none of it.
LEMMA StageFailsFiles == IInv /\ Files /\ StageFails => Files'
<1> SUFFICES ASSUME IInv, Files, StageFails PROVE Files'
  OBVIOUS
<1>1. /\ pc' = "fetch" /\ job' = NoJob
      /\ UNCHANGED <<requests, rows, owner, s3, terminated, moved, curtailed>>
  BY DEF StageFails, queueVars
<1>2. CASE UNCHANGED <<disk, old>>
  <2>1. TypeOK'
    BY <1>1, <1>2 DEF Files, TypeOK, Places
  <2>2. QED
    BY <1>1, <1>2, <2>1, FilesFrame
<1>3. CASE /\ pc = "harvest"
           /\ \E entries \in Entries : \E n \in 0..Len(entries) :
                 Written("work", disk["work"] \o SubSeq(entries, 1, n))
  <2>1. PICK entries \in Entries : \E n \in 0..Len(entries) :
           Written("work", disk["work"] \o SubSeq(entries, 1, n))
    BY <1>3
  <2>2. PICK n \in 0..Len(entries) : Written("work", disk["work"] \o SubSeq(entries, 1, n))
    BY <2>1
  <2>3. /\ DOMAIN rows # {} /\ Row.stage = "HARVEST" /\ Request \in Requests
        /\ job.currentIndex \in Nat /\ ~Harvested
    BY <1>3, AtWork
  <2> DEFINE d == SubSeq(entries, 1, n)
  <2>4. d \in Seq(Entry)
    <3>1. entries \in Seq(Entry) /\ Len(entries) \in Nat
      BY <2>3, EntriesTyped, LenProperties
    <3>2. n \in Nat /\ n <= Len(entries)
      BY <3>1
    <3>3. QED
      BY <3>1, <3>2, Prefix
  <2>5. Written("work", disk["work"] \o d)
    BY <2>2
  <2> HIDE DEF d
  <2>6. /\ FileOfRow' /\ NothingPacked'
        /\ DOMAIN disk' = DOMAIN disk \union {"work"} /\ old' = old \ {"work"}
    BY <1>1, <1>3, <2>4, <2>5, RowOfLongerFile
  <2>7. Harvested' = Harvested /\ Row' = Row
    BY <1>1, SameRows
  <2>8. TypeOK'
    BY <1>1, <2>6 DEF Files, TypeOK, Places
  <2>9. Position' /\ FileOfCopy' /\ AsSaved' /\ Fresh' /\ Signalled' /\ FilesDone'
    BY <1>1, <2>3, <2>7 DEF Files, Position, FileOfCopy, AsSaved, Fresh, Signalled, FilesDone
  <2>10. DeliveredDone'
    BY <1>1, DeliveredFrame DEF Files
  <2>11. QED
    BY <2>6, <2>8, <2>9, <2>10 DEF Files
<1>4. QED
  BY <1>2, <1>3 DEF StageFails

\* A request that is enqueued goes behind the others.
LEMMA EnqueueFiles ==
    ASSUME IInv, Files, NEW request \in Requests, Enqueue(request)
    PROVE  Files'
<1> DEFINE n == Len(requests)
           new == [stage |-> "CREATE", currentIndex |-> 1, lastId |-> 0, fileSize |-> 0]
<1>1. /\ requests' = Append(requests, request) /\ rows' = WithRow(n + 1, new)
      /\ UNCHANGED <<owner, pc, job, terminated, disk, s3, old, moved, curtailed>>
  BY DEF Enqueue, daemonVars, fileVars, history
<1>2. /\ n \in Nat /\ requests' \in Seq(Requests) /\ Len(requests') = n + 1
      /\ DOMAIN requests = 1..n /\ DOMAIN requests' = 1..(n + 1)
      /\ \A s \in 1..n : requests'[s] = requests[s]
      /\ requests'[n + 1] = request
  <2>1. requests \in Seq(Requests)
    BY DEF IInv, InSequence
  <2>2. QED
    BY <1>1, <2>1, LenProperties, AppendProperties
<1>3. /\ new \in RowType /\ new.stage = "CREATE" /\ new.currentIndex = 1 /\ new.lastId = 0
      /\ new.currentIndex <= Len(request.toHarvest)
  <2>1. Len(request.toHarvest) \in Nat \ {0}
    BY RequestTyped
  <2>2. QED
    BY <2>1 DEF RowType, Stages
<1>4. PICK a \in 1..n + 1 : DOMAIN rows = a..n
  BY DEF IInv, InSequence
<1> HIDE DEF n, new
<1>5. DOMAIN rows' = a..(n + 1) /\ DOMAIN rows' = DOMAIN rows \union {n + 1}
  BY <1>1, <1>2, <1>4 DEF WithRow
<1>6. \A s \in DOMAIN rows' : rows'[s] = IF s = n + 1 THEN new ELSE rows[s]
  BY <1>1 DEF WithRow
<1>7. First' = a /\ (DOMAIN rows # {} => First = a /\ a <= n)
  <2>1. First' = a
    BY <1>2, <1>4, <1>5, MinOfInterval DEF First
  <2>2. DOMAIN rows # {} => a <= n
    BY <1>2, <1>4
  <2>3. DOMAIN rows # {} => First = a
    BY <1>2, <1>4, <2>2, MinOfInterval DEF First
  <2>4. QED
    BY <2>1, <2>2, <2>3
<1>8. DOMAIN rows # {} => First' = First /\ Row' = Row /\ Request' = Request
  <2>1. SUFFICES ASSUME DOMAIN rows # {} PROVE First' = First /\ Row' = Row /\ Request' = Request
    OBVIOUS
  <2>2. First' = a /\ First = a /\ a <= n
    BY <1>7, <2>1
  <2>3. a \in 1..n /\ a # n + 1 /\ a \in a..(n + 1)
    BY <1>2, <2>2
  <2>4. rows'[a] = rows[a] /\ requests'[a] = requests[a]
    BY <1>2, <1>5, <1>6, <2>3
  <2>5. QED
    BY <2>2, <2>4 DEF Row, Request
<1>9. DOMAIN rows = {} => Row'.stage = "CREATE"
  <2>1. SUFFICES ASSUME DOMAIN rows = {} PROVE Row'.stage = "CREATE"
    OBVIOUS
  <2>2. DOMAIN rows' = {n + 1}
    BY <1>5, <2>1
  <2>3. a \in a..(n + 1)
    BY <1>2
  <2>4. First' = n + 1
    BY <1>5, <1>7, <2>2, <2>3
  <2>5. rows'[First'] = new
    BY <1>6, <2>2, <2>4
  <2>6. QED
    BY <1>3, <2>5 DEF Row
<1>10. DOMAIN rows' # {} /\ Harvested' = Harvested
  BY <1>5, <1>8, <1>9 DEF Harvested
<1>11. \A s \in DOMAIN rows : s # n + 1 /\ s \in 1..n
  BY <1>2, <1>4
<1>12. pc \in {"harvest", "flushed", "save"} => DOMAIN rows # {}
  BY DEF IInv, CopyFollows
<1>13. TypeOK'
  <2>1. \A s \in DOMAIN rows :
           rows[s] \in RowType /\ rows[s].currentIndex <= Len(requests[s].toHarvest)
    BY DEF Files, TypeOK
  <2>2. ASSUME NEW s \in DOMAIN rows'
        PROVE  rows'[s] \in RowType /\ rows'[s].currentIndex <= Len(requests'[s].toHarvest)
    <3>1. CASE s = n + 1
      BY <1>2, <1>3, <1>6, <3>1
    <3>2. CASE s \in DOMAIN rows
      BY <1>2, <1>6, <1>11, <2>1, <3>2
    <3>3. QED
      BY <1>5, <3>1, <3>2
  <2>3. DOMAIN rows' \subseteq DOMAIN requests' /\ DOMAIN s3' \subseteq DOMAIN requests'
    <3>1. DOMAIN s3 \subseteq 1..n
      BY <1>2 DEF Files, TypeOK
    <3>2. QED
      BY <1>1, <1>2, <1>4, <1>5, <3>1
  <2>4. QED
    BY <1>1, <1>2, <2>2, <2>3 DEF Files, TypeOK
<1>14. Position'
  <2>1. \A s \in DOMAIN rows' :
           rows'[s].stage = "CREATE" => rows'[s].currentIndex = 1 /\ rows'[s].lastId = 0
    BY <1>3, <1>5, <1>6, <1>11 DEF Files, Position
  <2>2. pc' \in {"harvest", "flushed", "save"} => job'.currentIndex <= Len(Request'.toHarvest)
    BY <1>1, <1>8, <1>12 DEF Files, Position
  <2>3. QED
    BY <2>1, <2>2 DEF Position
<1>15. FileOfRow'
  BY <1>1, <1>8, <1>9 DEF Files, FileOfRow, GrownNow
<1>16. FileOfCopy'
  BY <1>1, <1>8, <1>12 DEF Files, FileOfCopy, GrownNow
<1>17. AsSaved' /\ Fresh' /\ Signalled'
  BY <1>1, <1>8, <1>9, <1>12 DEF Files, AsSaved, Fresh, Signalled
<1>18. FilesDone'
  <2>1. Harvested \/ (pc = "save" /\ Row.stage = "HARVEST") =>
           DOMAIN rows # {} /\ \A f \in DOMAIN disk :
              Finished(disk[f], Request, owner, moved, curtailed \intersect {First})
    BY <1>12 DEF Files, FilesDone, FinishedNow, Harvested
  <2>2. QED
    BY <1>1, <1>8, <1>9, <1>10, <1>12, <2>1 DEF FilesDone, FinishedNow
<1>19. NothingPacked'
  BY <1>1, <1>10 DEF Files, NothingPacked
<1>20. DeliveredDone'
  <2>1. ASSUME NEW s \in DOMAIN s3'
        PROVE  /\ Shaped(s3'[s], requests'[s])
               /\ s \in DOMAIN rows' =>
                     /\ s = First' /\ Harvested'
                     /\ Finished(s3'[s], Request', owner', moved', curtailed' \intersect {First'})
    <3>1. s \in DOMAIN s3 /\ s \in 1..n /\ requests'[s] = requests[s] /\ s3'[s] = s3[s]
      BY <1>1, <1>2 DEF Files, TypeOK
    <3>2. s \in DOMAIN rows' => s \in DOMAIN rows
      <4>1. s # n + 1
        BY <1>2, <3>1
      <4>2. QED
        BY <1>5, <4>1
    <3>3. /\ Shaped(s3[s], requests[s])
          /\ s \in DOMAIN rows => s = First /\ Harvested /\
                Finished(s3[s], Request, owner, moved, curtailed \intersect {First})
      BY <3>1 DEF Files, DeliveredDone, FinishedNow
    <3>4. QED
      BY <1>1, <1>8, <1>10, <3>1, <3>2, <3>3
  <2>2. QED
    BY <2>1 DEF DeliveredDone, FinishedNow
<1>21. QED
  BY <1>13, <1>14, <1>15, <1>16, <1>17, <1>18, <1>19, <1>20 DEF Files

-----------------------------------------------------------------------------
(* The steps that touch no file                                            *)

LEMMA ChangeFiles ==
    ASSUME IInv, Files, NEW id \in Identifiers, NEW to \in Owners \union {Nobody},
           Change(id, to)
    PROVE  Files'
<1>1. /\ owner' = [owner EXCEPT ![id] = to] /\ moved' = moved \union {id}
      /\ UNCHANGED <<requests, rows, pc, job, terminated, disk, s3, old, curtailed>>
  BY DEF Change, queueVars, daemonVars, fileVars
<1>2. owner \in [Identifiers -> Owners \union {Nobody}]
  BY DEF Files, TypeOK
<1>3. TypeOK'
  BY <1>1, <1>2 DEF Files, TypeOK
<1>4. \A x \in Identifiers \ moved' : owner'[x] = owner[x]
  BY <1>1, <1>2
<1>5. pc \in {"harvest", "flushed"} /\ terminated' => First \in curtailed'
  BY <1>1 DEF Files, Signalled
<1>6. QED
  BY <1>1, <1>3, <1>4, <1>5, FilesFrame

LEMMA DaemonStopsFiles ==
    ASSUME IInv, Files, Terminate \/ Exit \/ Restart \/ Crash \/ UNCHANGED vars
    PROVE  Files'
<1>1. /\ UNCHANGED <<requests, rows, owner, disk, s3, old, moved>>
      /\ curtailed \subseteq curtailed'
  BY DEF Terminate, Exit, Restart, Crash, vars, queueVars, fileVars, daemonVars, history
<1>2. TypeOK'
  BY <1>1 DEF Files, TypeOK, Places, Terminate, Exit, Restart, Crash, vars, queueVars,
              fileVars, daemonVars, history
<1>3. \/ /\ UNCHANGED <<pc, job>>
         /\ pc \in {"harvest", "flushed"} /\ terminated' => First \in curtailed'
      \/ pc' \in {"fetch", "down"}
  BY DEF Files, Signalled, Terminate, Exit, Restart, Crash, vars, daemonVars, history
<1>4. QED
  BY <1>1, <1>2, <1>3, FilesFrame

LEMMA OutageFiles == IInv /\ Files /\ Outage => Files'
<1> SUFFICES ASSUME IInv, Files, Outage PROVE Files'
  OBVIOUS
<1>1. /\ pc' \in {"fetch", "down"} /\ pc' = pc /\ job' = job /\ old' = DOMAIN disk
      /\ UNCHANGED <<requests, rows, owner, disk, s3, terminated, moved, curtailed>>
  BY DEF Outage, queueVars, daemonVars
<1>2. TypeOK'
  BY <1>1 DEF Files, TypeOK
<1>3. QED
  BY <1>1, <1>2, FilesFrame

LEMMA InitFiles == Init => Files
<1> SUFFICES ASSUME Init PROVE Files
  OBVIOUS
<1>1. /\ requests = <<>> /\ rows = <<>> /\ owner \in [Identifiers -> Owners]
      /\ disk = <<>> /\ s3 = <<>> /\ old = {}
      /\ pc = "fetch" /\ job = NoJob /\ terminated = FALSE
  BY DEF Init
<1>2. DOMAIN rows = {} /\ DOMAIN disk = {} /\ DOMAIN s3 = {} /\ requests \in Seq(Requests)
  BY <1>1
<1>3. TypeOK
  BY <1>1, <1>2 DEF TypeOK, Places
<1>4. Position /\ FileOfRow /\ FileOfCopy /\ AsSaved /\ Fresh /\ Signalled
  BY <1>1, <1>2 DEF Position, FileOfRow, FileOfCopy, AsSaved, Fresh, Signalled
<1>5. FilesDone /\ NothingPacked /\ DeliveredDone
  BY <1>1, <1>2 DEF FilesDone, NothingPacked, DeliveredDone, Harvested
<1>6. QED
  BY <1>3, <1>4, <1>5 DEF Files

LEMMA StepKeepsFiles == IInv /\ Files /\ [Next]_vars => Files'
<1> SUFFICES ASSUME IInv, Files, [Next]_vars PROVE Files'
  OBVIOUS
<1>1. CASE \E request \in Requests : Enqueue(request)
  BY <1>1, EnqueueFiles
<1>2. CASE \E id \in Identifiers, to \in Owners \union {Nobody} : Change(id, to)
  BY <1>2, ChangeFiles
<1>3. CASE CreateFile \/ OpenFile \/ HarvestPage \/ SavePage \/ NextOwner \/ CloseFile
  BY <1>3, CreateFileFiles, OpenFileFiles, HarvestPageFiles, SavePageFiles, NextOwnerFiles,
     CloseFileFiles
<1>4. CASE CompressFile \/ DeleteUncompressedFile \/ MoveCompressedFile \/ NotifyRequestor
  BY <1>4, CompressFileFiles, DeleteUncompressedFileFiles, MoveCompressedFileFiles,
     NotifyRequestorFiles
<1>5. CASE SaveStage \/ RemoveExpiredFiles \/ StageFails
  BY <1>5, SaveStageFiles, RemoveExpiredFilesFiles, StageFailsFiles
<1>6. CASE Terminate \/ Exit \/ Restart \/ Crash \/ UNCHANGED vars
  BY <1>6, DaemonStopsFiles
<1>7. CASE Outage
  BY <1>7, OutageFiles
<1>8. QED
  BY <1>1, <1>2, <1>3, <1>4, <1>5, <1>6, <1>7 DEF Next, Daemon

LEMMA FilesAlways == Spec => [](IInv /\ Files)
<1>1. Init => IInv /\ Files
  BY InitHolds, InitFiles
<1>2. IInv /\ Files /\ [Next]_vars => IInv' /\ Files'
  BY StepKeepsInv, StepKeepsFiles
<1>3. QED
  BY <1>1, <1>2, PTL DEF Spec

-----------------------------------------------------------------------------
(* What a file holds                                                       *)

LEMMA FilesNotShort == IInv /\ Files => NotShort
<1> SUFFICES ASSUME IInv, Files, NEW s \in DOMAIN rows, s = First, rows[s].stage = "HARVEST"
             PROVE  "work" \in DOMAIN disk /\ Len(disk["work"]) >= rows[s].fileSize
  BY DEF NotShort
<1>1. DOMAIN rows # {} /\ Row = rows[s] /\ Row.stage = "HARVEST"
  BY DEF Row
<1>2. "work" \in DOMAIN disk /\ disk["work"] \in Seq(Entry) /\ Row.fileSize <= Len(disk["work"])
  BY <1>1 DEF Files, FileOfRow
<1>3. Row.fileSize \in Nat /\ Len(disk["work"]) \in Nat
  BY <1>1, <1>2, FirstRow, LenProperties DEF Files
<1>4. QED
  BY <1>1, <1>2, <1>3

LEMMA FilesWellFormed == IInv /\ Files => WellFormed
<1> SUFFICES ASSUME IInv, Files PROVE WellFormed
  OBVIOUS
<1>1. ASSUME NEW s \in DOMAIN s3
      PROVE  /\ \A i \in 1..Len(s3[s]) - 1 : Precedes(s3[s][i], s3[s][i + 1])
             /\ Range(s3[s]) \ Records(requests[s]) =
                   Range(Header(requests[s])) \union Range(Footer(requests[s]))
  <2> DEFINE c == s3[s]
  <2>1. Shaped(c, requests[s])
    BY DEF Files, DeliveredDone
  <2>2. c \in Seq(Entry) /\ Ordered(c)
    BY <2>1 DEF Shaped
  <2> HIDE DEF c
  <2>3. Len(c) \in Nat /\ DOMAIN c = 1..Len(c)
    BY <2>2, LenProperties
  <2>4. ASSUME NEW i \in 1..Len(c) - 1 PROVE Precedes(c[i], c[i + 1])
    <3>1. i \in DOMAIN c /\ i + 1 \in DOMAIN c /\ i < i + 1
      BY <2>3
    <3>2. QED
      BY <2>2, <3>1 DEF Ordered
  <2>5. QED
    BY <2>1, <2>4 DEF Shaped, c
<1>2. QED
  BY <1>1, FilesNotShort DEF WellFormed, Records

LEMMA FilesComplete == IInv /\ Files => CompleteUnlessCurtailed
<1> SUFFICES ASSUME IInv, Files, Harvested, First \notin curtailed, NEW content \in Copies
             PROVE  HasWhatIsAskedFor(content)
  BY DEF CompleteUnlessCurtailed
<1>1. DOMAIN rows # {} /\ First \in DOMAIN rows
  BY FirstRow DEF Harvested, Files
<1>2. FinishedNow(content)
  <2>1. CASE \E f \in DOMAIN disk : content = disk[f]
    BY <2>1 DEF Files, FilesDone
  <2>2. CASE First \in DOMAIN s3 /\ content = s3[First]
    BY <1>1, <2>2 DEF Files, DeliveredDone
  <2>3. QED
    BY <2>1, <2>2 DEF Copies
<1>3. curtailed \intersect {First} = {}
  OBVIOUS
<1>4. QED
  BY <1>2, <1>3 DEF FinishedNow, Finished, HasWhatIsAskedFor

-----------------------------------------------------------------------------
(* The theorems *)

\* No request leaves the queue before its requestor was told, and a requestor is
\* told only of a file that was delivered or whose upload failed: whatever the
\* requests, the pages, the crashes, signals, exceptions and expired files.
THEOREM ToldWhenDelivered == Spec => []AnnouncedWhenDelivered
<1>1. IInv => AnnouncedWhenDelivered
  BY DEF IInv
<1>2. QED
  BY InitHolds, StepKeepsInv, <1>1, PTL DEF Spec

\* Every variable keeps its type, and a row its place in the list of its owners.
THEOREM DownloadTyped == Spec => []TypeOK
<1>1. IInv /\ Files => TypeOK
  BY DEF Files
<1>2. QED
  BY FilesAlways, <1>1, PTL

\* A file is never behind its row (the assertion of _harvest), and what is delivered
\* has its header and footer once, each in its place, and between them no record
\* twice or out of order: whatever is written in part and written again, after any
\* crashes, signals, failures, expired files and changes of the identifiers.
THEOREM DownloadWellFormed == Spec => []WellFormed
  BY FilesAlways, FilesWellFormed, PTL

\* A file that was harvested without a signal has one record of every identifier that
\* is asked for and did not change meanwhile, however often the daemon crashed or a
\* stage failed, and so has the file that is delivered.
THEOREM DownloadComplete == Spec => []CompleteUnlessCurtailed
  BY FilesAlways, FilesComplete, PTL
=============================================================================
