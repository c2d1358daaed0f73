------------------------------ MODULE LinkChecker ------------------------------
(***************************************************************************)
(* The link checker (proc-link-checker.py, models/link_checker.py) and the *)
(* daemon that publishes its results (proc-link-checker-update.py):        *)
(*                                                                         *)
(*  - now and then the checker merges the identifiers into its own table   *)
(*    of links; in between it loads worksets, the links of every owner     *)
(*    that were checked longest ago, failing ones first, and works them    *)
(*    off in rounds with a number of threads, one link of an owner at a    *)
(*    time;                                                                *)
(*  - the other daemon goes through both tables page by page, compares its *)
(*    copies of the failures with its copies of the flag linkIsBroken of   *)
(*    the search database, and sets the flag where they differ.            *)
(*                                                                         *)
(* The search indexer saves whole rows of the search database; users edit  *)
(* identifiers, and an administrator the file of excluded owners.  Times   *)
(* of checks are kept as their order, and as the set of links that may be  *)
(* checked again.                                                          *)
(***************************************************************************)
EXTENDS Naturals, Sequences, SequencesExt, FiniteSets, FiniteSetsExt

CONSTANTS Identifiers,     \* 1..n, in the order of the tables
          Users, Workers,
          Offers,            \* the links an identifier may have: [owner, target]
          NoLink,            \* of an identifier that has no link to check
          NoRow,
          PageRows,          \* how many rows a harvest of either daemon reads at once
          MaxLinks,          \* LINKCHECKER_WORKSET_OWNER_MAX_LINKS
          Threshold,         \* LINKCHECKER_NOTIFICATION_THRESHOLD
          Flaky,             \* the identifiers whose link may fail
          Changing,          \* the identifiers that users change
          Excludable,        \* the users who may be excluded
          MaxEvents          \* bound on updates of identifiers, edits of the
                             \* exclusion file, restarts, signals and failures of
                             \* either daemon, and ends of a thread

ASSUME LinkAssumption ==
    /\ IsFiniteSet(Identifiers) /\ Identifiers # {}
    /\ Identifiers = 1..Cardinality(Identifiers)
    /\ DOMAIN Offers = Identifiers
    /\ \A i \in Identifiers : \A l \in Offers[i] : l.owner \in Users
    /\ \A i \in Identifiers : NoLink \notin Offers[i]
    /\ Users # {}
    /\ Flaky \subseteq Identifiers /\ Changing \subseteq Identifiers
    /\ Excludable \subseteq Users
    /\ PageRows \in Nat \ {0} /\ MaxLinks \in Nat \ {0} /\ Threshold \in Nat \ {0}
    /\ MaxEvents \in Nat

AllLinks == UNION Range(Offers)

\* What a row of the checker's table holds.
Rows == [link : AllLinks, failures : 0..Threshold]

ASSUME NoRowAssumption == NoRow \notin Rows

\* The database.
VARIABLES
    links,      \* SearchIdentifier: the link of every identifier, or NoLink
    broken,     \* SearchIdentifier.linkIsBroken
    table       \* LinkChecker: link and numFailures, or NoRow

\* LinkChecker.lastCheckTime, as an order.
VARIABLES
    checked,    \* the links that were checked, the one checked longest ago first
    due         \* those of them that were checked long enough ago

\* The checker.
VARIABLES
    main,       \* what its main thread does
    cursor,     \* the last identifier it has merged
    page,       \* its copies of the links to be merged next, by identifier
    firstRound, \* whether the round is the first since the merge
    stopNow,
    workset,    \* what is left of every owner's links
    locked,     \* the owners one of whose links is being checked
    worker      \* where each thread is, and with which owner

\* The update daemon.
VARIABLES
    flags,      \* its copies of a page of flags, as far as they are still to be set
                \* or compared, by identifier
    flagsRead,  \* the last identifier whose flag it has read, or 0 between passes
    failing,    \* of the rows of the checker's table that it has read, the ones with
                \* failures enough
    rowsRead,   \* the last identifier whose row it has read
    signalled   \* whether the daemon is to end

\* The others.
VARIABLES
    file,       \* the exclusion file
    stale,      \* the search indexer's copy of a flag: a pair, or <<>>
    events      \* how many such events there were

\* What happened, for the properties.
VARIABLES
    seen,       \* the target of a link that was checked last, and how often it failed
                \* in a row
    worthy      \* the identifiers whose target had failed often enough when the
                \* update daemon read the row

database == <<links, broken, table>>
times    == <<checked, due>>
round    == <<firstRound, stopNow, workset, locked, worker>>
checker  == <<main, cursor, page, round>>
pass     == <<flags, flagsRead, failing, rowsRead, signalled>>
others   == <<file, stale>>
history  == <<seen, worthy>>
vars     == <<database, times, checker, pass, others, events, history>>

Exclusion == {"none", "permanent", "temporary"}

Anybody == CHOOSE u \in Users : TRUE

Ended == [at |-> "ended", user |-> Anybody]

Idle == [at |-> "next", user |-> Anybody]

Visited(i) == i \in Range(checked)

LastId == Cardinality(Identifiers)

\* Of the identifiers S the ones that a query of one page returns.
FirstPage(S) == {i \in S : Cardinality({j \in S : j < i}) < PageRows}

Init ==
    /\ links \in {f \in [Identifiers -> AllLinks] :
                     \A i \in Identifiers : f[i] \in Offers[i]}
    /\ broken = [i \in Identifiers |-> FALSE]
    /\ table = [i \in Identifiers |-> NoRow]
    /\ checked = <<>> /\ due = {}
    /\ main = "merge" /\ cursor = 0 /\ page = <<>>
    /\ firstRound = TRUE  /\ stopNow = FALSE
    /\ workset = [u \in Users |-> <<>>] /\ locked = {}
    /\ worker = [w \in Workers |-> Ended]
    /\ flags = <<>> /\ flagsRead = 0 /\ failing = {} /\ rowsRead = 0 /\ signalled = FALSE
    /\ file = [u \in Users |-> "none"] /\ stale = <<>>
    /\ events = 0
    /\ seen = [i \in Identifiers |-> [target |-> NoLink, failures |-> 0]]
    /\ worthy = {}

-----------------------------------------------------------------------------
(* The checker's main thread *)

\* What the identifiers' harvest yields of an identifier with link l.
Wanted(l) == IF l # NoLink /\ file[l.owner] # "permanent" THEN l ELSE NoLink

\* Whether the table has the link.
Has(i, l) == IF table[i] = NoRow THEN l = NoLink ELSE table[i].link = l

Without(s, i) == SelectSeq(s, LAMBDA j : j # i)

\* clearHistory, or a new row: the link was never checked.
Forget(i) == checked' = Without(checked, i) /\ due' = due \ {i}

\* Mutant: the failures of the old target are kept.
MergeKeepingFailures(i, l) ==
    \/ /\ ~Has(i, l)
       /\ table' = [table EXCEPT ![i] =
             IF l = NoLink THEN NoRow
             ELSE [link |-> l, failures |-> IF table[i] = NoRow THEN 0 ELSE table[i].failures]]
       /\ Forget(i)
    \/ /\ Has(i, l)
       /\ UNCHANGED <<table, times>>

\* One step of updateDatabaseTable: a row of a link that is gone is deleted, one
\* of a new link inserted, one of a link that has changed cleared.
Merge(i, l) ==
    \/ /\ ~Has(i, l)
       /\ table' = [table EXCEPT ![i] = IF l = NoLink THEN NoRow ELSE [link |-> l, failures |-> 0]]
       /\ Forget(i)
    \/ /\ Has(i, l)
       /\ UNCHANGED <<table, times>>

\* What is left of the page, or the next one.
Page ==
    IF cursor + 1 \in DOMAIN page THEN page
    ELSE [i \in FirstPage(cursor+1..LastId) |-> links[i]]

\* updateDatabaseTable.  Both harvests read pages in the order of identifiers, and
\* the links may be other ones by the time they are merged; nobody else writes the
\* rows meanwhile.  The exclusion file is looked at before the first page.
UpdateTable ==
    /\ main = "merge"
    /\ Merge(cursor + 1, Wanted(Page[cursor + 1]))
    /\ page' = Restrict(Page, DOMAIN Page \ {cursor + 1})
    /\ cursor' = IF cursor + 1 < LastId THEN cursor + 1 ELSE 0
    /\ IF cursor' = 0
         THEN main' = "load" /\ firstRound' = TRUE
         ELSE UNCHANGED <<main, firstRound>>
    /\ UNCHANGED <<links, broken, stopNow, workset, locked, worker, pass, others, events, history>>

RowsOf(u) == {i \in Identifiers : table[i] # NoRow /\ table[i].link.owner = u}

Failing(u) == {i \in RowsOf(u) : table[i].failures > 0}

\* Links whose last check is older than the interval for their kind.  One that
\* was never checked has the time 0.
Waiting(u) == {i \in RowsOf(u) : ~Visited(i) \/ i \in due}

Earlier(i, j) ==
    LET At(k) == IF Visited(k) THEN CHOOSE n \in DOMAIN checked : checked[n] = k ELSE 0
    IN  At(i) < At(j)

\* Mutant: the link that was checked last goes first.
LatestFirst(S) ==
    {s \in SetToSeqs(S) : \A m, n \in DOMAIN s : m < n => ~Earlier(s[m], s[n])}

\* order_by("lastCheckTime"): links that were never checked come in any order.
ByCheckTime(S) ==
    {s \in SetToSeqs(S) : \A m, n \in DOMAIN s : m < n => ~Earlier(s[n], s[m])}

Limited(s) == SubSeq(s, 1, Min({MaxLinks, Len(s)}))

\* The worksets an owner may get: failing links, and others if there is room.
Load(u) ==
    IF file[u] # "none" THEN {<<>>}
    ELSE {Limited(bad \o good) : bad \in ByCheckTime(Waiting(u) \intersect Failing(u)),
                                 good \in ByCheckTime(Waiting(u) \ Failing(u))}

\* loadWorkset, and the start of the threads unless there is nothing to check.
LoadWorkset ==
    /\ main = "load"
    /\ workset' \in {f \in [Users -> UNION {Load(u) : u \in Users}] :
                        \A u \in Users : f[u] \in Load(u)}
    /\ locked' = {}
    /\ stopNow' = FALSE
    /\ main' = "join"
    /\ worker' = [w \in Workers |->
                    IF \A u \in Users : workset'[u] = <<>> THEN Ended
                    ELSE Idle]
    /\ UNCHANGED <<database, times, cursor, page, firstRound, pass, others, events, history>>

\* A join that times out: the threads are told to stop.  The first round of a
\* cycle has no time-out.
StopRound ==
    /\ main = "join"
    /\ ~firstRound /\ ~stopNow
    /\ stopNow' = TRUE
    /\ UNCHANGED <<database, times, main, cursor, page, firstRound, workset, locked,
                   worker, pass, others, events, history>>

\* All threads are joined: the next round, or the next merge when
\* LINKCHECKER_TABLE_UPDATE_CYCLE has passed since the last.
EndRound(next) ==
    /\ main = "join"
    /\ \A w \in Workers : worker[w].at = "ended"
    /\ firstRound' = FALSE
    /\ main' = next
    /\ UNCHANGED <<database, times, cursor, page, stopNow, workset, locked, worker,
                   pass, others, events, history>>

\* The re-check interval of a link has passed.
WindowElapses(i) ==
    /\ Visited(i) /\ i \notin due
    /\ due' = due \union {i}
    /\ UNCHANGED <<database, checked, checker, pass, others, events, history>>

-----------------------------------------------------------------------------
(* Its threads *)

Unfinished == {u \in Users : workset[u] # <<>>}

\* Mutant: another thread's owner is not skipped.
FreeUnchecked == Unfinished

\* The owners getNextLink may choose.  The threads go round the owners and keep
\* an interval between two links of one owner: which is next is left open.
\* isFinished is meant to skip an owner who was excluded meanwhile, but the
\* OwnerWorkset, being a Command too, has empty lists of its own; so the exclusion
\* file, which getNextLink looks at too, makes a difference at the next load only.
Free == Unfinished \ locked

\* getNextLink, of a thread that is not told to stop: a link, or the end if all
\* owners are finished.  Otherwise the thread sleeps and tries again.
GetNextLink(w) ==
    /\ worker[w].at = "next"
    /\ \/ /\ ~stopNow
          /\ \E u \in Free :
                /\ locked' = locked \union {u}
                /\ worker' = [worker EXCEPT ![w] = [at |-> "visit", user |-> u]]
       \/ /\ stopNow \/ Unfinished = {}
          /\ worker' = [worker EXCEPT ![w] = Ended]
          /\ UNCHANGED locked
    /\ UNCHANGED <<database, times, main, cursor, page, firstRound, stopNow, workset,
                   pass, others, events, history>>

Capped(n) == Min({n, Threshold})

Link(w) == Head(workset[worker[w].user])

\* markLinkChecked
markLinkChecked(w) ==
    /\ workset' = [workset EXCEPT ![worker[w].user] = Tail(@)]
    /\ locked' = locked \ {worker[w].user}

\* The rest of worker's loop: the GET, checkSucceeded or checkFailed, the save of
\* the row, and the mark.  Nobody else looks at the row or the owner meanwhile.
Visit(w) ==
    LET i == Link(w)
        target == table[i].link.target
    IN  /\ worker[w].at = "visit"
        /\ \E good \in BOOLEAN :
              /\ good \/ i \in Flaky
              /\ table' = [table EXCEPT ![i].failures = IF good THEN 0 ELSE Capped(@ + 1)]
              /\ seen' = [seen EXCEPT ![i] =
                    [target |-> target,
                     failures |-> IF good THEN 0
                                  ELSE IF @.target = target THEN Capped(@.failures + 1) ELSE 1]]
        /\ checked' = Append(Without(checked, i), i)
        /\ due' = due \ {i}
        /\ markLinkChecked(w)
        /\ worker' = [worker EXCEPT ![w] = Idle]
        /\ UNCHANGED <<links, broken, main, cursor, page, firstRound, stopNow,
                       pass, others, events, worthy>>

\* An exception outside of the inner try ends the thread, and the owner stays
\* locked: an HTML page that comes incomplete raises one, a TypeError of
\* re.search, in the handler of IncompleteRead.
Die(w) ==
    /\ events < MaxEvents
    /\ worker[w].at = "visit"
    /\ worker' = [worker EXCEPT ![w] = Ended]
    /\ events' = events + 1
    /\ UNCHANGED <<database, times, main, cursor, page, firstRound, stopNow, workset,
                   locked, pass, others, history>>

-----------------------------------------------------------------------------
(* A restart of the checker *)

\* Run begins anew.  A signal in the middle of the merge ends the identifiers'
\* harvest at the end of its page, and the loop goes on to delete what is left of
\* the other harvest's page, however far that goes, before the process ends.
Restart ==
    /\ events < MaxEvents
    /\ events' = events + 1
    /\ main' = "merge" /\ cursor' = 0 /\ page' = <<>>
    /\ firstRound' = TRUE /\ stopNow' = FALSE
    /\ workset' = [u \in Users |-> <<>>] /\ locked' = {}
    /\ worker' = [w \in Workers |-> Ended]
    /\ \E last \in Identifiers \union {0} :
          /\ last > 0 => main = "merge" /\ page = <<>> /\ cursor < last
          /\ table' = [i \in Identifiers |-> IF i \in cursor+1..last THEN NoRow ELSE table[i]]
          /\ checked' = SelectSeq(checked, LAMBDA i : i \notin cursor+1..last)
          /\ due' = due \ (cursor+1..last)
    /\ UNCHANGED <<links, broken, pass, others, history>>

-----------------------------------------------------------------------------
(* The update daemon *)

\* What its harvest of the checker's table lets through.
Broken(i) == table[i] # NoRow /\ table[i].failures >= Threshold

\* The identifiers that it has come to in that harvest: it knows the next row with
\* failures enough, or that there is none.
Compared(rows, last) == {i \in Identifiers : last = LastId \/ \E j \in rows : i <= j}

\* It goes on to the next of its copies that is wrong, or that it has nothing to
\* compare with yet; after the last flag the pass is over.
GoOn(copies, read, rows, last) ==
    LET left == {i \in DOMAIN copies :
                    i \in Compared(rows, last) => copies[i] # (i \in rows)}
    IN  /\ flags' = Restrict(copies, left)
        /\ IF left = {} /\ (signalled \/ read = LastId)
             THEN flagsRead' = 0 /\ failing' = {} /\ rowsRead' = 0 /\ signalled' = FALSE
             ELSE /\ flagsRead' = read /\ failing' = rows /\ rowsRead' = last
                  /\ UNCHANGED signalled

\* History: it has just read these rows of the checker's table.
Judge(rows) ==
    worthy' = IF flagsRead' = 0 THEN {}
              ELSE worthy \union {i \in rows : seen[i].failures >= Threshold}

\* The flags that it has found wrong.
Wrong == DOMAIN flags \intersect Compared(failing, rowsRead)

\* _harvest, of the flags: the first page is the beginning of a pass.
ReadFlags ==
    /\ flags = <<>>
    /\ LET next == FirstPage(flagsRead+1..LastId)
       IN  \E last \in next :
              /\ next \subseteq 1..last
              /\ GoOn([i \in next |-> broken[i]], last, failing, rowsRead)
    /\ Judge({})
    /\ UNCHANGED <<database, times, checker, others, events, seen>>

\* The next page of the checker's table.  After a signal there is none.
NextRows ==
    IF signalled THEN {} ELSE FirstPage({i \in rowsRead+1..LastId : table[i] # NoRow})

\* _harvest, of the failures.  After its end the daemon takes the other identifiers
\* for ones without failures.
ReadRows ==
    /\ flagsRead # 0 /\ rowsRead # LastId
    /\ \A j \in failing : j <= flagsRead /\ \A i \in Wrong : j <= i
    /\ \/ /\ NextRows = {}
          /\ GoOn(flags, flagsRead, failing, LastId)
       \/ \E last \in NextRows :
             /\ NextRows \subseteq 1..last
             /\ GoOn(flags, flagsRead, failing \union {i \in NextRows : Broken(i)}, last)
    /\ Judge(NextRows)
    /\ UNCHANGED <<database, times, checker, others, events, seen>>

\* Mutant: a flag is only ever raised.
SetFlagRaising ==
    /\ Wrong # {}
    /\ LET i == Min(Wrong)
       IN  /\ broken' = [broken EXCEPT ![i] = @ \/ i \in failing]
           /\ GoOn(Restrict(flags, DOMAIN flags \ {i}), flagsRead, failing, rowsRead)
    /\ Judge({})
    /\ UNCHANGED <<links, table, times, checker, others, events, seen>>

\* The transaction: neither the flag nor the failures are looked at again.
SetFlag ==
    /\ Wrong # {}
    /\ LET i == Min(Wrong)
       IN  /\ broken' = [broken EXCEPT ![i] = i \in failing]
           /\ GoOn(Restrict(flags, DOMAIN flags \ {i}), flagsRead, failing, rowsRead)
    /\ Judge({})
    /\ UNCHANGED <<links, table, times, checker, others, events, seen>>

\* OpenSearch refuses: the transaction is rolled back, and the pass goes on.
Refuse ==
    /\ events < MaxEvents
    /\ Wrong # {}
    /\ GoOn(Restrict(flags, DOMAIN flags \ {Min(Wrong)}), flagsRead, failing, rowsRead)
    /\ Judge({})
    /\ events' = events + 1
    /\ UNCHANGED <<database, times, checker, others, seen>>

\* A signal in the middle of a page of flags: the page is worked off first.
Signal ==
    /\ events < MaxEvents
    /\ flags # <<>> /\ ~signalled
    /\ signalled' = TRUE
    /\ events' = events + 1
    /\ UNCHANGED <<database, times, checker, flags, flagsRead, failing, rowsRead, others,
                   history>>

\* An exception, the death of the process, or a signal between two pages.
Abandon ==
    /\ events < MaxEvents
    /\ flagsRead # 0
    /\ flags' = <<>> /\ flagsRead' = 0 /\ failing' = {} /\ rowsRead' = 0
    /\ signalled' = FALSE /\ worthy' = {}
    /\ events' = events + 1
    /\ UNCHANGED <<database, times, checker, others, seen>>

-----------------------------------------------------------------------------
(* Users, the search indexer, and the administrator *)

\* An identifier was updated: the search indexer reads its row.
IndexerReads(i) ==
    /\ events < MaxEvents
    /\ stale = <<>>
    /\ stale' = <<i, broken[i]>>
    /\ events' = events + 1
    /\ UNCHANGED <<database, times, checker, pass, file, history>>

\* ... and saves the whole of it, with another link or without one.
IndexerSaves ==
    /\ stale # <<>>
    /\ \E l \in Offers[stale[1]] \union {NoLink} : links' = [links EXCEPT ![stale[1]] = l]
    /\ broken' = [broken EXCEPT ![stale[1]] = stale[2]]
    /\ stale' = <<>>
    /\ UNCHANGED <<table, times, checker, pass, file, events, history>>

\* loadExclusionFile looks at the file before a merge and before a workset is
\* loaded: an edit makes a difference there, whenever it was.  That it looks at most
\* every ten seconds is left out.
EditFile(u) ==
    /\ events < MaxEvents
    /\ main # "join" /\ cursor = 0
    /\ events' = events + 1
    /\ \E x \in Exclusion \ {file[u]} : file' = [file EXCEPT ![u] = x]
    /\ UNCHANGED <<database, times, checker, pass, stale, history>>

-----------------------------------------------------------------------------
Main == UpdateTable \/ LoadWorkset \/ \E next \in {"load", "merge"} : EndRound(next)

Worker(w) == GetNextLink(w) \/ Visit(w)

Checker == Main \/ \E w \in Workers : Worker(w)

Updater == ReadFlags \/ ReadRows \/ SetFlag

Next ==
    \/ Checker
    \/ StopRound
    \/ \E i \in Identifiers : WindowElapses(i)
    \/ \E w \in Workers : Die(w)
    \/ Restart
    \/ Updater
    \/ Refuse \/ Signal \/ Abandon
    \/ \E i \in Changing : IndexerReads(i)
    \/ IndexerSaves
    \/ \E u \in Excludable : EditFile(u)

\* The checker and the update daemon loop for ever, a GET has a time-out, time
\* passes, and OpenSearch does not refuse for ever.  Nothing else has to happen.
Fairness ==
    /\ WF_vars(Checker)
    /\ SF_vars(EndRound("merge"))
    /\ \A i \in Identifiers : WF_vars(WindowElapses(i))
    /\ WF_vars(Updater)
    /\ WF_vars(IndexerSaves)

Spec == Init /\ [][Next]_vars /\ Fairness
-----------------------------------------------------------------------------
(* Properties *)

\* The variables have the types of the code's.
Typed ==
    /\ links \in [Identifiers -> AllLinks \union {NoLink}]
    /\ broken \in [Identifiers -> BOOLEAN]
    /\ table \in [Identifiers -> Rows \union {NoRow}]
    /\ main \in {"merge", "load", "join"} /\ cursor \in 0..LastId - 1
    /\ \A i \in DOMAIN page : page[i] \in AllLinks \union {NoLink}
    /\ firstRound \in BOOLEAN /\ stopNow \in BOOLEAN
    /\ workset \in [Users -> Seq(Identifiers)] /\ locked \subseteq Users
    /\ worker \in [Workers -> [at : {"next", "visit", "ended"}, user : Users]]
    /\ DOMAIN flags \subseteq Identifiers /\ \A i \in DOMAIN flags : flags[i] \in BOOLEAN
    /\ flagsRead \in 0..LastId /\ failing \subseteq Identifiers
    /\ rowsRead \in 0..LastId /\ signalled \in BOOLEAN
    /\ file \in [Users -> Exclusion]
    /\ stale \in (Identifiers \X BOOLEAN) \union {<<>>}
    /\ events \in 0..MaxEvents
    /\ seen \in [Identifiers -> [target : {l.target : l \in AllLinks} \union {NoLink},
                                 failures : 0..Threshold]]
    /\ worthy \subseteq Identifiers

\* ... and only rows have been checked, none of them twice.
TypeOK ==
    /\ Typed
    /\ \A i \in Range(checked) : table[i] # NoRow
    /\ IsInjective(checked) /\ due \subseteq Range(checked)

\* "visit one URL from each owner, then repeat the cycle, so as to dilute the
\* burden on external servers": no two threads visit links of one owner, and
\* every link they visit is one that the table still has for that owner.
OneVisitorPerOwner ==
    \A w \in Workers : worker[w].at = "visit" =>
        /\ Link(w) \in RowsOf(worker[w].user)
        /\ \A v \in Workers \ {w} :
              worker[v].at = "visit" => worker[v].user # worker[w].user

\* "Only after a target URL consecutively fails some number of checks is it
\* considered notification-worthy": a flag is to be raised only for an identifier
\* whose target, when the daemon read its row, had failed that often in a row,
\* whatever the table went through.  By the time the flag is set the link may have
\* been found good again, or have changed; that is taken back in a later pass.  (The
\* search indexer may restore a flag from its copy.)
RaisedAfterThreshold ==
    [][ \A i \in Identifiers :
          ~broken[i] /\ broken'[i] /\ stale' = stale => i \in worthy ]_vars

Neglected(i) == table[i] # NoRow /\ i \in Waiting(table[i].link.owner)

\* The owner is not excluded, and the owner's other failing links leave room in
\* the workset.
Room(i) ==
    table[i] # NoRow =>
        LET u == table[i].link.owner
        IN  /\ Cardinality((Waiting(u) \intersect Failing(u)) \ {i}) < MaxLinks
            /\ file[u] = "none"

NobodyDied == \A u \in locked : \E w \in Workers : worker[w] = [at |-> "visit", user |-> u]

\* "all target URLs will eventually be checked": a link that is due does not stay
\* so, through the limit on worksets, rounds that are cut short, restarts and
\* merges, while there is room for it and no thread has died.
EveryLinkChecked ==
    \A i \in Identifiers : []<>(NobodyDied /\ Room(i) => ~Neglected(i))

\* What the search database says of a link is, again and again, what the checker
\* found, in spite of failures of OpenSearch and of the search indexer's older copies.
FlagFollows ==
    \A i \in Identifiers : []<>(broken[i] = Broken(i))
=============================================================================
