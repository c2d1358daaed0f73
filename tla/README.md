# A TLA+ verification project for EZID

EZID registers long-term identifiers (ARKs and DOIs), keeps their metadata and
passes it on: to a search index, to Crossref and to DataCite.  This directory
holds TLA+ modules of the parts of EZID in which several threads, several
processes or several failures meet, the TLC configurations that check them on
small instances, and theorems about them checked by TLAPS.

`PROJECT.json` lists, for every definition, the source lines it models; for
every property, a mutant of a definition that breaks it; the hazards of the
code with the properties that cover them; the findings; the theorems.

## 1. The system

EZID is a Django application.  One WSGI process with 50 threads serves the web
(`ansible/templates/etc/httpd/conf.d/03-ezid-nossl.conf.j2`); every daemon is a
management command that runs as a process of its own
(`src/ezidapp/management/commands/proc-*.py`).  They share a MySQL database and
no memory.

```
  web requests                                    daemons (one process each)
  ------------                                    --------------------------
  api.py, ui_*.py                                 proc-expunge ---------+
       |                                                                |
  ezid.py  --- identifier lock (memory)           proc-crossref ----+   |
       |  \                                         ^       setMetadata |
       |   ezid_minter.py --> table Minter          |               |   |
       v                                            |               v   v
  one transaction: table Identifier + RefIdentifier + the queue tables
                                             |            |        |
                                             v            v        v
                              SearchIndexerQueue  CrossrefQueue  DataciteQueue
                                      |                 |              |
                          proc-search-indexer    proc-crossref  proc-datacite
                                      |                 |              |
                    table SearchIdentifier          Crossref       DataCite
                    + OpenSearch   |   \
                                   |    proc-link-checker -> table LinkChecker
                                   |          -> proc-link-checker-update
                              oai.py, proc-download, search pages
                 proc-cleanup-async-queues removes what is done
       user-move, group-move, admin.py, ui_account.py edit users and groups
```

### Components

| Component | State | Operations | What is hard | What makes it correct |
|---|---|---|---|---|
| Identifier lock (`impl/ezid.py` 36-119, `impl/api.py` pause) | `_lockedIdentifiers`, `_activeUsers`, `_waitingUsers`, `_paused`, a `threading.Condition` | acquire, release, mint's nested acquire, pause, unpause, idlewait | one condition variable for three reasons to wait; throttles tested only while waiting; two locks per mint | mutual exclusion, exact counts, no lost wakeup, no deadlock |
| Identifier table (`impl/ezid.py` 218-524, `models/identifier.py`, `impl/enqueue.py`) | a row of `Identifier`; the queues | create, update, delete, create-or-update | read, change a copy, save all of it; other processes do the same without the lock; transactions that fail | requests are atomic; the queues say what the table says |
| Minter (`impl/nog_sql/ezid_minter.py`) | a row of `Minter`: mask, total, counters | create, mint, extend template | arithmetic at boundaries reached after thousands of mints | every string once, never stuck |
| Queues (`models/async_queue.py`, `impl/enqueue.py`, `proc_base.py`, `proc-cleanup-async-queues.py`, `update-async-queue-for-delete.py`) | queue tables, `RefIdentifier` snapshots, each daemon's batch | enqueue, batch, save status, clean up, mark by hand | copies older than the rows, crash between operation and status, order | nothing lost, nothing starved, order |
| Search indexer (`proc-search-indexer.py`, `impl/open_search_doc.py`) | `SearchIdentifier`, OpenSearch | create/update, delete, compensation, retry | two stores, one transaction; time-outs that acted | the stores agree; search shows the newest state |
| Crossref daemon (`proc-crossref.py`) | statuses U, C, S and end states of its queue | submit, poll, record the outcome | a poll's answer may be older than the identifier | an outcome belongs to the newest deposit |
| DataCite daemon (`proc-datacite.py`) | its queue | upload, set target, deactivate | three calls per task, any may fail | published, or withdrawn, as EZID says |
| Download (`proc-download.py`, `impl/download.py`) | request with stage, position and file size | harvest, compress, move, notify | restart at any point; termination inside a harvest | a file is complete or is not delivered |
| Link checker (`proc-link-checker*.py`) | worksets, table `LinkChecker` | load, get next, mark, merge | worker threads, owners' locks, long merges | every link is checked again; no owner starves |
| Expunge (`proc-expunge.py`, `proc-expunge_v2.py`) | none | delete expired test identifiers | deletes beside the lock | what it deletes stays deleted |
| Policy (`impl/policy.py`) | none | authorizeView, Create, Update, Delete, OwnershipChange, Download | proxies of proxies; five rules that read different copies of who belongs where | the rules agree with each other |
| Users, groups, realms (`models/user.py`, `group.py`, `admin.py`, `ui_account.py`, `user-move.py`, `group-move.py`) | `User`, `Group`, their shoulders and proxies; `owner` and `ownergroup` of every identifier | forms, account page, moves | the same fact is stored in several rows; a move goes page by page beside the server | the copies agree; nothing is left behind |
| OAI (`impl/oai.py`) | resumption tokens | harvest | a table that changes between requests; times that repeat | nothing skipped |
| Resolver (`impl/resolver.py`) | none | find_record | longest prefix | a pure function |
| Mapping, validation, UI, search queries, statistics, news feed | - | conversions, pages, reports | - | not modelled, see section 8 |

## 2. Plan and modules

In the order of importance.

1. `ThrottledMutex` (what the lock promises), `IdentifierLock` (the lock),
   `IdentifierLockProofs`.
2. `IdentifierRow` (operators on one row), `AtomicTable` (what the operations
   promise), `IdentifierTable` (web requests, Crossref and expunge daemons),
   `IdentifierTableProofs`.
3. `Minter`, `Minting` (the requests that mint, over `Minter`), `MinterProofs`.
4. `AsyncQueue` (the table, the loop, the cleanup: actions for any daemon's
   module to extend), `SearchIndexer` (extends it).
5. `Download` (the queue of requests and the daemon that serves them),
   `DownloadProofs`.
6. `CrossrefDaemon` and `DataciteDaemon`, two sets of actions over one
   `AsyncQueue`, and `Agencies`, which runs either of them; `QueueProofs`, about
   `SearchIndexer` and `Agencies`, which share the queue's lemmas.
7. `LinkChecker` (the checker, its threads, the update daemon and the indexer),
   `LinkCheckerProofs`.
8. `Policy` (the rules as operators), `Accounts` (the records, the edits, the
   moves and the requests that meet them), `AccountsProofs`.
9. `OaiHarvest`, `OaiProofs`.

Left: the cleanup's window of dates in `AsyncQueue`; the transaction of
`deleteIdentifier` split at its row lock; the
resolver against a reference definition; creation and deletion of users and
groups.  Every safety property that a passing run checks is a theorem (section 7);
a further theorem would be about one of these, or an abstract queue that
`AsyncQueue` implements whatever its daemon does.

## 3. Correspondence with the code

**IdentifierLock.** A *request* is a thread of the server from its first acquire
to its answer.  Python's Condition is held everywhere except inside `wait()`, so
one pass through the loop of `_acquireIdentifierLock` is an action: `Acquire` is
the first pass, `Resume` a later one.  `pc` says where the thread is: `blocked`
is in `wait()`, `awake` has been notified and has not run yet.  `held` is what
the finally clauses will release.  A mint first takes
`<shoulder>.shoulder_lock` under the key `<user>.shoulder_lock` (`StartMint`),
then the identifier under the user's key (`CreateMinted`), and releases both
(`FinishOperation`, `FinishMint`).  `FinishMint` from `working` is a mint that
fails before its create.  `Pause`, `Unpause`, `StartIdleWait` and
`FinishIdleWait` are the administrator's requests.

**IdentifierTable.** One identifier, the DOI of a Crossref shoulder, because
that has all of the statuses.  `row` is its row or `NoRow`, `pk` its key
(Django's `save()` is an INSERT or an UPDATE depending on the copy's key, and an
UPDATE that finds nothing becomes an INSERT: `Insertable`, `SaveRow`).  A
request is `PrepareCreate` or `ReadRow` (everything before the transaction, on a
copy) and then `SaveRow`, `SaveCollides` or `DeleteRow` (the transaction, which
includes `enqueue`), or `TransactionFails`.  The identifier lock is the guard of
`Begin`: nobody of the same process is in progress.  The Crossref daemon's
requests are `DaemonRequests`; its lock excludes only itself.  The expunge command takes none:
`ReadBatch` is its query of a batch, and `DeleteRow`, with the copy, the transaction of
one identifier of it.  Metadata is a
sequence of elements because `updateFromUntrustedLegacy` reads the row as the
earlier elements left it.  The authorisation checks are three kinds of people;
targets stand for all the elements without rules of their own.  `AtomicTable`
knows nothing of them: what an operation makes of a row (`Created`, `Updated`) and
who may do it (`Authorized`, `MayDelete`) are its constants, for which
`IdentifierTable` gives the operators of `IdentifierRow`.

**Minter.** `minter` is the row, `Mint` one mint with its transaction and row
lock.  `Step` is `_next_state`, `Extended` is `_extend_template`, `xdigs` is
`_get_xdig_str`.  The pseudo-random choice of a counter is a free choice.  The
final `k` of a mask and the check character are left out: they add nothing to
what distinguishes two identifiers.

**Minting.** A request mints (`MintId`, or `MintIdCommitLost` where the
transaction fails after `mint_by_prefix` has yielded), looks whether the
identifier exists (`Checked`, the assertion of `_mintIdentifier`) and creates it
(`Create`).  `CreateByHand` stands for every creation that the minter does not
know of, by another shoulder with the same namespace included.  The requests
are those of several processes (the command `shoulder-mint` is one), since the
shoulder lock lets only one of the server's through.

**AsyncQueue, SearchIndexer.** `tasks[s]` is the task with `seq` s and also its
snapshot; `queue` the rows that exist with their statuses, `refs` the snapshots
that exist.  `batch` holds the daemon's copies, newest first as in
`order_by("-seq")`.  For one task the daemon goes through `stage`: `ready`;
`written` after OpenSearch has answered; then `Commit`; `undo` where the database
failed; `done` or `failed`; `Settle` is `task_model.save()`.  `Call` has the
three fates of a call to OpenSearch: it acts and answers, it acts and fails, it
fails.  `SaveTask` puts a row back that was deleted meanwhile, as Django does,
and ends the daemon where the foreign key forbids it.  The cleanup is `FindDone`,
`DeleteDone` and `DeleteRef`, each a transaction of the code.

**CrossrefDaemon, DataciteDaemon, Agencies.** The actions of both daemons over
the same queue; `AgenciesInit` chooses which of them the run follows.  Crossref: `submit`
sends the deposit and saves the row (`Submit`; a deposit may be lost, because
the failure of `_submitDeposit` is ignored), Crossref processes it
(`CrossrefProcesses`), and a poll first writes the outcome into the identifier
(`Poll`, `Tell`) and then saves the row (`CrossrefSettle`).  DataCite: upload,
target, early save and deactivation are steps of one task (`progress`), each of
which may fail after its last attempt; the attempts of one call are one action.
`CrossrefCrash` and `DataciteCrash` lose the batch and the progress, and nothing
else.

**LinkChecker.** `database` holds the rows of table `LinkChecker` and what the
identifiers say, `workset` the owners' worksets in memory.  `UpdateTable` and
`Merge` are the two harvests of `updateDatabaseTable`: `page` holds the links of
the identifiers as a page of them was read, and the merge compares these with the
rows of the checker's table.  `LoadWorkset` is the choice of an owner's links,
`GetNextLink` and `Visit` a worker's turn, `Die` a worker that ends with an
exception.  `EndRound` and `StopRound` are `check_all`.

The update daemon reads both tables in pages, too, and its decisions come from what
it read: `flags` has the flags of the present page that it has not yet compared or
has found wrong, up to the identifier `flagsRead`; `failing` are the identifiers at
the threshold among the rows read so far, up to `rowsRead`.  `ReadFlags` and `ReadRows`
read the next page of either; `SetFlag` writes a decision some time later and looks
at neither table again; `Refuse` is the transaction that OpenSearch makes fail,
`Abandon` the end of the process or an exception.  `Signal` ends both harvests: the
page of flags is worked off with no more failures than were read (`NextRows`).  The
search indexer's read and save of the row the flag lies in are `IndexerReads` and
`IndexerSaves`.  `seen` and `worthy` are history: the failures of an identifier's
present target in a row, and the identifiers whose rows deserved their flag when the
update daemon read them.

**Policy, Accounts.** `Policy` has the records of users and groups as constants
of its operators, so that `Accounts` can apply the rules to the present records.
The set `answers` is what a circle of proxies leaves of `authorizeCreate`: TRUE,
FALSE, or neither where the recursion does not end.  `GroupAdmin`, `UserAdmin`,
`UserForm` and `AccountEdit` are the four ways to edit, each with what it saves
in other rows (a group's form takes shoulders from the members, `Members`).
`MoveUser` is the first transaction of `user-move`; then it goes through the
user's identifiers by pages (`ReadPage`, `MoveLoad`, `MoveSave`, `NextPage`), with
`setMetadata` in the command's own process.  It may begin while requests are in
flight; `overtaken` is history, the identifiers that such a request was about to save
for the user.  `Create`, `Update` and `HandOver`
prepare a request of the server on a copy, and `Save` commits it.

**OaiHarvest.** A row is the update time of an identifier in
`SearchIdentifier`, 0 for one that harvesting does not show.  A token is what
`_buildResumptionToken` signs.  `LastBatch`, `NextBatch` and `Enlarge` are the
three ways through `_doHarvest`: fewer rows than asked for; a full batch, cut
before its last time; a full batch of one time, for which `_doHarvest` calls
itself with twice the size.  `pending` is the search queue, so that rows are
written later than their times say.  The harvester is external: it repeats its
harvest from the time at which it began the last one.

**Download.** `rows` is the `DownloadQueue`, of which only the first row is
served; `requests` holds what a row never changes, and outlives it.  `disk` has
the request's files in the work directory, with and without compression, `s3`
what was delivered, `old` which local files the sweep would find expired.  `pc`
is where the daemon is between two effects that can be seen outside of it:
`fetch` is the head of its loop, `save` a stage whose effect is done and whose
`r.save()` is not, `harvest` and `flushed` the two halves of the loop of
`_harvest1`, `sweep` is before `_remove_expired_files`.  `job` is its copy of the
row.  `StageFails` is an exception at any of these places: the copy is dropped
and the stage begins anew from the row.  A stage that cannot begin because its
file is missing raises at once and changes nothing, so it has no step.
`Terminate` is the handler of SIGTERM and SIGINT, which sets a flag that is read
at the head of `run` and of the loop of `_harvest1`.  A file is the sequence of
its entries: header, records and footer are ordered pairs, so that "in its place,
once" is one order.  The constraints of a request are the set of identifiers
that match.

## 4. The runs

| Run | Instance | What it shows |
|---|---|---|
| `lock` | 3 requests, 2 users, 2 identifiers, 1 shoulder, throttle 1, 2 threads | `LockedExactlyByHolders`, `CountsExact`, `NoLostWakeup`; the lock implements `ThrottledMutex`; every request is answered unless the server stays paused |
| `table` | 3 web requests, all operations, 1 failure or restart | the requests implement `AtomicTable`; `SearchQueueMatchesRow`; `AgenciesAreTold` |
| `table_processes` | 3 web requests, 1 daemon request, expunge, 1 deletion by the expunge command, 1 failure | `NewestSnapshotIsRow`, `PublishedStaysPublished`: what is left of the above with other processes |
| `minter` | mask of 6 strings, then 12; 2 counters; 2 requests, 1 identifier at a time in the table, 2 that the minter does not know of | `RowOK`, `NeverStuck`, `EveryStringMinted`, `MintedOnce`; `BehindCostsOneEach`: a minter that is behind the table gets past it |
| `search` | 3 tasks of 2 identifiers, batches of 2, 1 crash, 1 marking | `StoresAgree`, `NewestUnlessCrowded`, `NoTaskLost`, `BacklogDrains` |
| `search_order` (violation) | 2 tasks | `PerformedInOrder` fails, section 6 |
| `download` | 2 requests of 2 owners for 2 identifiers, pages of 1, any owners at first; 1 change, 1 stop, 1 failure, 1 outage | `WellFormed`, `CompleteUnlessCurtailed`, `AnnouncedWhenDelivered`, `EveryRequestServed` |
| `download_terminated` (violation) | 1 request, 1 signal | `ResumesWhereItLeftOff` fails, section 6 |
| `agencies` | 3 tasks, batches of 2, 1 crash, 2 lost deposits, either agency | `OutcomeReachesIdentifier`, `DataciteHasNewest`, `TasksEnd` |
| `linkcheck` | 2 owners with 2 links, 1 of which may fail, 2 threads, pages of 2, worksets of 1, threshold 2, 1 event (change, exclusion, restart, signal, refusal or death) | `OneVisitorPerOwner`, `RaisedAfterThreshold`, `EveryLinkChecked`, `FlagFollows` |
| `accounts` | 3 users, 2 groups, 2 realms, 1 shoulder, 2 identifiers, 1 request, pages of 2, 3 edits | `ShouldersWithinGroup`, `PolicyAgrees`, `CreateFollowsProxies`, `NoneLeftBehind` |
| `oai` | 3 identifiers, batches of 2, 3 seconds, 3 updates | `HarvestComplete`, `CaughtUp`, `HarvestEnds` |

Why the bounds are enough.  *lock*: with three requests one can hold, one wait
and one arrive; a user's second request meets the throttle and its third the
thread limit, and a mint can wait for an identifier another user holds.  The
proofs remove the bound for safety.  *table*: three requests give a create that
loses its row to a delete between collision and update, and an update between
the two; `WebOperations` has each kind of operation, user and element and both
orders where order counts.  *minter*: one extension; the last counter of the extended mask has fewer
numbers; the digits and the letters of the mask have different bases; the
proofs remove the bounds.  Two unknown identifiers
are one by hand and one lost commit, or two of a kind, which may be the same
string.  *search*:
three tasks are a task, one that overtakes it and one that repairs or spoils the
result; a batch of two is smaller than the backlog, so that starvation is
possible if the code allows it.  *download*: two owners and two identifiers give
an owner with two pages, one with none and both with one; the second request
meets what the first left behind; one mishap of each kind can be combined with
the others at any two places.  *agencies*: three tasks are a create, an update
and a delete, or two identifiers; two lost deposits fill a batch of two.
*linkcheck*: two owners are what the threads have to share, and a workset of one
of two links is where starvation could begin; both tables fit into one page, so that
a page is as old as it can be when it is used.  (With pages of one the two safety
properties were checked once by hand.)  *accounts*: a user, the group
they move to, an administrator and a proxy; three edits are a move with one edit
before and one after it.  Users, groups and realms are interchangeable, as are
the requests of `table_processes` and `minter`, which these runs use as their symmetry;
they have no liveness property.  *oai*:
three identifiers in one second are one more than a batch, and three updates can
give each of them a time of its own; the proofs remove the bounds for
`HarvestComplete` and `CaughtUp`.

Deadlock is checked in `lock`.  The other runs stop when their requests, tasks,
edits, seconds or masks are used up and say `CHECK_DEADLOCK FALSE`.

The type invariants of `IdentifierLock`, `IdentifierTable`, `SearchIndexer`,
`LinkChecker` (`Typed`), `Accounts`, `Download`, `Agencies` (`AgenciesTypeOK`) and
`OaiHarvest` are proved (section 7), some of them checked by the runs too.

Every bound is a constant: `MaxFailures`, `MaxLength`, `MaxTasks`, `MaxCrashes`,
`MaxMarks`, `MaxRequests`, `MaxChanges`, `MaxStops`, `MaxOutages`, `MaxUnknown`,
`MaxExisting`, `MaxTime`, `MaxPending`, `MaxUpdates`, `MaxEvents`, `MaxEdits`,
`Untils`, `Flaky` (the identifiers whose link may fail), and the sets of requests.  `MaxConcurrent`, `MaxThreads`, `BatchSize`, `PageSize`, `PageRows`,
`PrimeFactor`, `AlphaCount`, `DigitCount` and `AddCount` are the code's own
parameters, made small.

## 5. Fairness

* `lock`: weak fairness of each request in progress: a runnable thread runs, an
  operation returns (its HTTP calls and SQL statements have time-outs), and
  Python's `Condition` gives a notified thread the lock at some time.  Nobody
  has to make a request, pause or resume.  `EveryRequestAnswered` is conditional
  on the server not staying paused for ever.
* `search`: weak fairness of the daemon, which loops for ever, and of the passing
  of a day for each failed task.  Crashes are bounded; the service manager
  restarts the daemon.  A call to OpenSearch may fail every time.
* `download`: weak fairness of the daemon, restarts included.  Crashes, signals and
  exceptions are bounded, and the property excepts a daemon that gets nothing
  done for a week: a file that expires makes its stage fail for ever.
* `agencies`: weak fairness of each daemon's loop, and of Crossref, which
  processes every deposit it has received.  This takes it that calls return; the
  poll's `timeout=` went to `str.format` by mistake (`proc-crossref.py:405-412`), so
  that only the connection ends a poll that hangs.  `TasksEnd` excepts lost deposits and
  what was left in a full batch of them.
* `linkcheck`: weak fairness of the checker and its threads, of the update daemon
  (`Updater`: it reads, and sets flags) and of the indexer's save, and of the passing of a revisit window;
  strong fairness of the merge, which a round that always has something to check
  would otherwise put off: `check_all` ends every round after a fixed time.
* `oai`: weak fairness of the answers: a harvester that has a token uses it.  The
  model's clock stops at `MaxTime`; a harvest without `until` of a table that is
  written faster than it is read need not end.
* The other specifications are safety only.

## 6. Findings and observations

Each finding is the counterexample of a violation run.

1. **Tasks are performed newest first** (`search_order`).  Two operations on one
   identifier enqueued during one sleep of a daemon end with the older one's
   state.  `NewestUnlessCrowded` shows in turn that an identifier with one
   outstanding task at a time is always right, through failures and crashes.
2. **A signal in a harvest truncates the download** (`download_terminated`).  The
   inner loop returns because of the signal, the outer one takes that for the end
   of the identifiers and completes the stage; what is delivered after the restart
   lacks the rest.  `CompleteUnlessCurtailed` shows that nothing else does this,
   a crash in particular.

The rest was met while the modules were written.  The models have the behaviour,
and the properties except it by name or do not speak of it.

* *Lock.* `pause?op=idlewait` (`api.py:527`) may not return until someone resumes
  the server: the pause catches a mint between its shoulder lock and its
  identifier lock, the mint waits for the pause to end, and the pause for the mint.
* *Table.* The Crossref daemon saves every column of the copy it read, outside
  the server's lock, although it sets only `_crossref`: an update in between is
  undone (`proc-crossref.py:319`; `setMetadata` says that elements not set are left
  unchanged).  An identifier that the expunge daemon deletes comes back when a
  `setMetadata` had read it before (`proc-expunge.py:67`).  `proc-expunge_v2` (line 165)
  queues the deletion of its copy even where the row is gone, or was created anew
  since the batch was read: search and the agencies withdraw what the table has.
* *Download.* An upload that fails is logged by `upload_file` and not raised, so
  the requestor is sent the link of a file that is not there;
  `AnnouncedWhenDelivered` excepts exactly these requests.
* *Crossref.* `submit` ignores that a deposit failed; the row is polled for ever,
  and as many of them as a batch has places keep all others waiting.  A crash
  between deposit and save deposits twice.
* *DataCite.* A DOI that becomes unavailable is to be taken out of DataCite's
  index ("check for non-public and adjust to suit", and "the identifier will be removed
  from resolvers and external services to the extent possible",
  `apidoc.2.rst:1184-1186`), but `proc-datacite.py:108` looks for the status under `_is`
  and `_x` in metadata that has neither, and it stays listed.  `DataciteHasNewest`
  asks for the listing of public DOIs only.  `_deactivate` (`datacite.py:910`) compares bytes with
  a string, so that the task of a deleted DOI always ends as FAILURE.
* *Link checker.* An incomplete page raises a TypeError in the handler that
  should accept it (`proc-link-checker.py:645`); the worker dies with its owner's
  workset locked, and a first round joins it for ever.  `OwnerWorkset` takes its
  exclusions from a class whose lists are empty (686-710).  A signal that ends a
  harvest of the merge lets up to a page of rows be deleted with their history.
  The update daemon sets flags from pages read before
  (`proc-link-checker-update.py:83-91`, 100): a flag may be raised although the link has
  been found good again meanwhile, or has changed, and a later pass takes it back.  A
  signal ends the harvest of failures before that of flags (137, 148): the daemon takes
  back flags that are right for the rest of its page (83-85), and the daemon that
  follows it raises them again.  `RaisedAfterThreshold` is therefore about the rows as
  they were read, and `FlagFollows` about what becomes of it.
* *Accounts.* `group-move` ends with an AttributeError (`group-move.py:88`) after
  its first transaction.  A `user-move` that fails part of the way cannot be run
  again, and the identifiers it did not reach refuse updates, because `baseClean`
  compares their group with the owner's.  A request that had read an identifier
  before the move saves its old group afterwards (`user-move.py:66-96` does not wait for
  it): `NoneLeftBehind` excepts such identifiers (`overtaken`), and is violated without
  the exception.  The API documentation has a group administrator be "a proxy for the
  group's members" with all abilities of one, creation under their shoulders included
  (`apidoc.2.rst:1110-1132`; `user.py:279-282` agrees); `authorizeCreate` gives "no extra
  identifier creation privileges" (`policy.py:58-59`).  `CreateFollowsProxies` says
  nothing of users whose answer depends on this.  (Of realm administrators `user.py:291`
  says what the code does.)  Two users who are proxies of each other
  end `authorizeCreate` with a RecursionError; `CreateFollowsProxies` shows that a
  circle is the only thing that can go wrong.
* *OAI.* An identifier whose row is written after a harvest has passed its update
  time, because the search queue was behind, is not seen by the next incremental
  harvest; `CaughtUp` shows that nothing else is missed.

## 7. What is proved

TLAPS checks these for every value of the constants that satisfies the named
assumptions of their modules, `LockAssumption` and the others, which TLC evaluates
in the runs.

**IdentifierLockProofs.**  `IInv` is the conjunction of the six invariants; no
one of them is inductive alone.  A release decrements a count, which stays a
natural number only because the counts are exact (`CountsExact`); they are exact
because a request holds at most one grant under one key, which follows from
where it is (`GrantsFitPhase`); a grant is new because the locked set is exact
(`LockedExactlyByHolders`).  `Inductive` states `Spec => []IInv`; `TypeCorrect`,
`LocksPaired`, `MutualExclusion`, `Throttle`, `WakeupsComplete` and
`WaitingBounded` are its parts.  `LockImplementsMutex` is the refinement: a
grant maps to `Take`, a release to `Give`, a pause to `SetFrozen`, and everything
else to a stutter.  Assumed of the constants: requests are finitely many, no
shoulder lock is named like an identifier, the throttle is at least one.

**IdentifierTableProofs.**  With every process at work: `TableTyped`, and
`NewestQueued` (`Spec => []NewestSnapshotIsRow`), because what a transaction saves it
also queues, however old the copy.  Without the daemons (`WebOnly`): `RequestsAtomic`,
every behaviour is one of `AtomicTable`, and `SearchQueueFollows`.  The refinement
maps the row, the requests and the answers to themselves; the write of the row is
the instant at which a request takes effect.  It does because a request in
progress is the only one, so that its copy is what the operation makes of the row
as it still is (`Serial`): the guards that it passed, and what a create that
collided had checked before it became an update (`Collided`), are still true of it.
`AgenciesTold` (`[]AgenciesAreTold`) assumes also that no operation asks for its
update to be kept from the agencies (`NothingWithheld`).
`PublishedKept` (`Spec => PublishedStaysPublished`) is again of every process, but of
no superuser's request (`NoAdministrators`), since `_status` may be forced.  An old
copy of a reserved row is what could undo a publication: `CopiesOfPublished` says
which copies a request, Crossref's daemon or a batch of the expunge command can hold
of an identifier that is public.  What a request's metadata makes of the row is
shown element after element.

**QueueProofs, SearchIndexer.**  `SearchTyped`, `TasksKept` (`Spec => []NoTaskLost`) and,
where failures are retried, `StoresInStep` (`Spec => []StoresAgree`) and `NewestFound`
(`Spec => []NewestUnlessCrowded`).  `QueueInv` is
about the copies of the daemon: each is of a task that waits, failed or was marked
(`Pending`), so that a row the cleanup is about to delete, which was none of these
when it was read, cannot become one by a late save.  `StoresInv` is about blame:
where the two stores differ there is a task of the identifier that is pending and
is not the one about to count as a success (`Blame`); and a document without a row,
which the deletion of an identifier skips, is itself that of such a task.
`NewestInv`: of an identifier that was never crowded only the newest task can be
pending, and when nothing is to blame the table has that task's snapshot.  The
indexer's queue does retry failures; without that the two theorems are false, since
a failed task is then finished and leaves the stores apart.  Assumed:
the batch is not empty.  That a batch holds different tasks, no more of them than it
may, is proved of `SetToSeqs` (`BatchTyped`).

**QueueProofs, Agencies.**  `OutcomeTold` (`AgenciesSpec => []OutcomeReachesIdentifier`)
and `DataciteReached` (`AgenciesSpec => []DataciteHasNewest`), whether failures are
retried or not, and `AgenciesTyped`.  `OneUnderWay`: of an identifier whose tasks never met in the queue,
nothing but the newest task is open or in a batch, so that no older one can
overwrite what it does.  `CrossrefInv` follows an outcome (`Told`): it is Crossref's
when the daemon is about to tell the identifier, and the identifier's when the daemon
is about to save the row; and no batch holds a task whose row says that it was
registered, so that what the daemon does disturbs no success.  `DataciteInv` follows a registration (`Reached`): once the metadata is
uploaded it is this task's and listed, once the target is set the record is
complete, and from there on, through the early save, the crash before the second
save, a repetition, and the deletion of the row by the cleanup, it stays complete;
only deletions are deactivated, and those end as failures.

**LinkCheckerProofs.**  `LinksTyped`, `VisitsDiluted` (`Spec => []OneVisitorPerOwner`)
and `FlagsDeserved` (`Spec => RaisedAfterThreshold`).  `Judged`: whatever the update
daemon has taken for failing was so when it read it (`worthy`), and nothing is left of
a pass when the next begins.  `InRound`: threads run only
while the main thread waits for them, so that the table is not merged while
worksets hold its rows; a thread that visits holds its owner's lock.  `Counted`: the
failures in a row of the table are those of the target it has now, and there were
at least as many.  Assumed: there are identifiers and owners, finitely many, and
each identifier has links to be given.

**MinterProofs.**  `RowCorrect` (`Spec => []RowOK`) and `NumbersMintedOnce`
(`Spec => MintedOnce`).  The invariant adds `Dealt`: every number minted under
the present mask was passed by one counter, and every older mask is shorter.  The
heart is `RangesDisjoint`: v + k * per determines k and v when v is in 1..per.
`MinterNeverStuck` (`[]NeverStuck`) and `StringsAllMinted` (`[]EveryStringMinted`)
need to count.  `Counted`: the tops of the counters add up to the total, and the
number of mints is that of the numbers the counters have passed; so the two are
equal at the very step at which the last counter reaches its top, when all of
1..total is minted (`AllMinted`).  That this is every string of the mask is the
arithmetic of mixed bases: the total is the product of the bases of the mask
(`Weights`), and a number modulo the total and the string of its digits determine
each other (`NumbersAndStrings`).
`BehindCosts` (`MintingSpec => []BehindCostsOneEach`): every failure, every identifier
spoken for and every one that exists is one the minter gave or is paid for by a lost
commit or a creation by hand (`Claims`).
`RequestsImplementMinter` carries the theorems over to the requests: every step
of `Minting` is a mint of `Minter` or leaves the minter alone.

**DownloadProofs.**  `ToldWhenDelivered` (`Spec => []AnnouncedWhenDelivered`).
What a requestor may be told depends on the stage of the row and on that of the
daemon's copy, and the two differ between the effect of a stage and its save:
`CopyFollows` says by how much, `ReadyToAnnounce` what each of them has
established.  `InSequence` and `OthersWait` keep the first row first while
requests are added, and let the next one begin at `CREATE` when it leaves.
`DownloadTyped` (`[]TypeOK`), `DownloadWellFormed` (`[]WellFormed`) and
`DownloadComplete` (`[]CompleteUnlessCurtailed`) are about the file.  `Files` relates
three things: the row, which knows a size and a position (`FileOfRow`); the daemon's
copy, which may be ahead of it (`FileOfCopy`); and the file, which may be ahead of
both.  Up to the size that one knows, the file is what was harvested up to its
position (`Grown`): a header, and the records of the owners before the current one and
of its identifiers so far, each once and in order.  A crash leaves a file that is
longer than the row says, and the reopening cuts it off.  After the last page and the
footer it is `Finished`, and `FilesDone` and `DeliveredDone` carry that through the
compression, the move and the announcement.  A file ends early only if a signal came
during its harvest (`Signalled`).  Assumed: identifiers are finitely many, no owner is
called `Nobody`, and a request names at least one owner and none twice, as the code
that makes it does (`download.py:136-153`); the bounds play no part.

**AccountsProofs.**  `IInv` has the types (`Records`), the copies (`CopiesFresh`:
what a move or a request has read still agrees with the records) and two facts
about a move that is under way: there is a page (`PageExists`), and every
identifier of the user up to the place it has reached, but for the rest of its
page, has the new group (`BehindMover`), where the last two leave out what a request
in flight at a move's beginning was about to save.  From it follow `AccountsTyped`,
`ShouldersKept`, `RulesAgree` and `MovedWhole`.  `CreateFollows` (`Spec => []CreateFollowsProxies`) is about the
recursion of `authorizeCreate`, whatever the records are.  With room for n calls some
users may get a wrong answer or none; without a circle of proxies one of them asks
nobody else of them, so that they become fewer with every n, and with room for as
many calls as there are users there are none left (`AnswersRight`); the answer is that
of the closure of the proxies (`May`), which implies the wider one (`MayEitherWay`).  That the
recursive function over n exists is shown by a least counterexample.

**OaiProofs.**  `OaiTyped`, `HarvestsComplete` and `HarvestsCatchUp`.  `Behind`: the harvester
holds the newest record of whatever lies between where the harvest began and where
its token stands and was not written meanwhile; the cut before the last time of a
batch is what keeps it (`NoneBetween`).  `Ahead`: what was written during the
harvest lies after the time it began, or is late.  Together they give `CaughtUp`
at the end of a harvest, and `IInv` holds the three.

*Induction over data.*  What a fold over a mask or over a request's metadata, or a
recursive function over call depths, computes for every input is an induction.  The
library's induction theorems have an operator as a parameter, which the provers
cannot instantiate; the proofs take a least counterexample instead, by
`NatLessThanWellFounded` and `WFMin` of `WellFoundedInduction`, which are about sets.

Only model-checked: liveness (`EveryRequestAnswered`, `BacklogDrains`,
`EveryRequestServed`, `TasksEnd`, `EveryLinkChecked`, `FlagFollows`,
`HarvestEnds`), because TLAPS has no rule for fairness and ENABLED here.  The two
violation runs are counterexamples and have nothing to prove.

## 8. What is not modelled

* The database: a transaction is atomic and its row locks work.  `deleteIdentifier`
  numbers its snapshot before it locks the row; the model has one moment for both.
* Citation metadata, profiles and datacenters.  Ownership, groups and proxies are
  in `Accounts`; the table's model has three kinds of people instead.
* The check character of a minter; minting several identifiers at once.  A mask of
  fewer than three characters before the final `k`: `ezid_minter.py:447` slices the
  mask with its `k`, which would then be repeated inside of it.  No minter of EZID has
  such a mask.
* The dates of the cleanup's window: it may look at any snapshot.
* Downloads: the validation of a request, the bytes of the formats, the sidecar
  file, and two daemons at once, which the daemon's docstring speaks of and the
  service manager prevents.  The local files of a request that is done stay until
  they expire; no other request uses their names.
* Agencies: the setting that switches Crossref off, the search tasks that every poll
  enqueues, e-mails.
* Link checker: the file of excluded identifiers, the throttle of looks at the
  files, the order and the interval of visits (any), OpenSearch's copy of the flag.
* Accounts: the anonymous user, test identifiers, agents' own identifiers, the
  creation and deletion of users and groups, passwords, names.  A form loads a whole
  record, checks it and saves it (`UserAdmin`, `AccountEdit`); the model has one moment
  for this, so two forms that overlap, the later of which writes back what the earlier
  changed, are not seen.
* OAI: sets, formats, the signature of a token, `completeListSize`.
* The resolver is planned (section 2).
* The user interface, the mapping and validation of metadata, search queries,
  statistics, the news feed and the diagnostic commands keep no state that
  interleaves with the above, or are pure conversions and I/O.
* `impl/state.py` repeats the lock and nothing imports it.
