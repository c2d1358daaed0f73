--------------------------- MODULE IdentifierLock ---------------------------
(***************************************************************************)
(* The identifier lock of one EZID server process: impl/ezid.py lines      *)
(* 36-119, its callers in the same file and the admin pause of impl/api.py.*)
(*                                                                         *)
(* A module-level threading.Condition protects a set of locked identifiers *)
(* and two per-user counts.  Every operation on an identifier takes the    *)
(* lock on it and releases it in a finally clause.  mintIdentifier takes   *)
(* two: <shoulder>.shoulder_lock under the key <user>.shoulder_lock, and,  *)
(* nested in it, the new identifier under the user's own key.              *)
(*                                                                         *)
(* A Request is one web request, served by a thread of the WSGI process    *)
(* until it is answered.  The loop of _acquireIdentifierLock gives the     *)
(* Condition up only inside wait(), so one pass through the loop is one    *)
(* action.                                                                 *)
(***************************************************************************)
EXTENDS Naturals, FiniteSets

CONSTANTS Requests,        \* web requests
          Users,           \* local usernames
          Identifiers,     \* normalized identifiers
          Shoulders,       \* names <shoulder>.shoulder_lock
          MaxConcurrent,   \* MAX_CONCURRENT_OPERATIONS_PER_USER
          MaxThreads,      \* MAX_THREADS_PER_USER
          NoGrant          \* "asks for nothing"

LockIds  == Identifiers \union Shoulders
UserKeys == [name: Users, shoulderLock: BOOLEAN]
Grant    == [id: LockIds, user: UserKeys]

ASSUME LockAssumption ==
    /\ IsFiniteSet(Requests)
    /\ Identifiers \intersect Shoulders = {}
    /\ MaxConcurrent \in Nat \ {0}
    /\ MaxThreads \in Nat
    /\ NoGrant \notin Grant

VARIABLES lockedIdentifiers,   \* _lockedIdentifiers
          activeUsers,         \* _activeUsers, an absent key is 0
          waitingUsers,        \* _waitingUsers, an absent key is 0
          paused,              \* _paused
          pc,                  \* what each request is doing
          want,                \* the grant a request is waiting for
          held,                \* the grants a request will release
          idleWait             \* an admin's pause?op=idlewait is in progress

counts == <<lockedIdentifiers, activeUsers, waitingUsers>>
vars == <<lockedIdentifiers, activeUsers, waitingUsers, paused, pc, want, held,
          idleWait>>

(***************************************************************************)
(* "blocked" is inside _lock.wait(); "awake" has been notified but has not *)
(* got the Condition back; "working" has just been granted what it asked   *)
(* for; "closing" is a mint whose nested create has returned.              *)
(***************************************************************************)
Phases == {"new", "blocked", "awake", "working", "closing", "done"}

OperationGrant(u, i) == [id |-> i, user |-> [name |-> u, shoulderLock |-> FALSE]]
MintGrant(u, s)      == [id |-> s, user |-> [name |-> u, shoulderLock |-> TRUE]]

Init ==
    /\ lockedIdentifiers = {}
    /\ activeUsers  = [k \in UserKeys |-> 0]
    /\ waitingUsers = [k \in UserKeys |-> 0]
    /\ paused = FALSE
    /\ pc   = [r \in Requests |-> "new"]
    /\ want = [r \in Requests |-> NoGrant]
    /\ held = [r \in Requests |-> {}]
    /\ idleWait = FALSE

-----------------------------------------------------------------------------
(* _acquireIdentifierLock *)

\* Mutants: the test of one of the three reasons to wait left out.
MustWaitNoIdentifier(g) == paused \/ activeUsers[g.user] >= MaxConcurrent
MustWaitNoPause(g) ==
    g.id \in lockedIdentifiers \/ activeUsers[g.user] >= MaxConcurrent

\* The condition of the while loop.
MustWait(g) ==
    \/ paused
    \/ g.id \in lockedIdentifiers
    \/ activeUsers[g.user] >= MaxConcurrent

\* The throttle inside the loop; w is the user's number of waiting requests.
TooManyThreads(g, w) == activeUsers[g.user] + w >= MaxThreads

Granted(r, g) ==
    /\ activeUsers' = [activeUsers EXCEPT ![g.user] = @ + 1]
    /\ lockedIdentifiers' = lockedIdentifiers \union {g.id}
    /\ held' = [held EXCEPT ![r] = @ \union {g}]
    /\ pc' = [pc EXCEPT ![r] = "working"]
    /\ want' = [want EXCEPT ![r] = NoGrant]

\* "error: concurrency limit exceeded".  A mint refused in its nested create
\* still has its shoulder lock to release.
Refused(r) ==
    /\ pc' = [pc EXCEPT ![r] = IF held[r] = {} THEN "done" ELSE "closing"]
    /\ want' = [want EXCEPT ![r] = NoGrant]
    /\ UNCHANGED <<activeUsers, lockedIdentifiers, held>>

StartWaiting(r, g) ==
    /\ pc' = [pc EXCEPT ![r] = "blocked"]
    /\ want' = [want EXCEPT ![r] = g]
    /\ waitingUsers' = [waitingUsers EXCEPT ![g.user] = @ + 1]
    /\ UNCHANGED <<activeUsers, lockedIdentifiers, held>>

\* The first pass through the loop.
Acquire(r, g) ==
    /\ \/ ~MustWait(g) /\ Granted(r, g) /\ UNCHANGED waitingUsers
       \/ /\ MustWait(g)
          /\ TooManyThreads(g, waitingUsers[g.user])
          /\ Refused(r)
          /\ UNCHANGED waitingUsers
       \/ /\ MustWait(g)
          /\ ~TooManyThreads(g, waitingUsers[g.user])
          /\ StartWaiting(r, g)
    /\ UNCHANGED <<paused, idleWait>>

\* Mutant: a request refused after its wait still counts as waiting.
ResumeLeaksCount(r) ==
    LET g == want[r] IN
    /\ pc[r] = "awake"
    /\ MustWait(g)
    /\ TooManyThreads(g, waitingUsers[g.user] - 1)
    /\ Refused(r)
    /\ UNCHANGED <<waitingUsers, paused, idleWait>>

\* wait() returns: the request stops counting as waiting, tests the loop's
\* condition again, and may be refused even though it was let in to wait.
Resume(r) ==
    LET g == want[r]
        w == waitingUsers[g.user] - 1
    IN  /\ pc[r] = "awake"
        /\ \/ /\ ~MustWait(g)
              /\ Granted(r, g)
              /\ waitingUsers' = [waitingUsers EXCEPT ![g.user] = w]
           \/ /\ MustWait(g)
              /\ TooManyThreads(g, w)
              /\ Refused(r)
              /\ waitingUsers' = [waitingUsers EXCEPT ![g.user] = w]
           \/ /\ MustWait(g)
              /\ ~TooManyThreads(g, w)
              /\ pc' = [pc EXCEPT ![r] = "blocked"]
              /\ UNCHANGED <<counts, want, held>>
        /\ UNCHANGED <<paused, idleWait>>

-----------------------------------------------------------------------------
(* The callers *)

\* createIdentifier, getMetadata, setMetadata and deleteIdentifier.
StartOperation(r, u, i) ==
    /\ pc[r] = "new"
    /\ Acquire(r, OperationGrant(u, i))

StartMint(r, u, s) ==
    /\ pc[r] = "new"
    /\ Acquire(r, MintGrant(u, s))

\* _mintIdentifier calls createIdentifier on the identifier the minter gave.
CreateMinted(r, i) ==
    /\ pc[r] = "working"
    /\ \E g \in held[r] :
          /\ held[r] = {g}
          /\ g.user.shoulderLock
          /\ Acquire(r, OperationGrant(g.user.name, i))

\* Mutant: notify() wakes one waiter, whichever it waits for.
NotifyOne(p) ==
    LET asleep == {s \in Requests : p[s] = "blocked"}
    IN  IF asleep = {} THEN p ELSE [p EXCEPT ![CHOOSE s \in asleep : TRUE] = "awake"]

\* notify_all: every waiter has to get the Condition and test again.
NotifyAll(p) == [s \in Requests |-> IF p[s] = "blocked" THEN "awake" ELSE p[s]]

\* _releaseIdentifierLock
Release(r, g, next) ==
    /\ lockedIdentifiers' = lockedIdentifiers \ {g.id}
    /\ activeUsers' = [activeUsers EXCEPT ![g.user] = @ - 1]
    /\ held' = [held EXCEPT ![r] = @ \ {g}]
    /\ pc' = NotifyAll([pc EXCEPT ![r] = next])
    /\ UNCHANGED <<waitingUsers, paused, want, idleWait>>

\* The operation returns or raises; if it was a mint's, the mint goes on.
FinishOperation(r) ==
    /\ pc[r] = "working"
    /\ \E g \in held[r] :
          /\ ~g.user.shoulderLock
          /\ Release(r, g, IF held[r] = {g} THEN "done" ELSE "closing")

\* mintIdentifier returns: after its create, or early because the shoulder is
\* unknown or the minter failed.
FinishMint(r) ==
    /\ pc[r] \in {"working", "closing"}
    /\ \E g \in held[r] :
          /\ held[r] = {g}
          /\ g.user.shoulderLock
          /\ Release(r, g, "done")

-----------------------------------------------------------------------------
(* pause, and the admin request impl/api.py pause *)

Pause ==
    /\ paused' = TRUE
    /\ UNCHANGED <<counts, pc, want, held, idleWait>>

\* Mutant: resuming the server notifies nobody.
UnpauseSilently ==
    /\ paused' = FALSE
    /\ UNCHANGED <<counts, pc, want, held, idleWait>>

Unpause ==
    /\ paused' = FALSE
    /\ pc' = NotifyAll(pc)
    /\ UNCHANGED <<counts, want, held, idleWait>>

\* op=idlewait pauses, then polls getStatus until no operation is active.
StartIdleWait ==
    /\ ~idleWait
    /\ paused' = TRUE
    /\ idleWait' = TRUE
    /\ UNCHANGED <<counts, pc, want, held>>

FinishIdleWait ==
    /\ idleWait
    /\ \A k \in UserKeys : activeUsers[k] = 0
    /\ idleWait' = FALSE
    /\ UNCHANGED <<counts, paused, pc, want, held>>

-----------------------------------------------------------------------------
Start(r) ==
    \/ \E u \in Users, i \in Identifiers : StartOperation(r, u, i)
    \/ \E u \in Users, s \in Shoulders : StartMint(r, u, s)

\* What a request in progress does next.
Proceed(r) ==
    \/ Resume(r)
    \/ \E i \in Identifiers : CreateMinted(r, i)
    \/ FinishOperation(r)
    \/ FinishMint(r)

Next ==
    \/ \E r \in Requests : Start(r) \/ Proceed(r)
    \/ Pause
    \/ Unpause
    \/ StartIdleWait
    \/ FinishIdleWait

Spec == Init /\ [][Next]_vars

\* A thread that can run does run, and an operation returns; nobody has to
\* make a request, to pause or to resume the server.
FairSpec ==
    /\ Spec
    /\ \A r \in Requests : WF_vars(Proceed(r))
    /\ WF_vars(FinishIdleWait)

-----------------------------------------------------------------------------
(* Properties *)

InQueue(r) == pc[r] \in {"blocked", "awake"}

ActiveUnder(k)  == {r \in Requests : \E g \in held[r] : g.user = k}
WaitingUnder(k) == {r \in Requests : InQueue(r) /\ want[r].user = k}

\* The variables have the types of the code's.
TypeOK ==
    /\ lockedIdentifiers \in SUBSET LockIds
    /\ activeUsers \in [UserKeys -> Nat]
    /\ waitingUsers \in [UserKeys -> Nat]
    /\ paused \in BOOLEAN
    /\ pc \in [Requests -> Phases]
    /\ want \in [Requests -> Grant \union {NoGrant}]
    /\ held \in [Requests -> SUBSET Grant]
    /\ idleWait \in BOOLEAN

HoldsMint(r, u) ==
    \E g \in Grant : held[r] = {g} /\ g.user = [name |-> u, shoulderLock |-> TRUE]

FitsPhase(r) ==
    /\ pc[r] \in {"new", "done"} => held[r] = {}
    /\ pc[r] = "closing" => \E u \in Users : HoldsMint(r, u)
    /\ pc[r] = "working" =>
          \/ \E g \in Grant : held[r] = {g}
          \/ \E u \in Users, i, s \in LockIds :
                held[r] = {MintGrant(u, s), OperationGrant(u, i)}
    /\ InQueue(r) =>
          /\ want[r] \in Grant
          /\ \/ held[r] = {}
             \/ ~want[r].user.shoulderLock /\ HoldsMint(r, want[r].user.name)
    /\ ~InQueue(r) => want[r] = NoGrant

\* Every acquire is paired with one release (the finally clauses): a request
\* that was answered holds nothing, one that waits holds nothing or the
\* shoulder lock of its own mint, and a mint releases its identifier before
\* its shoulder.
GrantsFitPhase == \A r \in Requests : FitsPhase(r)

\* No identifier is operated on by two threads simultaneously (module
\* docstring), and _lockedIdentifiers holds exactly the identifiers that some
\* request will release: none is left locked for ever, none is unprotected.
LockedExactlyByHolders ==
    /\ lockedIdentifiers = {g.id : g \in UNION {held[r] : r \in Requests}}
    /\ \A r, s \in Requests : \A g \in held[r], h \in held[s] :
          g.id = h.id => r = s /\ g = h

\* _activeUsers and _waitingUsers count exactly the operations in progress and
\* the requests in the queue, so a count never leaks (which would throttle a
\* user for ever) and _decrementCount never meets a missing key; and no user
\* has more operations in progress than the throttle allows.
CountsExact ==
    \A k \in UserKeys :
        /\ activeUsers[k] = Cardinality(ActiveUnder(k))
        /\ waitingUsers[k] = Cardinality(WaitingUnder(k))
        /\ activeUsers[k] <= MaxConcurrent

\* A request asleep in wait() has a reason to be: the release or the unpause
\* that removes the reason has notified it.
NoLostWakeup ==
    \A r \in Requests : pc[r] = "blocked" => MustWait(want[r])

\* The throttle is tested only by requests that have to wait, so a user can tie
\* up MaxThreads waiting threads and MaxConcurrent active ones, never more.
ThreadsBounded ==
    \A k \in UserKeys : waitingUsers[k] <= MaxThreads

GrantsOf(r) == {[holder |-> r, id |-> g.id, user |-> g.user] : g \in held[r]}
GrantsHeld  == UNION {GrantsOf(r) : r \in Requests}

\* The lock implements its abstract specification.
Mutex == INSTANCE ThrottledMutex WITH
            Holders <- Requests,
            Ids <- LockIds,
            Keys <- UserKeys,
            Limit <- MaxConcurrent,
            grants <- GrantsHeld,
            frozen <- paused

ImplementsMutex == Mutex!Spec

\* If the server does not stay paused, every request is answered: there is no
\* deadlock between the shoulder lock, the identifier locks and the throttles.
EveryRequestAnswered ==
    <>[]~paused => \A r \in Requests : pc[r] # "new" ~> pc[r] = "done"
=============================================================================
