------------------------ MODULE IdentifierLockProofs ------------------------
(***************************************************************************)
(* Proofs about IdentifierLock, for every set of requests, users,          *)
(* identifiers and shoulders and every throttle.                           *)
(***************************************************************************)
EXTENDS IdentifierLock, FiniteSetTheorems, TLAPS

\* The inductive invariant.  The counts are exact only because a request holds
\* at most one grant under a key, which GrantsFitPhase gives, and a release
\* finds what it releases only because the locked set is exact.
IInv ==
    /\ TypeOK
    /\ GrantsFitPhase
    /\ LockedExactlyByHolders
    /\ CountsExact
    /\ NoLostWakeup
    /\ ThreadsBounded

\* What one request holds under one key is one grant.
LEMMA OneGrantPerKey ==
    ASSUME TypeOK, GrantsFitPhase, NEW r \in Requests,
           NEW g \in held[r], NEW h \in held[r], g.user = h.user
    PROVE  g = h
<1>1. CASE held[r] = {}
  BY <1>1
<1>2. CASE \E x \in Grant : held[r] = {x}
  BY <1>2
<1>3. CASE \E u \in Users, i, s \in LockIds :
              held[r] = {MintGrant(u, s), OperationGrant(u, i)}
  BY <1>3 DEF MintGrant, OperationGrant
<1>4. pc[r] \in {"new", "done", "closing", "working"} \/ InQueue(r)
  BY DEF TypeOK, Phases, InQueue
<1>5. QED
  <2>1. CASE InQueue(r)
    BY <2>1, <1>1, <1>2, Zenon DEF GrantsFitPhase, FitsPhase, HoldsMint
  <2>2. CASE pc[r] \in {"new", "done"}
    BY <2>2, <1>1 DEF GrantsFitPhase, FitsPhase
  <2>3. CASE pc[r] = "closing"
    BY <2>3, <1>2, Zenon DEF GrantsFitPhase, FitsPhase, HoldsMint
  <2>4. CASE pc[r] = "working"
    BY <2>4, <1>2, <1>3 DEF GrantsFitPhase, FitsPhase
  <2>5. QED
    BY <1>4, <2>1, <2>2, <2>3, <2>4

\* The sets that the counts count are finite.
LEMMA CountedSetsFinite ==
    ASSUME NEW k \in UserKeys
    PROVE  /\ IsFiniteSet(ActiveUnder(k))
           /\ IsFiniteSet(WaitingUnder(k))
  BY LockAssumption, FS_Subset DEF ActiveUnder, WaitingUnder

LEMMA InitInvariant == Init => IInv
<1> SUFFICES ASSUME Init PROVE IInv
  OBVIOUS
<1>1. TypeOK
  BY DEF Init, TypeOK, Phases
<1>2. GrantsFitPhase
  BY DEF Init, GrantsFitPhase, FitsPhase, InQueue
<1>3. LockedExactlyByHolders
  BY DEF Init, LockedExactlyByHolders
<1>4. CountsExact
  <2> SUFFICES ASSUME NEW k \in UserKeys
               PROVE  /\ activeUsers[k] = Cardinality(ActiveUnder(k))
                      /\ waitingUsers[k] = Cardinality(WaitingUnder(k))
                      /\ activeUsers[k] <= MaxConcurrent
    BY DEF CountsExact
  <2>1. ActiveUnder(k) = {} /\ WaitingUnder(k) = {}
    BY DEF Init, ActiveUnder, WaitingUnder, InQueue
  <2>2. QED
    BY <2>1, FS_EmptySet, LockAssumption DEF Init
<1>5. NoLostWakeup
  BY DEF Init, NoLostWakeup
<1>6. ThreadsBounded
  BY LockAssumption DEF Init, ThreadsBounded
<1>7. QED
  BY <1>1, <1>2, <1>3, <1>4, <1>5, <1>6 DEF IInv

-----------------------------------------------------------------------------
(* The two halves of CountsExact change in different actions. *)

ActiveExact ==
    \A k \in UserKeys : /\ activeUsers[k] = Cardinality(ActiveUnder(k))
                        /\ activeUsers[k] <= MaxConcurrent

WaitingExact ==
    \A k \in UserKeys : waitingUsers[k] = Cardinality(WaitingUnder(k))

LEMMA CountsExactSplits ==
    /\ CountsExact <=> ActiveExact /\ WaitingExact
    /\ CountsExact' <=> ActiveExact' /\ WaitingExact'
  BY DEF CountsExact, ActiveExact, WaitingExact

\* What a request may hold when it asks for g.
MayAsk(r, g) ==
    \/ held[r] = {}
    \/ ~g.user.shoulderLock /\ HoldsMint(r, g.user.name)

\* A request that asks for g holds nothing under the key of g.
LEMMA AsksUnderNewKey ==
    ASSUME NEW r \in Requests, NEW g \in Grant, MayAsk(r, g)
    PROVE  /\ \A h \in held[r] : h.user # g.user
           /\ r \notin ActiveUnder(g.user)
<1>1. \A h \in held[r] : h.user # g.user
  <2>1. CASE held[r] = {}
    BY <2>1
  <2>2. CASE ~g.user.shoulderLock /\ HoldsMint(r, g.user.name)
    <3>1. PICK h \in Grant : /\ held[r] = {h}
                             /\ h.user = [name |-> g.user.name, shoulderLock |-> TRUE]
      BY <2>2 DEF HoldsMint
    <3>2. h.user.shoulderLock
      BY <3>1
    <3>3. QED
      BY <2>2, <3>1, <3>2
  <2>3. QED
    BY <2>1, <2>2 DEF MayAsk
<1>2. QED
  BY <1>1 DEF ActiveUnder

\* A grant keeps the active counts exact and under the throttle.
LEMMA GrantedActive ==
    ASSUME TypeOK, ActiveExact, NEW r \in Requests, NEW g \in Grant,
           MayAsk(r, g), ~MustWait(g), Granted(r, g)
    PROVE  /\ activeUsers' \in [UserKeys -> Nat]
           /\ ActiveExact'
<1>1. g.user \in UserKeys
  BY DEF Grant
<1>2. activeUsers' \in [UserKeys -> Nat]
  BY <1>1 DEF Granted, TypeOK
<1>3. ASSUME NEW k \in UserKeys
      PROVE  activeUsers'[k] = Cardinality(ActiveUnder(k)') /\ activeUsers'[k] <= MaxConcurrent
  <2>1. ActiveUnder(k)' = IF k = g.user THEN ActiveUnder(k) \union {r} ELSE ActiveUnder(k)
    BY DEF ActiveUnder, Granted, TypeOK
  <2>2. CASE k = g.user
    <3>1. activeUsers[k] < MaxConcurrent
      BY <2>2, <1>1, LockAssumption DEF MustWait, TypeOK
    <3>2. Cardinality(ActiveUnder(k) \union {r}) = Cardinality(ActiveUnder(k)) + 1
      BY <2>2, CountedSetsFinite, AsksUnderNewKey, FS_AddElement
    <3>3. activeUsers'[k] = activeUsers[k] + 1
      BY <2>2, <1>1 DEF Granted, TypeOK
    <3>4. QED
      BY <2>1, <2>2, <3>1, <3>2, <3>3, LockAssumption DEF ActiveExact, TypeOK
  <2>3. CASE k # g.user
    BY <2>1, <2>3 DEF ActiveExact, Granted, TypeOK
  <2>4. QED
    BY <2>2, <2>3
<1>4. QED
  BY <1>2, <1>3 DEF ActiveExact

\* A grant of an identifier that nobody holds keeps the locked set exact.
LEMMA GrantedLocked ==
    ASSUME TypeOK, LockedExactlyByHolders, NEW r \in Requests, NEW g \in Grant,
           ~MustWait(g), Granted(r, g)
    PROVE  LockedExactlyByHolders'
<1>1. \A s \in Requests : held'[s] = IF s = r THEN held[s] \union {g} ELSE held[s]
  BY DEF Granted, TypeOK
<1>2. \A s \in Requests : \A h \in held[s] : h.id # g.id
  BY DEF MustWait, LockedExactlyByHolders
<1>3. lockedIdentifiers' = {h.id : h \in UNION {held'[s] : s \in Requests}}
  <2>1. \A h : h \in UNION {held'[s] : s \in Requests}
                <=> (\E s \in Requests : h \in held[s]) \/ h = g
    BY <1>1
  <2>2. \A x : x \in lockedIdentifiers'
                <=> (\E s \in Requests : \E h \in held[s] : x = h.id) \/ x = g.id
    BY DEF Granted, LockedExactlyByHolders
  <2>3. \A x : x \in lockedIdentifiers'
                <=> \E h \in UNION {held'[s] : s \in Requests} : x = h.id
    BY <2>1, <2>2
  <2>4. QED
    BY <2>3
<1>4. ASSUME NEW s \in Requests, NEW t \in Requests,
             NEW h \in held'[s], NEW j \in held'[t], h.id = j.id
      PROVE  s = t /\ h = j
  <2>1. /\ h \in held[s] \/ (s = r /\ h = g)
        /\ j \in held[t] \/ (t = r /\ j = g)
    BY <1>1
  <2>2. CASE h \in held[s] /\ j \in held[t]
    BY <2>2, <1>4 DEF LockedExactlyByHolders
  <2>3. CASE ~(h \in held[s] /\ j \in held[t])
    BY <2>1, <2>3, <1>2, <1>4
  <2>4. QED
    BY <2>2, <2>3
<1>5. QED
  BY <1>3, <1>4 DEF LockedExactlyByHolders

\* A release gives back one grant of its user and no one else's.
LEMMA ReleaseActive ==
    ASSUME TypeOK, GrantsFitPhase, ActiveExact,
           NEW r \in Requests, NEW g \in held[r], NEW next, Release(r, g, next)
    PROVE  /\ activeUsers' \in [UserKeys -> Nat]
           /\ ActiveExact'
<1>1. g \in Grant /\ g.user \in UserKeys
  BY DEF Grant, TypeOK
<1>2. r \in ActiveUnder(g.user)
  BY DEF ActiveUnder
<1>3. activeUsers[g.user] \in Nat \ {0}
  <2>1. Cardinality(ActiveUnder(g.user)) # 0
    BY <1>1, <1>2, CountedSetsFinite, FS_EmptySet
  <2>2. QED
    BY <1>1, <2>1 DEF ActiveExact, TypeOK
<1>4. activeUsers' \in [UserKeys -> Nat]
  BY <1>1, <1>3 DEF Release, TypeOK
<1>5. ASSUME NEW k \in UserKeys
      PROVE  activeUsers'[k] = Cardinality(ActiveUnder(k)') /\ activeUsers'[k] <= MaxConcurrent
  <2>1. \A h \in held[r] : h.user = g.user => h = g
    BY OneGrantPerKey
  <2>2. ActiveUnder(k)' = IF k = g.user THEN ActiveUnder(k) \ {r} ELSE ActiveUnder(k)
    BY <2>1 DEF ActiveUnder, Release, TypeOK
  <2>3. CASE k = g.user
    <3>1. Cardinality(ActiveUnder(k) \ {r}) = Cardinality(ActiveUnder(k)) - 1
      BY <2>3, <1>2, CountedSetsFinite, FS_RemoveElement
    <3>2. activeUsers'[k] = activeUsers[k] - 1
      BY <2>3, <1>1 DEF Release, TypeOK
    <3>3. QED
      BY <2>2, <2>3, <1>3, <3>1, <3>2, LockAssumption DEF ActiveExact, TypeOK
  <2>4. CASE k # g.user
    BY <2>2, <2>4 DEF ActiveExact, Release, TypeOK
  <2>5. QED
    BY <2>3, <2>4
<1>6. QED
  BY <1>4, <1>5 DEF ActiveExact

LEMMA ReleaseLocked ==
    ASSUME TypeOK, LockedExactlyByHolders,
           NEW r \in Requests, NEW g \in held[r], NEW next, Release(r, g, next)
    PROVE  LockedExactlyByHolders'
<1>1. \A s \in Requests : held'[s] = IF s = r THEN held[s] \ {g} ELSE held[s]
  BY DEF Release, TypeOK
<1>2. \A s \in Requests : \A h \in held[s] : h.id = g.id => s = r /\ h = g
  BY DEF LockedExactlyByHolders
<1>3. lockedIdentifiers' = {h.id : h \in UNION {held'[s] : s \in Requests}}
  <2>1. \A h : h \in UNION {held'[s] : s \in Requests}
                <=> h \in UNION {held[s] : s \in Requests} /\ h.id # g.id
    BY <1>1, <1>2
  <2>2. lockedIdentifiers' = {h.id : h \in UNION {held[s] : s \in Requests}} \ {g.id}
    BY DEF Release, LockedExactlyByHolders
  <2>3. QED
    BY <2>1, <2>2
<1>4. ASSUME NEW s \in Requests, NEW t \in Requests,
             NEW h \in held'[s], NEW j \in held'[t], h.id = j.id
      PROVE  s = t /\ h = j
  <2>1. h \in held[s] /\ j \in held[t]
    BY <1>1
  <2>2. QED
    BY <2>1, <1>4 DEF LockedExactlyByHolders
<1>5. QED
  BY <1>3, <1>4 DEF LockedExactlyByHolders

-----------------------------------------------------------------------------
(* The queue.  Its count follows the requests between their first wait and *)
(* their return from the loop, asleep or notified.                         *)

QueueKept(S) ==
    \A s \in S : (InQueue(s)' <=> InQueue(s)) /\ want'[s] = want[s]

LEMMA QueueUnchanged ==
    ASSUME WaitingExact, QueueKept(Requests), waitingUsers' = waitingUsers
    PROVE  WaitingExact'
<1>1. \A k \in UserKeys : WaitingUnder(k)' = WaitingUnder(k)
  BY DEF QueueKept, WaitingUnder
<1>2. QED
  BY <1>1 DEF WaitingExact

LEMMA QueueEntered ==
    ASSUME TypeOK, WaitingExact, NEW r \in Requests, NEW g \in Grant,
           ~InQueue(r), InQueue(r)', want'[r] = g, QueueKept(Requests \ {r}),
           waitingUsers' = [waitingUsers EXCEPT ![g.user] = @ + 1]
    PROVE  waitingUsers' \in [UserKeys -> Nat] /\ WaitingExact'
<1>1. g.user \in UserKeys
  BY DEF Grant
<1>2. waitingUsers' \in [UserKeys -> Nat]
  BY <1>1 DEF TypeOK
<1>3. ASSUME NEW k \in UserKeys
      PROVE  waitingUsers'[k] = Cardinality(WaitingUnder(k)')
  <2>1. WaitingUnder(k)' = IF k = g.user THEN WaitingUnder(k) \union {r} ELSE WaitingUnder(k)
    BY DEF QueueKept, WaitingUnder
  <2>2. Cardinality(WaitingUnder(k) \union {r}) = Cardinality(WaitingUnder(k)) + 1
    BY CountedSetsFinite, FS_AddElement DEF WaitingUnder
  <2>3. QED
    BY <1>1, <2>1, <2>2 DEF WaitingExact, TypeOK
<1>4. QED
  BY <1>2, <1>3 DEF WaitingExact

LEMMA QueueLeft ==
    ASSUME TypeOK, WaitingExact, NEW r \in Requests, want[r] \in Grant,
           InQueue(r), ~InQueue(r)', QueueKept(Requests \ {r}),
           waitingUsers' = [waitingUsers EXCEPT ![want[r].user] =
                                                    waitingUsers[want[r].user] - 1]
    PROVE  waitingUsers' \in [UserKeys -> Nat] /\ WaitingExact'
<1> DEFINE key == want[r].user
<1>1. key \in UserKeys
  BY DEF Grant
<1>2. r \in WaitingUnder(key)
  BY DEF WaitingUnder
<1>3. waitingUsers[key] \in Nat \ {0}
  <2>1. Cardinality(WaitingUnder(key)) # 0
    BY <1>1, <1>2, CountedSetsFinite, FS_EmptySet
  <2>2. QED
    BY <1>1, <2>1 DEF WaitingExact, TypeOK
<1>4. waitingUsers' \in [UserKeys -> Nat]
  BY <1>1, <1>3 DEF TypeOK
<1>5. ASSUME NEW k \in UserKeys
      PROVE  waitingUsers'[k] = Cardinality(WaitingUnder(k)')
  <2>1. WaitingUnder(k)' = IF k = key THEN WaitingUnder(k) \ {r} ELSE WaitingUnder(k)
    BY DEF QueueKept, WaitingUnder
  <2>2. k = key => Cardinality(WaitingUnder(k) \ {r}) = Cardinality(WaitingUnder(k)) - 1
    BY <1>2, CountedSetsFinite, FS_RemoveElement
  <2>3. QED
    BY <1>1, <2>1, <2>2 DEF WaitingExact, TypeOK
<1>6. QED
  BY <1>4, <1>5 DEF WaitingExact

-----------------------------------------------------------------------------
(* The outcomes of a pass through the loop *)

\* A request that a step leaves alone still fits its phase.
LEMMA UntouchedFits ==
    ASSUME NEW s \in Requests, FitsPhase(s),
           pc'[s] = pc[s], want'[s] = want[s], held'[s] = held[s]
    PROVE  FitsPhase(s)'
BY DEF FitsPhase, InQueue, HoldsMint

\* What an outcome owes about the count of waiting requests.
QueueFine == waitingUsers' \in [UserKeys -> Nat] /\ WaitingExact' /\ ThreadsBounded'

LEMMA GrantedInvariant ==
    ASSUME IInv, NEW r \in Requests, NEW g \in Grant,
           MayAsk(r, g), ~MustWait(g), Granted(r, g), QueueFine,
           UNCHANGED <<paused, idleWait>>
    PROVE  IInv'
<1> USE DEF IInv
<1>1. ActiveExact' /\ activeUsers' \in [UserKeys -> Nat]
  BY GrantedActive, CountsExactSplits
<1>2. TypeOK'
  BY <1>1 DEF TypeOK, Granted, QueueFine, Grant, Phases
<1>3. LockedExactlyByHolders'
  BY GrantedLocked
<1>4. CountsExact'
  BY <1>1, CountsExactSplits DEF QueueFine
<1>5. NoLostWakeup'
  <2> SUFFICES ASSUME NEW s \in Requests, pc'[s] = "blocked"
               PROVE  MustWait(want[s])'
    BY DEF NoLostWakeup
  <2>1. /\ s # r
        /\ pc[s] = "blocked"
        /\ want'[s] = want[s]
        /\ want[s] \in Grant
    BY DEF Granted, TypeOK, GrantsFitPhase, FitsPhase, InQueue
  <2>2. MustWait(want[s])
    BY <2>1 DEF NoLostWakeup
  <2>3. activeUsers'[want[s].user] >= activeUsers[want[s].user]
    BY <2>1 DEF Granted, TypeOK, Grant
  <2>4. want[s].user \in UserKeys
    BY <2>1 DEF Grant
  <2>5. QED
    BY <2>1, <2>2, <2>3, <2>4, <1>1, LockAssumption DEF MustWait, Granted, TypeOK
<1>6. GrantsFitPhase'
  <2>1. ASSUME NEW s \in Requests, s # r
        PROVE  /\ pc'[s] = pc[s]
               /\ held'[s] = held[s]
               /\ want'[s] = want[s]
    BY <2>1 DEF Granted, TypeOK
  <2>2. pc'[r] = "working" /\ want'[r] = NoGrant /\ held'[r] = held[r] \union {g}
    BY DEF Granted, TypeOK
  <2>3. \/ held'[r] = {g}
        \/ \E u \in Users, i, s \in LockIds :
              held'[r] = {MintGrant(u, s), OperationGrant(u, i)}
    <3>1. CASE held[r] = {}
      BY <2>2, <3>1
    <3>2. CASE ~g.user.shoulderLock /\ HoldsMint(r, g.user.name)
      <4>1. PICK h \in Grant : /\ held[r] = {h}
                               /\ h.user = [name |-> g.user.name, shoulderLock |-> TRUE]
        BY <3>2 DEF HoldsMint
      <4>2. g.user.name \in Users /\ g.id \in LockIds /\ h.id \in LockIds
        BY DEF Grant, UserKeys
      <4>3. h = MintGrant(g.user.name, h.id)
        BY <4>1 DEF MintGrant, Grant
      <4>4. g.user = [name |-> g.user.name, shoulderLock |-> FALSE]
        BY <3>2 DEF Grant, UserKeys
      <4>5. g = OperationGrant(g.user.name, g.id)
        BY <4>4 DEF OperationGrant, Grant
      <4>6. held'[r] = {MintGrant(g.user.name, h.id), OperationGrant(g.user.name, g.id)}
        BY <2>2, <4>1, <4>3, <4>5
      <4>7. QED
        BY <4>2, <4>6
    <3>3. QED
      BY <3>1, <3>2 DEF MayAsk
  <2>4. FitsPhase(r)'
    BY <2>2, <2>3 DEF FitsPhase, InQueue
  <2>5. ASSUME NEW s \in Requests, s # r
        PROVE  FitsPhase(s)'
    BY <2>1, <2>5, UntouchedFits DEF GrantsFitPhase
  <2>6. QED
    BY <2>4, <2>5 DEF GrantsFitPhase
<1>7. QED
  BY <1>2, <1>3, <1>4, <1>5, <1>6 DEF QueueFine

LEMMA RefusedInvariant ==
    ASSUME IInv, NEW r \in Requests, NEW g \in Grant,
           MayAsk(r, g), Refused(r), QueueFine, UNCHANGED <<paused, idleWait>>
    PROVE  IInv'
<1> USE DEF IInv
<1>1. ASSUME NEW s \in Requests, s # r
      PROVE  pc'[s] = pc[s] /\ want'[s] = want[s] /\ held'[s] = held[s]
  BY <1>1 DEF Refused, TypeOK
<1>2. /\ pc'[r] = IF held[r] = {} THEN "done" ELSE "closing"
      /\ want'[r] = NoGrant
      /\ held'[r] = held[r]
  BY DEF Refused, TypeOK
<1>3. TypeOK'
  BY DEF TypeOK, Refused, QueueFine, Phases
<1>4. LockedExactlyByHolders'
  BY DEF LockedExactlyByHolders, Refused
<1>5. CountsExact'
  <2>1. ActiveExact'
    BY CountsExactSplits DEF ActiveExact, ActiveUnder, Refused
  <2>2. QED
    BY <2>1, CountsExactSplits DEF QueueFine
<1>6. NoLostWakeup'
  BY <1>1, <1>2 DEF NoLostWakeup, MustWait, Refused
<1>7. GrantsFitPhase'
  <2>1. held[r] = {} \/ HoldsMint(r, g.user.name)
    BY DEF MayAsk
  <2>2. g.user.name \in Users
    BY DEF Grant, UserKeys
  <2>3. FitsPhase(r)'
    BY <1>2, <2>1, <2>2 DEF FitsPhase, InQueue, HoldsMint
  <2>4. ASSUME NEW s \in Requests, s # r
        PROVE  FitsPhase(s)'
    BY <1>1, <2>4, UntouchedFits DEF GrantsFitPhase
  <2>5. QED
    BY <2>3, <2>4 DEF GrantsFitPhase
<1>8. QED
  BY <1>3, <1>4, <1>5, <1>6, <1>7 DEF QueueFine

LEMMA AcquireInvariant ==
    ASSUME IInv, NEW r \in Requests, NEW g \in Grant,
           ~InQueue(r), MayAsk(r, g), Acquire(r, g)
    PROVE  IInv'
<1> USE DEF IInv
<1>1. WaitingExact
  BY CountsExactSplits
<1>2. UNCHANGED <<paused, idleWait>>
  BY DEF Acquire
<1>3. CASE ~MustWait(g) /\ Granted(r, g) /\ UNCHANGED waitingUsers
  <2>1. QueueKept(Requests)
    BY <1>3 DEF QueueKept, Granted, InQueue, TypeOK, GrantsFitPhase, FitsPhase
  <2>2. QueueFine
    BY <1>1, <1>3, <2>1, QueueUnchanged DEF QueueFine, TypeOK, ThreadsBounded
  <2>3. QED
    BY <1>2, <1>3, <2>2, GrantedInvariant
<1>4. CASE /\ MustWait(g)
           /\ TooManyThreads(g, waitingUsers[g.user])
           /\ Refused(r)
           /\ UNCHANGED waitingUsers
  <2>1. QueueKept(Requests)
    BY <1>4 DEF QueueKept, Refused, InQueue, TypeOK, GrantsFitPhase, FitsPhase
  <2>2. QueueFine
    BY <1>1, <1>4, <2>1, QueueUnchanged DEF QueueFine, TypeOK, ThreadsBounded
  <2>3. QED
    BY <1>2, <1>4, <2>2, RefusedInvariant
<1>5. CASE /\ MustWait(g)
           /\ ~TooManyThreads(g, waitingUsers[g.user])
           /\ StartWaiting(r, g)
  <2>1. ASSUME NEW s \in Requests, s # r
        PROVE  pc'[s] = pc[s] /\ want'[s] = want[s] /\ held'[s] = held[s]
    BY <1>5, <2>1 DEF StartWaiting, TypeOK
  <2>2. pc'[r] = "blocked" /\ want'[r] = g /\ held'[r] = held[r]
    BY <1>5 DEF StartWaiting, TypeOK
  <2>3. waitingUsers' \in [UserKeys -> Nat] /\ WaitingExact'
    <3>1. QueueKept(Requests \ {r}) /\ InQueue(r)'
      BY <2>1, <2>2 DEF QueueKept, InQueue
    <3>2. QED
      BY <1>1, <1>5, <2>2, <3>1, QueueEntered DEF StartWaiting
  <2>4. TypeOK'
    BY <1>2, <1>5, <2>3 DEF TypeOK, StartWaiting, Phases
  <2>5. LockedExactlyByHolders'
    BY <1>5 DEF LockedExactlyByHolders, StartWaiting
  <2>6. CountsExact'
    <3>1. ActiveExact'
      BY <1>5, CountsExactSplits DEF ActiveExact, ActiveUnder, StartWaiting
    <3>2. QED
      BY <2>3, <3>1, CountsExactSplits
  <2>7. NoLostWakeup'
    BY <1>2, <1>5, <2>1, <2>2 DEF NoLostWakeup, MustWait, StartWaiting
  <2>8. ThreadsBounded'
    <3>1. g.user \in UserKeys
      BY DEF Grant
    <3>2. waitingUsers[g.user] < MaxThreads
      BY <1>5, <3>1, LockAssumption DEF TooManyThreads, TypeOK
    <3>3. QED
      BY <1>5, <3>1, <3>2, LockAssumption DEF ThreadsBounded, StartWaiting, TypeOK
  <2>9. GrantsFitPhase'
    <3>1. FitsPhase(r)'
      BY <2>2 DEF FitsPhase, InQueue, MayAsk, HoldsMint
    <3>2. ASSUME NEW s \in Requests, s # r
          PROVE  FitsPhase(s)'
      BY <2>1, <3>2 DEF GrantsFitPhase, FitsPhase, InQueue, HoldsMint
    <3>3. QED
      BY <3>1, <3>2 DEF GrantsFitPhase
  <2>10. QED
    BY <2>4, <2>5, <2>6, <2>7, <2>8, <2>9
<1>6. QED
  BY <1>3, <1>4, <1>5 DEF Acquire

LEMMA ResumeInvariant ==
    ASSUME IInv, NEW r \in Requests, Resume(r)
    PROVE  IInv'
<1> DEFINE g == want[r]
           w == waitingUsers[g.user] - 1
<1> USE DEF IInv
<1>1. /\ WaitingExact
      /\ pc[r] = "awake" /\ InQueue(r)
      /\ UNCHANGED <<paused, idleWait>>
  BY CountsExactSplits DEF Resume, InQueue
<1>2. g \in Grant /\ MayAsk(r, g)
  BY <1>1 DEF GrantsFitPhase, FitsPhase, MayAsk
<1>3. g.user \in UserKeys
  BY <1>2 DEF Grant
<1>4. ASSUME waitingUsers' = [waitingUsers EXCEPT ![g.user] = w],
             ~InQueue(r)', QueueKept(Requests \ {r})
      PROVE  QueueFine
  <2>1. waitingUsers' \in [UserKeys -> Nat] /\ WaitingExact'
    BY <1>1, <1>2, <1>4, QueueLeft
  <2>2. ThreadsBounded'
    BY <1>3, <1>4, LockAssumption DEF ThreadsBounded, TypeOK
  <2>3. QED
    BY <2>1, <2>2 DEF QueueFine
<1>5. CASE /\ ~MustWait(g)
           /\ Granted(r, g)
           /\ waitingUsers' = [waitingUsers EXCEPT ![g.user] = w]
  <2>1. ~InQueue(r)' /\ QueueKept(Requests \ {r})
    BY <1>5 DEF QueueKept, Granted, InQueue, TypeOK
  <2>2. QED
    BY <1>1, <1>2, <1>4, <1>5, <2>1, GrantedInvariant
<1>6. CASE /\ MustWait(g)
           /\ TooManyThreads(g, w)
           /\ Refused(r)
           /\ waitingUsers' = [waitingUsers EXCEPT ![g.user] = w]
  <2>1. ~InQueue(r)' /\ QueueKept(Requests \ {r})
    BY <1>6 DEF QueueKept, Refused, InQueue, TypeOK
  <2>2. QED
    BY <1>1, <1>2, <1>4, <1>6, <2>1, RefusedInvariant
<1>7. CASE /\ MustWait(g)
           /\ pc' = [pc EXCEPT ![r] = "blocked"]
           /\ UNCHANGED <<counts, want, held>>
  <2>1. TypeOK'
    BY <1>1, <1>7 DEF TypeOK, Phases, counts
  <2>2. \A s \in Requests : InQueue(s)' <=> InQueue(s)
    BY <1>1, <1>7 DEF InQueue, TypeOK
  <2>3. LockedExactlyByHolders' /\ ThreadsBounded'
    BY <1>7 DEF LockedExactlyByHolders, ThreadsBounded, counts
  <2>4. CountsExact'
    BY <1>7, <2>2 DEF CountsExact, ActiveUnder, WaitingUnder, counts
  <2>5. NoLostWakeup'
    BY <1>1, <1>7 DEF NoLostWakeup, MustWait, counts, TypeOK
  <2>6. GrantsFitPhase'
    <3>1. FitsPhase(r)'
      BY <1>1, <1>7 DEF GrantsFitPhase, FitsPhase, InQueue, HoldsMint, TypeOK
    <3>2. ASSUME NEW s \in Requests, s # r
          PROVE  FitsPhase(s)'
      BY <1>7, <3>2 DEF GrantsFitPhase, FitsPhase, InQueue, HoldsMint, TypeOK
    <3>3. QED
      BY <3>1, <3>2 DEF GrantsFitPhase
  <2>7. QED
    BY <2>1, <2>3, <2>4, <2>5, <2>6
<1>8. QED
  BY <1>5, <1>6, <1>7 DEF Resume

-----------------------------------------------------------------------------
(* Releases, pauses and the whole next-state relation *)

\* Waking the waiters changes no one's place in the queue.
LEMMA NotifyKeepsQueue ==
    ASSUME IInv, NEW q \in [Requests -> Phases], pc' = NotifyAll(q), want' = want
    PROVE  /\ pc' \in [Requests -> Phases]
           /\ \A s \in Requests : pc'[s] # "blocked"
           /\ \A s \in Requests : pc'[s] = q[s]
                                  \/ (q[s] = "blocked" /\ pc'[s] = "awake")
  BY DEF NotifyAll, Phases

LEMMA ReleaseInvariant ==
    ASSUME IInv, NEW r \in Requests, pc[r] \in {"working", "closing"},
           NEW g \in held[r], NEW next \in {"done", "closing"}, Release(r, g, next),
           next = "done" => held[r] = {g},
           next = "closing" => held[r] # {g} /\ ~g.user.shoulderLock
    PROVE  IInv'
<1> USE DEF IInv
<1> DEFINE q == [pc EXCEPT ![r] = next]
<1>1. q \in [Requests -> Phases]
  BY DEF TypeOK, Phases
<1>2. pc' = NotifyAll(q) /\ want' = want
  BY DEF Release
<1> HIDE DEF q
<1>3. /\ pc' \in [Requests -> Phases]
      /\ \A s \in Requests : pc'[s] # "blocked"
      /\ pc'[r] = next
      /\ \A s \in Requests \ {r} : pc'[s] = pc[s]
                                   \/ (pc[s] = "blocked" /\ pc'[s] = "awake")
  <2>1. q[r] = next /\ \A s \in Requests \ {r} : q[s] = pc[s]
    BY DEF q, TypeOK
  <2>2. QED
    BY <1>1, <1>2, <2>1, NotifyKeepsQueue
<1>4. ActiveExact' /\ activeUsers' \in [UserKeys -> Nat]
  BY ReleaseActive, CountsExactSplits
<1>5. TypeOK'
  BY <1>3, <1>4 DEF TypeOK, Release
<1>6. LockedExactlyByHolders'
  BY ReleaseLocked
<1>7. CountsExact'
  <2>1. QueueKept(Requests)
    BY <1>2, <1>3 DEF QueueKept, InQueue
  <2>2. WaitingExact'
    BY <2>1, QueueUnchanged, CountsExactSplits DEF Release
  <2>3. QED
    BY <1>4, <2>2, CountsExactSplits
<1>8. NoLostWakeup' /\ ThreadsBounded'
  BY <1>3 DEF NoLostWakeup, ThreadsBounded, Release
<1>9. GrantsFitPhase'
  <2>1. held'[r] = held[r] \ {g} /\ \A s \in Requests \ {r} : held'[s] = held[s]
    BY DEF Release, TypeOK
  <2>2. FitsPhase(r)'
    <3>1. CASE next = "done"
      BY <1>2, <1>3, <2>1, <3>1 DEF GrantsFitPhase, FitsPhase, InQueue
    <3>2. CASE next = "closing"
      <4>1. PICK u \in Users, i \in LockIds, s \in LockIds :
                held[r] = {MintGrant(u, s), OperationGrant(u, i)}
        BY <3>2 DEF GrantsFitPhase, FitsPhase, HoldsMint
      <4>2. g = OperationGrant(u, i)
        BY <3>2, <4>1 DEF MintGrant
      <4>3. held'[r] = {MintGrant(u, s)}
        BY <2>1, <4>1, <4>2 DEF MintGrant, OperationGrant
      <4>4. /\ MintGrant(u, s) \in Grant
            /\ MintGrant(u, s).user = [name |-> u, shoulderLock |-> TRUE]
        BY DEF MintGrant, Grant, UserKeys
      <4>5. HoldsMint(r, u)'
        BY <4>3, <4>4 DEF HoldsMint
      <4>6. want'[r] = NoGrant /\ pc'[r] = "closing"
        BY <1>2, <1>3, <3>2 DEF GrantsFitPhase, FitsPhase, InQueue
      <4>7. QED
        BY <4>5, <4>6 DEF FitsPhase, InQueue
    <3>3. QED
      BY <3>1, <3>2
  <2>3. ASSUME NEW s \in Requests, s # r
        PROVE  FitsPhase(s)'
    <3>1. /\ want'[s] = want[s]
          /\ held'[s] = held[s]
          /\ InQueue(s)' <=> InQueue(s)
          /\ pc'[s] = pc[s] \/ InQueue(s)
          /\ \A u : HoldsMint(s, u) => HoldsMint(s, u)'
      BY <1>2, <1>3, <2>1, <2>3 DEF InQueue, HoldsMint
    <3>2. QED
      BY <3>1 DEF GrantsFitPhase, FitsPhase, InQueue
  <2>4. QED
    BY <2>2, <2>3 DEF GrantsFitPhase
<1>10. QED
  BY <1>5, <1>6, <1>7, <1>8, <1>9

LEMMA UnpauseInvariant == ASSUME IInv, Unpause PROVE IInv'
<1> USE DEF IInv
<1>1. pc \in [Requests -> Phases] /\ pc' = NotifyAll(pc) /\ want' = want
  BY DEF Unpause, TypeOK
<1>2. /\ pc' \in [Requests -> Phases]
      /\ \A s \in Requests : pc'[s] # "blocked"
      /\ \A s \in Requests : pc'[s] = pc[s] \/ (pc[s] = "blocked" /\ pc'[s] = "awake")
  BY <1>1, NotifyKeepsQueue
<1>3. TypeOK' /\ LockedExactlyByHolders' /\ NoLostWakeup' /\ ThreadsBounded'
  <2>1. TypeOK'
    BY <1>2 DEF Unpause, counts, TypeOK
  <2>2. LockedExactlyByHolders' /\ ThreadsBounded'
    BY DEF Unpause, counts, LockedExactlyByHolders, ThreadsBounded
  <2>3. NoLostWakeup'
    BY <1>2 DEF NoLostWakeup
  <2>4. QED
    BY <2>1, <2>2, <2>3
<1>4. CountsExact'
  <2>1. \A s \in Requests : InQueue(s)' <=> InQueue(s)
    BY <1>2 DEF InQueue
  <2>2. QED
    BY <2>1 DEF Unpause, counts, CountsExact, ActiveUnder, WaitingUnder
<1>5. GrantsFitPhase'
  <2>1. ASSUME NEW s \in Requests PROVE FitsPhase(s)'
    BY <1>1, <1>2, <2>1 DEF Unpause, counts, GrantsFitPhase, FitsPhase, InQueue, HoldsMint
  <2>2. QED
    BY <2>1 DEF GrantsFitPhase
<1>6. QED
  BY <1>3, <1>4, <1>5

\* The grants the callers ask for.
LEMMA CallersGrants ==
    ASSUME NEW u \in Users
    PROVE  /\ \A i \in Identifiers : /\ OperationGrant(u, i) \in Grant
                                    /\ ~OperationGrant(u, i).user.shoulderLock
                                    /\ OperationGrant(u, i).user.name = u
           /\ \A s \in Shoulders : MintGrant(u, s) \in Grant
  BY DEF OperationGrant, MintGrant, Grant, UserKeys, LockIds

LEMMA StartInvariant == ASSUME IInv, NEW r \in Requests, Start(r) PROVE IInv'
<1> USE DEF IInv
<1>1. \A g : pc[r] = "new" => ~InQueue(r) /\ MayAsk(r, g)
  BY DEF InQueue, MayAsk, GrantsFitPhase, FitsPhase
<1>2. ASSUME NEW u \in Users, NEW i \in Identifiers, StartOperation(r, u, i)
      PROVE  IInv'
  BY <1>1, <1>2, CallersGrants, AcquireInvariant DEF StartOperation
<1>3. ASSUME NEW u \in Users, NEW s \in Shoulders, StartMint(r, u, s)
      PROVE  IInv'
  BY <1>1, <1>3, CallersGrants, AcquireInvariant DEF StartMint
<1>4. QED
  BY <1>2, <1>3 DEF Start

LEMMA CreateMintedInvariant ==
    ASSUME IInv, NEW r \in Requests, NEW i \in Identifiers, CreateMinted(r, i)
    PROVE  IInv'
<1>1. PICK g \in held[r] : /\ held[r] = {g}
                           /\ g.user.shoulderLock
                           /\ Acquire(r, OperationGrant(g.user.name, i))
  BY DEF CreateMinted
<1>2. g \in Grant /\ g.user.name \in Users
  BY DEF IInv, TypeOK, Grant, UserKeys
<1>3. g.user = [name |-> g.user.name, shoulderLock |-> TRUE]
  BY <1>1, <1>2 DEF Grant, UserKeys
<1> DEFINE want_ == OperationGrant(g.user.name, i)
<1>4. want_ \in Grant /\ ~want_.user.shoulderLock /\ want_.user.name = g.user.name
  BY <1>2, CallersGrants
<1>5. HoldsMint(r, g.user.name)
  BY <1>1, <1>2, <1>3 DEF HoldsMint
<1>6. MayAsk(r, want_)
  BY <1>4, <1>5 DEF MayAsk
<1>7. ~InQueue(r)
  BY DEF CreateMinted, InQueue
<1> HIDE DEF want_
<1>8. Acquire(r, want_)
  BY <1>1 DEF want_
<1>9. QED
  BY <1>4, <1>6, <1>7, <1>8, AcquireInvariant

LEMMA FinishInvariant ==
    ASSUME IInv, NEW r \in Requests, FinishOperation(r) \/ FinishMint(r)
    PROVE  IInv'
<1>1. CASE FinishOperation(r)
  <2>1. PICK g \in held[r] :
            /\ ~g.user.shoulderLock
            /\ Release(r, g, IF held[r] = {g} THEN "done" ELSE "closing")
    BY <1>1 DEF FinishOperation
  <2>2. QED
    BY <1>1, <2>1, ReleaseInvariant DEF FinishOperation
<1>2. CASE FinishMint(r)
  <2>1. PICK g \in held[r] : held[r] = {g} /\ Release(r, g, "done")
    BY <1>2 DEF FinishMint
  <2>2. QED
    BY <1>2, <2>1, ReleaseInvariant DEF FinishMint
<1>3. QED
  BY <1>1, <1>2

\* Pausing removes no reason to wait.
LEMMA PauseInvariant ==
    ASSUME IInv, Pause \/ StartIdleWait \/ FinishIdleWait
    PROVE  IInv'
<1> USE DEF IInv
<1>1. /\ UNCHANGED <<counts, pc, want, held>>
      /\ paused' \in BOOLEAN /\ idleWait' \in BOOLEAN
      /\ paused => paused'
  BY DEF Pause, StartIdleWait, FinishIdleWait, TypeOK
<1>2. TypeOK' /\ LockedExactlyByHolders' /\ ThreadsBounded'
  BY <1>1 DEF TypeOK, LockedExactlyByHolders, ThreadsBounded, counts
<1>3. CountsExact'
  BY <1>1 DEF CountsExact, ActiveUnder, WaitingUnder, InQueue, counts
<1>4. NoLostWakeup'
  BY <1>1 DEF NoLostWakeup, MustWait, counts
<1>5. GrantsFitPhase'
  BY <1>1 DEF GrantsFitPhase, FitsPhase, InQueue, HoldsMint, counts
<1>6. QED
  BY <1>2, <1>3, <1>4, <1>5

LEMMA StutterInvariant == ASSUME IInv, UNCHANGED vars PROVE IInv'
<1> USE DEF IInv, vars
<1>1. TypeOK' /\ LockedExactlyByHolders' /\ ThreadsBounded'
  BY DEF TypeOK, LockedExactlyByHolders, ThreadsBounded
<1>2. CountsExact' /\ NoLostWakeup'
  BY DEF CountsExact, ActiveUnder, WaitingUnder, InQueue, NoLostWakeup, MustWait
<1>3. GrantsFitPhase'
  BY DEF GrantsFitPhase, FitsPhase, InQueue, HoldsMint
<1>4. QED
  BY <1>1, <1>2, <1>3

LEMMA NextInvariant == IInv /\ [Next]_vars => IInv'
<1> SUFFICES ASSUME IInv, [Next]_vars PROVE IInv'
  OBVIOUS
<1>1. ASSUME NEW r \in Requests, Start(r) PROVE IInv'
  BY <1>1, StartInvariant
<1>2. ASSUME NEW r \in Requests, Proceed(r) PROVE IInv'
  BY <1>2, ResumeInvariant, CreateMintedInvariant, FinishInvariant DEF Proceed
<1>3. CASE Pause \/ StartIdleWait \/ FinishIdleWait
  BY <1>3, PauseInvariant
<1>4. CASE Unpause
  BY <1>4, UnpauseInvariant
<1>5. CASE UNCHANGED vars
  BY <1>5, StutterInvariant
<1>6. QED
  BY <1>1, <1>2, <1>3, <1>4, <1>5 DEF Next

-----------------------------------------------------------------------------
(* The theorems *)

\* The invariant is inductive, so the lock's state is sound in every
\* reachable state, however many requests, users and identifiers there are.
THEOREM Inductive == Spec => []IInv
<1>1. QED
  BY InitInvariant, NextInvariant, PTL DEF Spec

\* The variables keep their types: no count goes below zero, so
\* _decrementCount never meets a missing key.
THEOREM TypeCorrect == Spec => []TypeOK
<1>1. IInv => TypeOK
  BY DEF IInv
<1>2. QED
  BY <1>1, Inductive, PTL

\* A request that was answered holds nothing and a waiting one at most its own
\* shoulder: each acquire of ezid.py has exactly one release.
THEOREM LocksPaired == Spec => []GrantsFitPhase
<1>1. IInv => GrantsFitPhase
  BY DEF IInv
<1>2. QED
  BY <1>1, Inductive, PTL

\* No identifier is ever operated on by two requests of the server at once,
\* and an identifier is locked exactly while somebody will release it.
THEOREM MutualExclusion == Spec => []LockedExactlyByHolders
<1>1. IInv => LockedExactlyByHolders
  BY DEF IInv
<1>2. QED
  BY <1>1, Inductive, PTL

\* The per-user counts are exact and the throttle is respected.
THEOREM Throttle == Spec => []CountsExact
<1>1. IInv => CountsExact
  BY DEF IInv
<1>2. QED
  BY <1>1, Inductive, PTL

\* Nobody sleeps in wait() without a reason.
THEOREM WakeupsComplete == Spec => []NoLostWakeup
<1>1. IInv => NoLostWakeup
  BY DEF IInv
<1>2. QED
  BY <1>1, Inductive, PTL

\* A user's requests waiting in the server are bounded.
THEOREM WaitingBounded == Spec => []ThreadsBounded
<1>1. IInv => ThreadsBounded
  BY DEF IInv
<1>2. QED
  BY <1>1, Inductive, PTL

-----------------------------------------------------------------------------
(* The lock implements ThrottledMutex *)

\* A grant as the abstract specification sees it.
Abstract(r, g) == [holder |-> r, id |-> g.id, user |-> g.user]

LEMMA GrantsHeldMembers ==
    /\ \A x : x \in GrantsHeld <=> \E r \in Requests : \E g \in held[r] : x = Abstract(r, g)
    /\ \A x : x \in GrantsHeld' <=> \E r \in Requests : \E g \in held'[r] : x = Abstract(r, g)
  BY DEF GrantsHeld, GrantsOf, Abstract

\* The abstract grants under a key are no more than the requests active under
\* it, which the concrete count bounds.
LEMMA AbstractThrottle ==
    ASSUME IInv, NEW k \in UserKeys
    PROVE  /\ IsFiniteSet({x \in GrantsHeld : x.user = k})
           /\ Cardinality({x \in GrantsHeld : x.user = k}) \in Nat
           /\ Cardinality({x \in GrantsHeld : x.user = k}) <= activeUsers[k]
<1> DEFINE T == {x \in GrantsHeld : x.user = k}
           S == ActiveUnder(k)
           f == [r \in S |-> Abstract(r, CHOOSE g \in held[r] : g.user = k)]
<1> USE DEF IInv
<1>1. ASSUME NEW r \in S
      PROVE  f[r] \in T
  <2>1. PICK g \in held[r] : g = (CHOOSE h \in held[r] : h.user = k) /\ g.user = k
    BY DEF ActiveUnder
  <2>2. r \in Requests /\ f[r] = Abstract(r, g)
    BY <2>1 DEF ActiveUnder
  <2>3. f[r].user = k
    BY <2>1, <2>2 DEF Abstract
  <2>4. QED
    BY <2>2, <2>3, GrantsHeldMembers
<1>2. ASSUME NEW x \in T
      PROVE  \E r \in S : f[r] = x
  <2>1. PICK r \in Requests : \E g \in held[r] : x = Abstract(r, g)
    BY GrantsHeldMembers
  <2>2. PICK g \in held[r] : x = Abstract(r, g)
    BY <2>1
  <2>3. g.user = k
    BY <2>2 DEF Abstract
  <2>4. r \in S
    BY <2>3 DEF ActiveUnder
  <2>5. g = CHOOSE h \in held[r] : h.user = k
    BY <2>3, OneGrantPerKey
  <2>6. QED
    BY <2>2, <2>4, <2>5
<1>3. f \in Surjection(S, T)
  <2>1. f \in [S -> T]
    BY <1>1
  <2>2. QED
    BY <1>2, <2>1 DEF Surjection
<1>4. IsFiniteSet(S) /\ Cardinality(S) = activeUsers[k]
  BY CountedSetsFinite DEF CountsExact
<1>5. IsFiniteSet(T) /\ Cardinality(T) <= Cardinality(S)
  BY <1>3, <1>4, FS_Surjection
<1>6. QED
  BY <1>4, <1>5, FS_CardinalityType

\* Cardinality as the instance of ThrottledMutex sees it.
LEMMA SameCardinality == \A S : Mutex!Cardinality(S) = Cardinality(S)
  BY DEF Mutex!Cardinality, Cardinality

\* A grant is an abstract Take.
LEMMA GrantedTakes ==
    ASSUME IInv, NEW r \in Requests, NEW g \in Grant, ~MustWait(g), Granted(r, g),
           UNCHANGED paused
    PROVE  Mutex!Next
<1> DEFINE x == Abstract(r, g)
<1> USE DEF IInv
<1>1. x \in Mutex!Grants /\ x.id = g.id /\ x.user = g.user
  BY DEF Mutex!Grants, Abstract, Grant
<1>2. ~paused
  BY DEF MustWait
<1>3. \A h \in GrantsHeld : h.id # x.id
  <2>1. \A s \in Requests : \A h \in held[s] : h.id # g.id
    BY DEF MustWait, LockedExactlyByHolders
  <2>2. QED
    BY <1>1, <2>1, GrantsHeldMembers DEF Abstract
<1>4. Cardinality({h \in GrantsHeld : h.user = x.user}) < MaxConcurrent
  <2>1. g.user \in UserKeys
    BY DEF Grant
  <2>2. activeUsers[g.user] \in Nat /\ activeUsers[g.user] < MaxConcurrent
    BY <2>1, LockAssumption DEF MustWait, TypeOK
  <2>3. QED
    BY <1>1, <2>1, <2>2, AbstractThrottle, LockAssumption
<1>5. GrantsHeld' = GrantsHeld \union {x}
  <2>1. \A s \in Requests : held'[s] = IF s = r THEN held[s] \union {g} ELSE held[s]
    BY DEF Granted, TypeOK
  <2>2. \A y : y \in GrantsHeld' <=> y \in GrantsHeld \/ y = x
    BY <2>1, GrantsHeldMembers
  <2>3. QED
    BY <2>2
<1>6. Mutex!Take(x)
  BY <1>2, <1>3, <1>4, <1>5, SameCardinality DEF Mutex!Take
<1>7. QED
  BY <1>1, <1>6 DEF Mutex!Next

\* A release is an abstract Give.
LEMMA ReleaseGives ==
    ASSUME IInv, NEW r \in Requests, NEW g \in held[r], NEW next, Release(r, g, next)
    PROVE  Mutex!Next
<1> DEFINE x == Abstract(r, g)
<1> USE DEF IInv
<1>1. x \in Mutex!Grants
  BY DEF Mutex!Grants, Abstract, Grant, TypeOK
<1>2. x \in GrantsHeld
  BY GrantsHeldMembers
<1>3. \A s \in Requests : held'[s] = IF s = r THEN held[s] \ {g} ELSE held[s]
  BY DEF Release, TypeOK
<1>4. \A s \in Requests : \A h \in held[s] : Abstract(s, h) = x <=> (s = r /\ h = g)
  <2>1. \A s \in Requests : \A h \in held[s] : h.id = g.id => s = r /\ h = g
    BY DEF LockedExactlyByHolders
  <2>2. QED
    BY <2>1 DEF Abstract
<1>5. \A y : y \in GrantsHeld' <=> y \in GrantsHeld /\ y # x
  <2>1. \A s \in Requests : \A h : h \in held'[s] <=> h \in held[s] /\ Abstract(s, h) # x
    BY <1>3, <1>4
  <2>2. \A y : y \in GrantsHeld'
                <=> \E s \in Requests : \E h \in held[s] : y = Abstract(s, h) /\ y # x
    BY <2>1, GrantsHeldMembers
  <2>3. QED
    BY <2>2, GrantsHeldMembers
<1> HIDE DEF x
<1>6. GrantsHeld' = GrantsHeld \ {x}
  BY <1>5
<1>7. Mutex!Give(x)
  BY <1>2, <1>6 DEF Mutex!Give, Release
<1>8. QED
  BY <1>1, <1>7 DEF Mutex!Next

\* Everything else leaves the grants alone and at most pauses or resumes.
LEMMA OthersStutter ==
    ASSUME paused' \in BOOLEAN, held' = held
    PROVE  [Mutex!Next]_Mutex!vars
<1>1. GrantsHeld' = GrantsHeld
  BY DEF GrantsHeld, GrantsOf
<1>2. Mutex!SetFrozen(paused')
  BY <1>1 DEF Mutex!SetFrozen
<1>3. QED
  BY <1>2 DEF Mutex!Next

LEMMA AcquireImplements ==
    ASSUME IInv, NEW r \in Requests, NEW g \in Grant, Acquire(r, g)
    PROVE  [Mutex!Next]_Mutex!vars
<1>1. paused' = paused /\ paused \in BOOLEAN
  BY DEF Acquire, IInv, TypeOK
<1>2. CASE ~MustWait(g) /\ Granted(r, g)
  BY <1>1, <1>2, GrantedTakes
<1>3. CASE Refused(r) \/ StartWaiting(r, g)
  BY <1>1, <1>3, OthersStutter DEF Refused, StartWaiting
<1>4. QED
  BY <1>2, <1>3 DEF Acquire

LEMMA ResumeImplements ==
    ASSUME IInv, NEW r \in Requests, Resume(r)
    PROVE  [Mutex!Next]_Mutex!vars
<1>1. /\ paused' = paused /\ paused \in BOOLEAN
      /\ want[r] \in Grant
  BY DEF Resume, IInv, TypeOK, GrantsFitPhase, FitsPhase, InQueue
<1>2. CASE ~MustWait(want[r]) /\ Granted(r, want[r])
  BY <1>1, <1>2, GrantedTakes
<1>3. CASE held' = held
  BY <1>1, <1>3, OthersStutter
<1>4. QED
  BY <1>2, <1>3 DEF Resume, Refused

LEMMA StepImplements == IInv /\ [Next]_vars => [Mutex!Next]_Mutex!vars
<1> SUFFICES ASSUME IInv, [Next]_vars PROVE [Mutex!Next]_Mutex!vars
  OBVIOUS
<1>1. ASSUME NEW r \in Requests, Start(r) PROVE [Mutex!Next]_Mutex!vars
  BY <1>1, CallersGrants, AcquireImplements DEF Start, StartOperation, StartMint
<1>2. ASSUME NEW r \in Requests, Resume(r) PROVE [Mutex!Next]_Mutex!vars
  BY <1>2, ResumeImplements
<1>3. ASSUME NEW r \in Requests, NEW i \in Identifiers, CreateMinted(r, i)
      PROVE  [Mutex!Next]_Mutex!vars
  <2>1. PICK g \in held[r] : Acquire(r, OperationGrant(g.user.name, i))
    BY <1>3 DEF CreateMinted
  <2>2. g.user.name \in Users
    BY DEF IInv, TypeOK, Grant, UserKeys
  <2>3. QED
    BY <2>1, <2>2, CallersGrants, AcquireImplements
<1>4. ASSUME NEW r \in Requests, FinishOperation(r) \/ FinishMint(r)
      PROVE  [Mutex!Next]_Mutex!vars
  <2>1. \E g \in held[r], next \in {"done", "closing"} : Release(r, g, next)
    BY <1>4 DEF FinishOperation, FinishMint
  <2>2. QED
    BY <2>1, ReleaseGives
<1>5. CASE Pause \/ Unpause \/ StartIdleWait \/ FinishIdleWait \/ UNCHANGED vars
  BY <1>5, OthersStutter DEF Pause, Unpause, StartIdleWait, FinishIdleWait, vars, IInv, TypeOK
<1>6. QED
  BY <1>1, <1>2, <1>3, <1>4, <1>5 DEF Next, Proceed

\* The lock, with its counters, its condition variable and its nested mint
\* locks, implements the throttled mutex: one holder per identifier, at most
\* MaxConcurrent grants per user, none given while the server is paused.
THEOREM LockImplementsMutex == Spec => ImplementsMutex
<1>1. Init => Mutex!Init
  <2>1. Init => GrantsHeld = {}
    BY DEF Init, GrantsHeld, GrantsOf
  <2>2. QED
    BY <2>1 DEF Init, Mutex!Init
<1>2. QED
  BY <1>1, StepImplements, Inductive, PTL DEF Spec, Mutex!Spec, ImplementsMutex
=============================================================================
