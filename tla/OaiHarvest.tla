------------------------------ MODULE OaiHarvest ------------------------------
(***************************************************************************)
(* Harvesting by OAI-PMH, impl/oai.py: an external harvester reads table   *)
(* SearchIdentifier in the order of the update times, a batch at a time,   *)
(* while the search indexer goes on writing it.                            *)
(*                                                                         *)
(* All that is kept between two requests is the resumption token, which    *)
(* says from which update time (exclusive) to which (inclusive) to go on.  *)
(* Several identifiers may have one update time, a second, so a batch ends *)
(* before the last time it has met.                                        *)
(*                                                                         *)
(* An identifier that harvesting does not show (not public, not exported,  *)
(* a test, without metadata or a target of its own, or deleted) has the    *)
(* update time 0 here.  The harvester repeats its harvest from the time at *)
(* which it last began one.                                                *)
(* At first all identifiers have been written in one and the same second.  *)
(***************************************************************************)
EXTENDS Naturals, FiniteSets

CONSTANTS
    Identifiers,
    BatchSize,       \* OAI_BATCH_SIZE
    NoLimit,         \* no 'until'
    NoHarvest,
    Untils,          \* bound: what a harvester asks for as 'until'
    MaxTime,         \* bound: the clock
    MaxPending,      \* bound: snapshots waiting for the indexer
    MaxUpdates       \* bound: updates of identifiers

ASSUME OaiAssumption ==
    /\ IsFiniteSet(Identifiers)
    /\ BatchSize \in Nat \ {0} /\ MaxTime \in Nat \ {0} /\ MaxPending \in Nat /\ MaxUpdates \in Nat
    /\ NoLimit \notin Nat

Times == 1 .. MaxTime

ASSUME UntilsAssumption == Untils \subseteq Times \union {NoLimit}

Tokens == [from_ : 0 .. MaxTime, until : Times \union {NoLimit}, size : Nat \ {0}]

ASSUME TokenAssumption == NoHarvest \notin Tokens

VARIABLES
    now,        \* the second
    updates,    \* updates made, for the bound
    pending,    \* <<identifier, update time>> of snapshots in the search queue
    rows,       \* identifier |-> update time in SearchIdentifier
    token,      \* the harvest in progress: its token, and the batch size tried
    copy,       \* identifier |-> datestamp of the record the harvester holds
    since,      \* when the harvest in progress began; 0 if none is
    last,       \* when the latest complete harvest began; 0 if none has
    touched,    \* identifiers whose row was written during the harvest in progress
    late        \* identifiers indexed after the harvest that looked for them

tableVars   == <<now, updates, pending, rows>>
harvestVars == <<token, copy, since, last>>
vars        == <<tableVars, harvestVars, touched, late>>

Init ==
    /\ now = 1 /\ updates = 0
    /\ pending = {}
    /\ rows = [i \in Identifiers |-> 1]
    /\ token = NoHarvest
    /\ copy = [i \in Identifiers |-> 0]
    /\ since = 0 /\ last = 0
    /\ touched = {} /\ late = {}

-----------------------------------------------------------------------------
(* The table                                                               *)

Tick ==
    /\ now < MaxTime
    /\ now' = now + 1
    /\ UNCHANGED <<updates, pending, rows, harvestVars, touched, late>>

\* An identifier is created, updated, withdrawn or deleted, and its snapshot
\* queued.
Update(i) ==
    /\ Cardinality(pending) < MaxPending /\ updates < MaxUpdates
    /\ updates' = updates + 1
    /\ \E time \in {0, now} : pending' = pending \union {<<i, time>>}
    /\ UNCHANGED <<now, rows, harvestVars, touched, late>>

\* What the next complete harvest will not ask for any more.
Passed == IF token # NoHarvest /\ token.until = NoLimit THEN since ELSE last

\* The search indexer writes a row.
Index(i, time) ==
    /\ <<i, time>> \in pending
    /\ pending' = pending \ {<<i, time>>}
    /\ rows' = [rows EXCEPT ![i] = time]
    /\ touched' = IF token = NoHarvest THEN {} ELSE touched \union {i}
    /\ late' = IF time # 0 /\ time < Passed THEN late \union {i} ELSE late \ {i}
    /\ UNCHANGED <<now, updates, harvestVars>>

-----------------------------------------------------------------------------
(* The harvester                                                           *)

\* Mutant: 'from' is taken as exclusive.
FirstFromExclusive == last

\* from_ of a harvest from the time of the last one, which is inclusive in
\* OAI-PMH and exclusive in EZID.
FirstFrom == IF last = 0 THEN 0 ELSE last - 1

\* A request without a token.
Begin(until) ==
    /\ token = NoHarvest
    /\ until # NoLimit => FirstFrom < until
    /\ token' = [from_ |-> FirstFrom, until |-> until, size |-> BatchSize]
    /\ since' = now
    /\ UNCHANGED <<tableVars, copy, last, touched, late>>

Within(time, from_, until) == time > from_ /\ (until # NoLimit => time <= until)

\* The rows a token asks for.
Matching == {i \in Identifiers : Within(rows[i], token.from_, token.until)}

\* ids: the first of them in the order of their times, in which those of one
\* time are in any.
IsBatch(ids) ==
    /\ ids \subseteq Matching
    /\ IF Cardinality(Matching) <= token.size THEN ids = Matching
                                              ELSE Cardinality(ids) = token.size
    /\ \A i \in ids, j \in Matching \ ids : rows[i] <= rows[j]

Full(ids) == Cardinality(ids) = token.size

\* Mutant: all of the batch is returned.
ReturnedWhole(ids) == ids

\* Those before the last time of a full batch.
Returned(ids) == {i \in ids : \E j \in ids : rows[i] < rows[j]}

\* ids[last]: one of the latest of a batch.
Latest(ids) == {i \in ids : \A j \in ids : rows[j] <= rows[i]}

Receive(ids) == copy' = [i \in Identifiers |-> IF i \in ids THEN rows[i] ELSE copy[i]]

\* The response without a token, or noRecordsMatch.
LastBatch ==
    /\ token # NoHarvest
    /\ \E ids \in SUBSET Identifiers : IsBatch(ids) /\ ~Full(ids) /\ Receive(ids)
    /\ token' = NoHarvest
    /\ last' = IF token.until = NoLimit THEN since ELSE last
    /\ since' = 0
    /\ touched' = {}
    /\ UNCHANGED <<tableVars, late>>

\* The response with a new token, and the request with it.
NextBatch ==
    /\ token # NoHarvest
    /\ \E ids \in SUBSET Identifiers :
          /\ IsBatch(ids) /\ Full(ids)
          /\ Receive(Returned(ids))
          /\ \E i \in Latest(Returned(ids)) :
                token' = [token EXCEPT !.from_ = rows[i], !.size = BatchSize]
    /\ UNCHANGED <<tableVars, since, last, touched, late>>

\* Mutant: the query is repeated as it was.
LargerSame(size) == size

Larger(size) == 2 * size

\* All of the batch has one time: _doHarvest calls itself, the query is made
\* anew.
Enlarge ==
    /\ token # NoHarvest
    /\ \E ids \in SUBSET Identifiers : IsBatch(ids) /\ Full(ids) /\ Returned(ids) = {}
    /\ token' = [token EXCEPT !.size = Larger(@)]
    /\ UNCHANGED <<tableVars, copy, since, last, touched, late>>

Serve == LastBatch \/ NextBatch \/ Enlarge

Next ==
    \/ Tick
    \/ \E i \in Identifiers : Update(i)
    \/ \E i \in Identifiers, time \in 0 .. MaxTime : Index(i, time)
    \/ \E until \in Untils : Begin(until)
    \/ Serve

Spec == Init /\ [][Next]_vars

\* A harvester goes on, and is answered.
FairSpec == Spec /\ WF_vars(Serve)

-----------------------------------------------------------------------------
TypeOK ==
    /\ now \in Times /\ updates \in 0 .. MaxUpdates
    /\ pending \subseteq Identifiers \X (0 .. MaxTime)
    /\ rows \in [Identifiers -> 0 .. MaxTime]
    /\ copy \in [Identifiers -> 0 .. MaxTime]
    /\ token \in Tokens \union {NoHarvest}
    /\ since \in 0 .. now /\ last \in 0 .. now
    /\ touched \subseteq Identifiers /\ late \subseteq Identifiers

\* A harvest that ends has returned every identifier of its range that nobody
\* wrote meanwhile, although times repeat at the end of a batch and rows before
\* and after it change between the requests.
HarvestComplete ==
    [][ token # NoHarvest /\ token' = NoHarvest =>
          \A i \in Identifiers \ touched :
              Within(rows[i], FirstFrom, token.until) => copy'[i] = rows[i] ]_vars

\* A harvester that repeats its harvests from the time of the last one holds the
\* newest record of everything older than that, except of what the indexer wrote
\* only after its time had been passed.
CaughtUp ==
    \A i \in Identifiers \ late : rows[i] # 0 /\ rows[i] < last => copy[i] = rows[i]

\* A harvest ends, also when more identifiers than a batch holds share a second.
HarvestEnds == token # NoHarvest ~> token = NoHarvest
=============================================================================
