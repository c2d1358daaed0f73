--------------------------- MODULE LinkCheckerProofs ---------------------------
(***************************************************************************)
(* Proofs about LinkChecker, for any identifiers, owners, threads, limits  *)
(* and thresholds: the threads never visit two links of one owner at once, *)
(* and a flag is raised only for a target that failed often enough.        *)
(*                                                                         *)
(* The threads agree on the owners through locked and workset (InRound);   *)
(* the worksets' rows stay in the table because it is merged only while no *)
(* thread runs.  The failures of a row never exceed those of the target    *)
(* that it has now (Counted), so whatever the update daemon keeps of the   *)
(* rows it has read was deserved when it read them (Judged).               *)
(***************************************************************************)
EXTENDS LinkChecker, SequenceTheorems, FiniteSetTheorems, TLAPS

\* Threads run only in a round, whose worksets hold rows of their owners; one
\* that visits a link has locked its owner, alone, and the owner's links are not
\* at their end.
InRound ==
    /\ \A w \in Workers : worker[w].at # "ended" => main = "join"
    /\ \A w \in Workers : worker[w].at = "visit" =>
          worker[w].user \in locked /\ workset[worker[w].user] # <<>>
    /\ \A v, w \in Workers :
          v # w /\ worker[v].at = "visit" /\ worker[w].at = "visit"
             => worker[v].user # worker[w].user
    /\ main = "join" => \A u \in Users : workset[u] \in Seq(RowsOf(u))

\* The failures of a row are of the target that it has now, and no more than there were.
Counted ==
    \A i \in Identifiers : table[i] # NoRow /\ table[i].failures > 0 =>
        /\ seen[i].target = table[i].link.target
        /\ seen[i].failures >= table[i].failures

\* The update daemon's copies of the rows.
Judged == failing \subseteq worthy /\ (flagsRead = 0 => failing = {})

IInv == Typed /\ InRound /\ Counted /\ Judged

-----------------------------------------------------------------------------
(* The constants and the worksets                                          *)

USE LinkAssumption, NoRowAssumption

LEMMA Number == Cardinality(Identifiers) \in Nat \ {0}
<1>1. Cardinality(Identifiers) \in Nat
  BY FS_CardinalityType
<1>2. Cardinality(Identifiers) # 0
  BY FS_EmptySet
<1>3. QED
  BY <1>1, <1>2

LEMMA OfferedIsLink ==
    ASSUME NEW i \in Identifiers, NEW l \in Offers[i]
    PROVE  l \in AllLinks
  BY DEF AllLinks, Range

LEMMA SeqOfSubset ==
    ASSUME NEW S, NEW T, S \subseteq T, NEW s \in Seq(S)
    PROVE  s \in Seq(T)
<1>1. s \in [1..Len(s) -> S] /\ Len(s) \in Nat
  OBVIOUS
<1>2. s \in [1..Len(s) -> T]
  BY <1>1
<1>3. QED
  BY <1>1, <1>2

LEMMA CappedTyped ==
    ASSUME NEW n \in Nat
    PROVE  /\ Capped(n) \in 0..Threshold /\ Capped(n) <= n
           /\ n > 0 => Capped(n) > 0
           /\ \A m \in Nat : m <= n => Capped(m) <= Capped(n)
<1>1. ASSUME NEW m \in Nat PROVE Capped(m) = IF m <= Threshold THEN m ELSE Threshold
  <2>1. \A x \in {m, Threshold} : x \in Nat
    OBVIOUS
  <2>2. CASE m <= Threshold
    BY <2>1, <2>2 DEF Capped, Min
  <2>3. CASE ~(m <= Threshold)
    BY <2>1, <2>3 DEF Capped, Min
  <2>4. QED
    BY <2>2, <2>3
<1>2. QED
  BY <1>1

LEMMA WantedTyped ==
    ASSUME NEW l \in AllLinks \union {NoLink}
    PROVE  Wanted(l) # NoLink => Wanted(l) \in AllLinks
  BY DEF Wanted

\* The link to be merged next is on the page.
LEMMA PageTyped ==
    ASSUME Typed
    PROVE  /\ cursor + 1 \in Identifiers /\ cursor + 1 \in DOMAIN Page
           /\ \A i \in DOMAIN Page : Page[i] \in AllLinks \union {NoLink}
<1>1. cursor + 1 \in Identifiers /\ cursor \in Nat
  BY Number DEF Typed, LastId
<1>2. CASE cursor + 1 \in DOMAIN page
  BY <1>1, <1>2 DEF Page, Typed
<1>3. CASE cursor + 1 \notin DOMAIN page
  <2> DEFINE S == cursor+1..LastId
  <2>1. cursor + 1 \in S /\ S \subseteq Identifiers
    BY <1>1, Number DEF LastId
  <2>2. {j \in S : j < cursor + 1} = {}
    BY <1>1, Number DEF LastId
  <2>3. cursor + 1 \in FirstPage(S) /\ FirstPage(S) \subseteq S
    <3> DEFINE Before(k) == {j \in S : j < k}
    <3>1. Cardinality(Before(cursor + 1)) = 0
      BY <2>2, FS_EmptySet
    <3>2. FirstPage(S) = {k \in S : Cardinality(Before(k)) < PageRows}
      BY DEF FirstPage
    <3> HIDE DEF S, Before
    <3>3. QED
      BY <2>1, <3>1, <3>2
  <2>4. Page = [i \in FirstPage(S) |-> links[i]]
    BY <1>3 DEF Page
  <2> HIDE DEF S
  <2>5. QED
    BY <1>1, <2>1, <2>3, <2>4 DEF Typed
<1>4. QED
  BY <1>2, <1>3

\* A workset holds rows of its owner.
LEMMA LoadTyped ==
    ASSUME Typed, NEW u \in Users, NEW s \in Load(u)
    PROVE  s \in Seq(RowsOf(u))
<1>1. CASE file[u] # "none"
  BY <1>1 DEF Load
<1>2. CASE file[u] = "none"
  <2> DEFINE Bad == ByCheckTime(Waiting(u) \intersect Failing(u))
             Good == ByCheckTime(Waiting(u) \ Failing(u))
  <2>0. Load(u) = {Limited(b \o g) : b \in Bad, g \in Good}
    BY <1>2 DEF Load
  <2> HIDE DEF Bad, Good
  <2>1. PICK bad \in Bad, good \in Good : s = Limited(bad \o good)
    BY <2>0
  <2>2. ASSUME NEW S \in SUBSET RowsOf(u), NEW r \in ByCheckTime(S)
        PROVE  r \in Seq(RowsOf(u))
    <3>1. IsFiniteSet(S)
      BY FS_Subset DEF RowsOf
    <3>2. Cardinality(S) \in Nat
      BY <3>1, FS_CardinalityType
    <3>3. r \in [1..Cardinality(S) -> S]
      BY DEF ByCheckTime, SetToSeqs
    <3>4. r \in [1..Cardinality(S) -> RowsOf(u)]
      BY <3>3
    <3>5. QED
      BY <3>2, <3>4
  <2>3. bad \in Seq(RowsOf(u)) /\ good \in Seq(RowsOf(u))
    <3>1. Waiting(u) \in SUBSET RowsOf(u)
      BY DEF Waiting
    <3>2. Waiting(u) \intersect Failing(u) \in SUBSET RowsOf(u)
          /\ Waiting(u) \ Failing(u) \in SUBSET RowsOf(u)
      BY <3>1
    <3>3. QED
      BY <2>2, <3>2 DEF Bad, Good
  <2>4. bad \o good \in Seq(RowsOf(u))
    BY <2>3, ConcatProperties
  <2> DEFINE all == bad \o good
             n == Min({MaxLinks, Len(all)})
  <2>5. n \in 0..Len(all)
    <3>1. Len(all) \in Nat
      BY <2>4
    <3>2. CASE MaxLinks <= Len(all)
      BY <3>1, <3>2 DEF Min
    <3>3. CASE ~(MaxLinks <= Len(all))
      BY <3>1, <3>3 DEF Min
    <3>4. QED
      BY <3>2, <3>3
  <2> HIDE DEF n
  <2>6. \A k \in 1..n : all[k] \in RowsOf(u)
    BY <2>4, <2>5
  <2>7. SubSeq(all, 1, n) \in Seq(RowsOf(u))
    BY <2>5, <2>6, SubSeqProperties
  <2>8. QED
    BY <2>1, <2>7 DEF n, Limited
<1>3. QED
  BY <1>1, <1>2

-----------------------------------------------------------------------------
(* Steps that leave the rounds, or the failures, alone                     *)

LEMMA RoundFrame ==
    ASSUME InRound, UNCHANGED <<table, main, workset, locked, worker>>
    PROVE  InRound'
<1>1. \A u \in Users : RowsOf(u)' = RowsOf(u)
  BY DEF RowsOf
<1>2. QED
  BY <1>1 DEF InRound

LEMMA CountFrame ==
    ASSUME Counted, UNCHANGED <<table, seen>>
    PROVE  Counted'
  BY DEF Counted

LEMMA JudgedFrame ==
    ASSUME Judged, UNCHANGED <<failing, flagsRead, worthy>>
    PROVE  Judged'
  BY DEF Judged

\* No thread runs outside of a round: what the table holds is free to change.
LEMMA NoRound ==
    ASSUME Typed, InRound, main' # "join", worker' = [w \in Workers |-> Ended]
    PROVE  InRound'
  BY DEF InRound, Ended

LEMMA InitHolds == Init => IInv
<1> SUFFICES ASSUME Init PROVE IInv
  OBVIOUS
<1>1. Anybody \in Users
  BY DEF Anybody
<1>2. links \in [Identifiers -> AllLinks \union {NoLink}]
  BY DEF Init
<1>3. cursor \in 0..LastId - 1
  BY Number DEF Init, LastId
<1>4. workset \in [Users -> Seq(Identifiers)]
  BY DEF Init
<1>5. Typed
  <2>1. worker \in [Workers -> [at : {"next", "visit", "ended"}, user : Users]]
    BY <1>1 DEF Init, Ended
  <2>2. seen \in [Identifiers -> [target : {l.target : l \in AllLinks} \union {NoLink},
                                  failures : 0..Threshold]]
    BY DEF Init
  <2>3. broken \in [Identifiers -> BOOLEAN] /\ table \in [Identifiers -> Rows \union {NoRow}]
    BY DEF Init
  <2>4. main \in {"merge", "load", "join"} /\ firstRound \in BOOLEAN /\ stopNow \in BOOLEAN
    BY DEF Init
  <2>5. locked \subseteq Users /\ file \in [Users -> Exclusion] /\ stale = <<>>
    BY DEF Init, Exclusion
  <2>6. events \in 0..MaxEvents
    BY DEF Init
  <2>7. DOMAIN page = {} /\ DOMAIN flags = {}
    BY DEF Init
  <2>8. flagsRead = 0 /\ failing = {} /\ rowsRead = 0 /\ signalled = FALSE /\ worthy = {}
    BY DEF Init
  <2>9. 0 \in 0..LastId
    BY Number DEF LastId
  <2>10. QED
    BY <1>2, <1>3, <1>4, <2>1, <2>2, <2>3, <2>4, <2>5, <2>6, <2>7, <2>8, <2>9 DEF Typed
<1>6. InRound
  BY DEF Init, InRound, Ended
<1>7. Counted
  BY DEF Init, Counted
<1>8. Judged
  BY DEF Init, Judged
<1>9. QED
  BY <1>5, <1>6, <1>7, <1>8 DEF IInv

-----------------------------------------------------------------------------
(* The main thread                                                         *)

LEMMA UpdateTableHolds == IInv /\ UpdateTable => IInv'
<1> SUFFICES ASSUME IInv, UpdateTable PROVE IInv'
  OBVIOUS
<1> DEFINE i == cursor + 1
           l == Wanted(Page[i])
<1>1. Typed /\ InRound /\ Counted /\ Judged
  BY DEF IInv
<1>2. i \in Identifiers
  BY <1>1, PageTyped
<1>3. \/ table' = table
      \/ table' = [table EXCEPT ![i] = NoRow]
      \/ l \in AllLinks /\ table' = [table EXCEPT ![i] = [link |-> l, failures |-> 0]]
  <2>1. l # NoLink => l \in AllLinks
    BY <1>1, PageTyped, WantedTyped
  <2>2. Merge(i, l)
    BY DEF UpdateTable
  <2> HIDE DEF l, i
  <2>3. QED
    BY <2>1, <2>2 DEF Merge
<1>4. \A j \in DOMAIN page' : page'[j] \in AllLinks \union {NoLink}
  BY <1>1, PageTyped DEF UpdateTable, Restrict
<1> HIDE DEF i, l
<1>5. table' \in [Identifiers -> Rows \union {NoRow}]
  <2>1. l \in AllLinks => [link |-> l, failures |-> 0] \in Rows
    BY DEF Rows
  <2>2. table \in [Identifiers -> Rows \union {NoRow}]
    BY <1>1 DEF Typed
  <2>3. CASE table' = table
    BY <2>2, <2>3
  <2>4. CASE table' = [table EXCEPT ![i] = NoRow]
    BY <1>2, <2>2, <2>4
  <2>5. CASE l \in AllLinks /\ table' = [table EXCEPT ![i] = [link |-> l, failures |-> 0]]
    BY <1>2, <2>1, <2>2, <2>5
  <2>6. QED
    BY <1>3, <2>3, <2>4, <2>5
<1>6. cursor' \in 0..LastId - 1
  BY <1>1, Number DEF Typed, UpdateTable, LastId
<1>7. main' \in {"merge", "load"} /\ firstRound' \in BOOLEAN
  BY <1>1 DEF Typed, UpdateTable
<1>8. Typed'
  BY <1>1, <1>4, <1>5, <1>6, <1>7 DEF Typed, UpdateTable, pass, others, history
<1>9. InRound'
  <2>1. \A w \in Workers : worker[w].at = "ended"
    BY <1>1 DEF InRound, UpdateTable
  <2>2. QED
    BY <2>1, <1>7 DEF InRound, UpdateTable
<1>10. Counted'
  <2> SUFFICES ASSUME NEW j \in Identifiers, table'[j] # NoRow, table'[j].failures > 0
               PROVE  /\ seen'[j].target = table'[j].link.target
                      /\ seen'[j].failures >= table'[j].failures
    BY DEF Counted
  <2>1. table'[j] = table[j]
    BY <1>1, <1>2, <1>3 DEF Typed
  <2>2. QED
    BY <1>1, <2>1 DEF Counted, UpdateTable, history
<1>11. Judged'
  BY <1>1, JudgedFrame DEF UpdateTable, pass, history
<1>12. QED
  BY <1>8, <1>9, <1>10, <1>11 DEF IInv

LEMMA LoadWorksetHolds == IInv /\ LoadWorkset => IInv'
<1> SUFFICES ASSUME IInv, LoadWorkset PROVE IInv'
  OBVIOUS
<1>1. Typed /\ InRound /\ Counted /\ Judged
  BY DEF IInv
<1>2. UNCHANGED <<table, seen, failing, flagsRead, worthy>>
  BY DEF LoadWorkset, database, pass, history
<1>3. \A u \in Users : workset'[u] \in Seq(RowsOf(u))
  BY <1>1, LoadTyped DEF LoadWorkset
<1>4. workset' \in [Users -> Seq(Identifiers)]
  <2>1. DOMAIN workset' = Users /\ workset' = [u \in Users |-> workset'[u]]
    BY DEF LoadWorkset
  <2>2. \A u \in Users : workset'[u] \in Seq(Identifiers)
    <3>1. \A u \in Users : RowsOf(u) \subseteq Identifiers
      BY DEF RowsOf
    <3>2. QED
      BY <1>3, <3>1, SeqOfSubset
  <2>3. QED
    BY <2>1, <2>2
<1>5. /\ worker' \in [Workers -> [at : {"next", "visit", "ended"}, user : Users]]
      /\ \A w \in Workers : worker'[w].at # "visit"
  BY DEF LoadWorkset, Ended, Idle, Anybody
<1>6. Typed'
  BY <1>1, <1>4, <1>5 DEF Typed, LoadWorkset, database, pass, others, history
<1>7. InRound'
  <2>1. main' = "join" /\ \A u \in Users : RowsOf(u)' = RowsOf(u)
    BY <1>2 DEF LoadWorkset, RowsOf
  <2>2. QED
    BY <1>3, <1>5, <2>1 DEF InRound
<1>8. QED
  BY <1>1, <1>2, <1>6, <1>7, CountFrame, JudgedFrame DEF IInv

LEMMA StopRoundHolds == IInv /\ StopRound => IInv'
<1> SUFFICES ASSUME IInv, StopRound PROVE IInv'
  OBVIOUS
<1>1. Typed'
  BY DEF IInv, Typed, StopRound, database, pass, others, history
<1>2. InRound'
  BY RoundFrame DEF IInv, StopRound, database
<1>3. Counted' /\ Judged'
  BY CountFrame, JudgedFrame DEF IInv, StopRound, database, pass, history
<1>4. QED
  BY <1>1, <1>2, <1>3 DEF IInv

LEMMA EndRoundHolds ==
    ASSUME NEW next \in {"load", "merge"}
    PROVE  IInv /\ EndRound(next) => IInv'
<1> SUFFICES ASSUME IInv, EndRound(next) PROVE IInv'
  OBVIOUS
<1>1. Typed'
  BY DEF IInv, Typed, EndRound, database, pass, others, history
<1>2. InRound'
  BY DEF IInv, InRound, EndRound
<1>3. Counted' /\ Judged'
  BY CountFrame, JudgedFrame DEF IInv, EndRound, database, pass, history
<1>4. QED
  BY <1>1, <1>2, <1>3 DEF IInv

\* The rows that a restart leaves are as they were.
LEMMA RestartHolds == IInv /\ Restart => IInv'
<1> SUFFICES ASSUME IInv, Restart PROVE IInv'
  OBVIOUS
<1>1. Typed /\ InRound /\ Counted
  BY DEF IInv
<1>2. PICK last \in Identifiers \union {0} :
        table' = [i \in Identifiers |-> IF i \in cursor+1..last THEN NoRow ELSE table[i]]
  BY DEF Restart
<1>3. /\ table' \in [Identifiers -> Rows \union {NoRow}]
      /\ \A i \in Identifiers : table'[i] \in {table[i], NoRow}
  BY <1>1, <1>2 DEF Typed
<1>4. Anybody \in Users /\ cursor' \in 0..LastId - 1 /\ events' \in 0..MaxEvents
  BY <1>1, Number DEF Anybody, Restart, Typed, LastId
<1>5. workset' \in [Users -> Seq(Identifiers)]
  BY DEF Restart
<1>6. Typed'
  <2>1. DOMAIN page' = {}
    BY DEF Restart
  <2>2. QED
    BY <1>1, <1>3, <1>4, <1>5, <2>1 DEF Typed, Restart, pass, others, history, Ended
<1>7. InRound'
  BY <1>1, NoRound DEF Restart
<1>8. Counted'
  BY <1>1, <1>3 DEF Counted, Restart, history
<1>9. Judged'
  BY JudgedFrame DEF IInv, Restart, pass, history
<1>10. QED
  BY <1>6, <1>7, <1>8, <1>9 DEF IInv

-----------------------------------------------------------------------------
(* The threads                                                             *)

LEMMA GetNextLinkHolds ==
    ASSUME NEW w \in Workers
    PROVE  IInv /\ GetNextLink(w) => IInv'
<1> SUFFICES ASSUME IInv, GetNextLink(w) PROVE IInv'
  OBVIOUS
<1>1. Typed /\ InRound /\ Counted
  BY DEF IInv
<1>2. /\ UNCHANGED <<table, main, workset, seen>>
      /\ main = "join" /\ \A u \in Users : RowsOf(u)' = RowsOf(u)
  BY <1>1 DEF GetNextLink, database, history, InRound, RowsOf
<1>3. Counted' /\ Judged'
  BY <1>1, <1>2, CountFrame, JudgedFrame DEF IInv, GetNextLink, pass, history
<1>4. ASSUME NEW u \in Free,
             locked' = locked \union {u},
             worker' = [worker EXCEPT ![w] = [at |-> "visit", user |-> u]]
      PROVE  Typed' /\ InRound'
  <2>1. u \in Users /\ workset[u] # <<>> /\ u \notin locked
    BY DEF Free, Unfinished
  <2>2. Typed'
    BY <1>1, <1>4, <2>1 DEF Typed, GetNextLink, database, pass, others, history
  <2>3. InRound'
    BY <1>1, <1>2, <1>4, <2>1 DEF InRound, Typed
  <2>4. QED
    BY <2>2, <2>3
<1>5. ASSUME worker' = [worker EXCEPT ![w] = Ended], locked' = locked
      PROVE  Typed' /\ InRound'
  <2>1. Anybody \in Users
    BY DEF Anybody
  <2>2. Typed'
    BY <1>1, <1>5, <2>1 DEF Typed, GetNextLink, database, pass, others, history, Ended
  <2>3. InRound'
    BY <1>1, <1>2, <1>5 DEF InRound, Typed, Ended
  <2>4. QED
    BY <2>2, <2>3
<1>6. QED
  BY <1>3, <1>4, <1>5 DEF GetNextLink, IInv

\* A visit takes the first link off the owner's workset; the owners of the other
\* visits are others, and the row keeps its link.
LEMMA VisitHolds ==
    ASSUME NEW w \in Workers
    PROVE  IInv /\ Visit(w) => IInv'
<1> SUFFICES ASSUME IInv, Visit(w) PROVE IInv'
  OBVIOUS
<1> DEFINE u == worker[w].user
           i == Link(w)
           target == table[i].link.target
<1>1. Typed /\ InRound /\ Counted
  BY DEF IInv
<1>2. u \in Users /\ workset[u] \in Seq(RowsOf(u)) /\ workset[u] # <<>> /\ main = "join"
  BY <1>1 DEF Typed, InRound, Visit
<1>3. i \in RowsOf(u) /\ Tail(workset[u]) \in Seq(RowsOf(u))
  BY <1>2, HeadTailProperties DEF Link
<1>4. i \in Identifiers /\ table[i] \in Rows /\ table[i] # NoRow
  BY <1>1, <1>3 DEF RowsOf, Typed
<1>5. PICK good \in BOOLEAN :
        /\ table' = [table EXCEPT ![i].failures = IF good THEN 0 ELSE Capped(@ + 1)]
        /\ seen' = [seen EXCEPT ![i] =
              [target |-> target,
               failures |-> IF good THEN 0
                            ELSE IF @.target = target THEN Capped(@.failures + 1) ELSE 1]]
  BY DEF Visit
<1>6. /\ workset' = [workset EXCEPT ![u] = Tail(@)]
      /\ locked' = locked \ {u}
      /\ worker' = [worker EXCEPT ![w] = Idle]
  BY DEF Visit, markLinkChecked
<1> DEFINE f == table[i].failures
           g == IF good THEN 0 ELSE Capped(f + 1)
           h == IF good THEN 0
                ELSE IF seen[i].target = target THEN Capped(seen[i].failures + 1) ELSE 1
<1>7. f \in 0..Threshold /\ seen[i].failures \in 0..Threshold
      /\ target \in {l.target : l \in AllLinks}
  BY <1>1, <1>4 DEF Typed, Rows
<1> DEFINE p == Capped(f + 1)
           q == Capped(seen[i].failures + 1)
<1>a. p \in 0..Threshold /\ q \in 0..Threshold /\ p <= f + 1 /\ q > 0
  <2>1. f + 1 \in Nat /\ seen[i].failures + 1 \in Nat /\ seen[i].failures + 1 > 0
    BY <1>7
  <2>2. QED
    BY <2>1, CappedTyped
<1>b. seen[i].failures >= f => q >= p
  <2>1. f + 1 \in Nat /\ seen[i].failures + 1 \in Nat
    BY <1>7
  <2>2. seen[i].failures >= f => f + 1 <= seen[i].failures + 1
    BY <1>7
  <2>3. QED
    BY <2>1, <2>2, CappedTyped
<1>c. Threshold \in Nat /\ 1 <= Threshold
  OBVIOUS
<1> HIDE DEF p, q
<1>8. g \in 0..Threshold /\ h \in 0..Threshold
  <2>1. g \in {0, p} /\ h \in {0, 1, q}
    BY DEF p, q
  <2>2. 0 \in 0..Threshold /\ 1 \in 0..Threshold
    BY <1>c
  <2>3. QED
    BY <2>1, <2>2, <1>a
<1>9. g > 0 => h >= g
  <2>1. CASE good
    BY <2>1
  <2>2. CASE ~good /\ seen[i].target = target
    <3>1. g = p /\ h = q
      BY <2>2 DEF p, q
    <3>2. CASE f = 0
      BY <3>1, <3>2, <1>a
    <3>3. CASE f > 0
      <4>1. seen[i].failures >= f
        BY <1>1, <1>4, <3>3 DEF Counted
      <4>2. QED
        BY <4>1, <3>1, <1>b
    <3>4. QED
      BY <3>2, <3>3, <1>7
  <2>3. CASE ~good /\ seen[i].target # target
    <3>1. g = p /\ h = 1
      BY <2>3 DEF p
    <3>2. ~(f > 0)
      BY <1>1, <1>4, <2>3 DEF Counted
    <3>3. QED
      BY <3>1, <3>2, <1>7, <1>a
  <2>4. QED
    BY <2>1, <2>2, <2>3
<1>10. /\ table' = [table EXCEPT ![i] = [link |-> table[i].link, failures |-> g]]
       /\ seen' = [seen EXCEPT ![i] = [target |-> target, failures |-> h]]
  <2>1. [table[i] EXCEPT !.failures = g] = [link |-> table[i].link, failures |-> g]
    BY <1>4 DEF Rows
  <2>2. QED
    BY <1>1, <1>4, <1>5, <2>1 DEF Typed
<1> HIDE DEF g, h, f, target
<1>11. [link |-> table[i].link, failures |-> g] \in Rows
  BY <1>4, <1>8 DEF Rows
<1>12. Typed'
  <2>1. table' \in [Identifiers -> Rows \union {NoRow}]
    BY <1>1, <1>10, <1>11 DEF Typed
  <2>2. seen' \in [Identifiers -> [target : {l.target : l \in AllLinks} \union {NoLink},
                                   failures : 0..Threshold]]
    BY <1>1, <1>7, <1>8, <1>10 DEF Typed
  <2>3. workset' \in [Users -> Seq(Identifiers)]
    BY <1>1, <1>2, <1>3, <1>6 DEF Typed, RowsOf
  <2>4. worker' \in [Workers -> [at : {"next", "visit", "ended"}, user : Users]]
    BY <1>1, <1>6 DEF Typed, Idle, Anybody
  <2>5. locked' \subseteq Users
    BY <1>1, <1>6 DEF Typed
  <2>6. QED
    BY <1>1, <2>1, <2>2, <2>3, <2>4, <2>5 DEF Typed, Visit, pass, others
<1>13. InRound'
  <2>1. \A v \in Users : RowsOf(v)' = RowsOf(v)
    <3>1. \A j \in Identifiers : (table'[j] # NoRow <=> table[j] # NoRow)
                                 /\ table'[j].link = table[j].link
      BY <1>1, <1>4, <1>10, <1>11 DEF Typed
    <3>2. QED
      BY <3>1 DEF RowsOf
  <2>2. \A v \in Users : workset'[v] \in Seq(RowsOf(v)')
    BY <1>1, <1>2, <1>3, <1>6, <2>1 DEF Typed, InRound
  <2>3. \A x \in Workers \ {w} : worker'[x] = worker[x]
    BY <1>1, <1>6 DEF Typed
  <2>4. worker'[w].at = "next"
    BY <1>1, <1>6 DEF Typed, Idle
  <2>5. \A x \in Workers \ {w} : worker[x].at = "visit" =>
           worker[x].user \in locked' /\ workset'[worker[x].user] # <<>>
    BY <1>1, <1>6 DEF Typed, InRound, Visit
  <2>6. main' = "join"
    BY <1>2 DEF Visit
  <2>7. QED
    BY <1>1, <2>2, <2>3, <2>4, <2>5, <2>6 DEF InRound
<1>14. Counted'
  BY <1>1, <1>4, <1>8, <1>9, <1>10 DEF Counted, Typed, target
<1>15. Judged'
  BY JudgedFrame DEF IInv, Visit, pass
<1>16. QED
  BY <1>12, <1>13, <1>14, <1>15 DEF IInv

LEMMA DieHolds ==
    ASSUME NEW w \in Workers
    PROVE  IInv /\ Die(w) => IInv'
<1> SUFFICES ASSUME IInv, Die(w) PROVE IInv'
  OBVIOUS
<1>1. Anybody \in Users
  BY DEF Anybody
<1>2. Typed'
  BY <1>1 DEF IInv, Typed, Die, database, pass, others, history, Ended
<1>3. InRound'
  <2>1. \A u \in Users : RowsOf(u)' = RowsOf(u)
    BY DEF Die, database, RowsOf
  <2>2. QED
    BY <2>1 DEF IInv, InRound, Typed, Die, Ended
<1>4. Counted' /\ Judged'
  BY CountFrame, JudgedFrame DEF IInv, Die, database, pass, history
<1>5. QED
  BY <1>2, <1>3, <1>4 DEF IInv

-----------------------------------------------------------------------------
(* The update daemon                                                       *)

\* It goes on with copies of flags of which some may be left out.
LEMMA GoOnTyped ==
    ASSUME Typed, NEW copies, NEW read \in Identifiers \union {0}, NEW last \in 0..LastId,
           DOMAIN copies \subseteq Identifiers, \A i \in DOMAIN copies : copies[i] \in BOOLEAN,
           NEW rows \in SUBSET Identifiers, GoOn(copies, read, rows, last)
    PROVE  /\ DOMAIN flags' \subseteq Identifiers
           /\ \A i \in DOMAIN flags' : flags'[i] \in BOOLEAN
           /\ flagsRead' \in 0..LastId /\ failing' \subseteq Identifiers
           /\ rowsRead' \in 0..LastId /\ signalled' \in BOOLEAN
           /\ \/ flagsRead' = 0 /\ failing' = {}
              \/ flagsRead' = read /\ failing' = rows
<1> DEFINE left == {i \in DOMAIN copies :
                      i \in Compared(rows, last) => copies[i] # (i \in rows)}
<1>1. flags' = Restrict(copies, left)
  BY DEF GoOn
<1>2. \/ flagsRead' = 0 /\ failing' = {} /\ rowsRead' = 0 /\ signalled' = FALSE
      \/ flagsRead' = read /\ failing' = rows /\ rowsRead' = last /\ signalled' = signalled
  BY DEF GoOn
<1>3. left \subseteq DOMAIN copies
  OBVIOUS
<1> HIDE DEF left
<1>4. DOMAIN flags' = left /\ \A i \in left : flags'[i] = copies[i]
  BY <1>1 DEF Restrict
<1>5. 0 \in 0..LastId /\ read \in 0..LastId
  BY Number DEF LastId
<1>6. signalled \in BOOLEAN
  BY DEF Typed
<1>7. flagsRead' \in 0..LastId /\ failing' \subseteq Identifiers /\ rowsRead' \in 0..LastId
  BY <1>2, <1>5
<1>8. signalled' \in BOOLEAN
  BY <1>2, <1>6
<1>9. \A i \in DOMAIN flags' : flags'[i] \in BOOLEAN
  BY <1>3, <1>4
<1>10. QED
  BY <1>2, <1>3, <1>4, <1>7, <1>8, <1>9

\* The variables that the update daemon does not touch.
Untouched == <<links, table, times, checker, others, seen>>

LEMMA UpdaterFrame ==
    ASSUME IInv, UNCHANGED Untouched,
           broken' \in [Identifiers -> BOOLEAN], events' \in 0..MaxEvents,
           DOMAIN flags' \subseteq Identifiers,
           \A i \in DOMAIN flags' : flags'[i] \in BOOLEAN,
           flagsRead' \in 0..LastId, rowsRead' \in 0..LastId, signalled' \in BOOLEAN,
           worthy' \subseteq Identifiers, Judged'
    PROVE  IInv'
<1> USE DEF IInv, Untouched, times, checker, round, others
<1>1. Typed'
  BY DEF Typed, Judged
<1>2. InRound' /\ Counted'
  BY RoundFrame, CountFrame
<1>3. QED
  BY <1>1, <1>2

LEMMA ReadFlagsHolds == IInv /\ ReadFlags => IInv'
<1> SUFFICES ASSUME IInv, ReadFlags PROVE IInv'
  OBVIOUS
<1> DEFINE next == FirstPage(flagsRead+1..LastId)
           copies == [i \in next |-> broken[i]]
<1>1. Typed /\ Judged
  BY DEF IInv
<1>2. PICK last \in next : GoOn(copies, last, failing, rowsRead)
  BY DEF ReadFlags
<1>3. next \subseteq Identifiers
  BY <1>1, Number DEF FirstPage, Typed, LastId
<1>4. /\ DOMAIN copies \subseteq Identifiers
      /\ \A i \in DOMAIN copies : copies[i] \in BOOLEAN
  BY <1>1, <1>3 DEF Typed
<1>5. last \in Identifiers /\ failing \in SUBSET Identifiers /\ rowsRead \in 0..LastId
  BY <1>1, <1>2, <1>3 DEF Typed
<1> HIDE DEF copies, next
<1>6. /\ DOMAIN flags' \subseteq Identifiers
      /\ \A i \in DOMAIN flags' : flags'[i] \in BOOLEAN
      /\ flagsRead' \in 0..LastId /\ rowsRead' \in 0..LastId /\ signalled' \in BOOLEAN
      /\ \/ flagsRead' = 0 /\ failing' = {}
         \/ flagsRead' = last /\ failing' = failing
  BY <1>1, <1>2, <1>4, <1>5, GoOnTyped
<1>7. worthy' = IF flagsRead' = 0 THEN {} ELSE worthy
  BY DEF ReadFlags, Judge
<1>8. Judged' /\ worthy' \subseteq Identifiers
  BY <1>1, <1>5, <1>6, <1>7, Number DEF Judged, Typed
<1>9. UNCHANGED <<Untouched, broken, events>>
  BY DEF ReadFlags, Untouched, database
<1>10. broken' \in [Identifiers -> BOOLEAN] /\ events' \in 0..MaxEvents
  BY <1>1, <1>9 DEF Typed
<1>11. QED
  BY <1>6, <1>8, <1>9, <1>10, UpdaterFrame

\* A row with failures enough is one of a target that failed so often.
LEMMA BrokenDeserved ==
    ASSUME Typed, Counted, NEW i \in Identifiers, Broken(i)
    PROVE  seen[i].failures >= Threshold
<1>1. table[i] \in Rows /\ table[i] # NoRow /\ table[i].failures >= Threshold
  BY DEF Broken, Typed
<1>2. table[i].failures \in Nat /\ seen[i].failures \in Nat
  BY <1>1 DEF Rows, Typed
<1>3. seen[i].failures >= table[i].failures
  BY <1>1, <1>2 DEF Counted
<1>4. QED
  BY <1>1, <1>2, <1>3

LEMMA ReadRowsHolds == IInv /\ ReadRows => IInv'
<1> SUFFICES ASSUME IInv, ReadRows PROVE IInv'
  OBVIOUS
<1> DEFINE bad == {i \in NextRows : Broken(i)}
<1>1. Typed /\ Judged /\ Counted
  BY DEF IInv
<1>2. NextRows \subseteq Identifiers
  BY <1>1, Number DEF NextRows, FirstPage, Typed, LastId
<1>3. PICK last \in 0..LastId :
         \/ GoOn(flags, flagsRead, failing, last)
         \/ GoOn(flags, flagsRead, failing \union bad, last)
  <2>1. LastId \in 0..LastId /\ \A i \in NextRows : i \in 0..LastId
    BY <1>2, Number DEF LastId
  <2>2. QED
    BY <2>1 DEF ReadRows
<1>4. /\ DOMAIN flags \subseteq Identifiers
      /\ \A i \in DOMAIN flags : flags[i] \in BOOLEAN
  BY <1>1 DEF Typed
<1>5. flagsRead \in Identifiers \union {0} /\ failing \in SUBSET Identifiers
  BY <1>1, Number DEF Typed, LastId
<1>6. failing \union bad \in SUBSET Identifiers
  BY <1>2, <1>5
<1>7. bad \subseteq {i \in NextRows : seen[i].failures >= Threshold}
  BY <1>1, <1>2, BrokenDeserved
<1> HIDE DEF bad
<1>8. /\ DOMAIN flags' \subseteq Identifiers
      /\ \A i \in DOMAIN flags' : flags'[i] \in BOOLEAN
      /\ flagsRead' \in 0..LastId /\ rowsRead' \in 0..LastId /\ signalled' \in BOOLEAN
      /\ \/ flagsRead' = 0 /\ failing' = {}
         \/ flagsRead' = flagsRead /\ failing' \in {failing, failing \union bad}
  BY <1>1, <1>3, <1>4, <1>5, <1>6, GoOnTyped
<1>9. worthy' = IF flagsRead' = 0 THEN {}
                ELSE worthy \union {i \in NextRows : seen[i].failures >= Threshold}
  BY DEF ReadRows, Judge
<1>10. flagsRead # 0
  BY DEF ReadRows
<1>11. Judged' /\ worthy' \subseteq Identifiers
  BY <1>1, <1>2, <1>7, <1>8, <1>9, <1>10 DEF Judged, Typed
<1>12. UNCHANGED <<Untouched, broken, events>>
  BY DEF ReadRows, Untouched, database
<1>13. broken' \in [Identifiers -> BOOLEAN] /\ events' \in 0..MaxEvents
  BY <1>1, <1>12 DEF Typed
<1>14. QED
  BY <1>8, <1>11, <1>12, <1>13, UpdaterFrame

\* SetFlag and Refuse drop a copy and go on.
LEMMA DropHolds ==
    ASSUME IInv, NEW i, GoOn(Restrict(flags, DOMAIN flags \ {i}), flagsRead, failing, rowsRead),
           Judge({}), UNCHANGED Untouched,
           broken' \in [Identifiers -> BOOLEAN], events' \in 0..MaxEvents
    PROVE  IInv'
<1> DEFINE copies == Restrict(flags, DOMAIN flags \ {i})
<1>1. Typed /\ Judged
  BY DEF IInv
<1>2. /\ DOMAIN copies \subseteq Identifiers
      /\ \A j \in DOMAIN copies : copies[j] \in BOOLEAN
  BY <1>1 DEF Typed, Restrict
<1>3. flagsRead \in Identifiers \union {0} /\ failing \in SUBSET Identifiers
      /\ rowsRead \in 0..LastId
  BY <1>1, Number DEF Typed, LastId
<1> HIDE DEF copies
<1>4. GoOn(copies, flagsRead, failing, rowsRead)
  BY DEF copies
<1>5. /\ DOMAIN flags' \subseteq Identifiers
      /\ \A j \in DOMAIN flags' : flags'[j] \in BOOLEAN
      /\ flagsRead' \in 0..LastId /\ rowsRead' \in 0..LastId /\ signalled' \in BOOLEAN
      /\ \/ flagsRead' = 0 /\ failing' = {}
         \/ flagsRead' = flagsRead /\ failing' = failing
  BY <1>1, <1>2, <1>3, <1>4, GoOnTyped
<1>6. worthy' = IF flagsRead' = 0 THEN {} ELSE worthy
  BY DEF Judge
<1>7. Judged' /\ worthy' \subseteq Identifiers
  BY <1>1, <1>5, <1>6 DEF Judged, Typed
<1>8. QED
  BY <1>5, <1>7, UpdaterFrame

LEMMA SetFlagHolds == IInv /\ SetFlag => IInv'
<1> SUFFICES ASSUME IInv, SetFlag PROVE IInv'
  OBVIOUS
<1> DEFINE i == Min(Wrong)
<1>1. broken' = [broken EXCEPT ![i] = i \in failing]
      /\ GoOn(Restrict(flags, DOMAIN flags \ {i}), flagsRead, failing, rowsRead)
      /\ Judge({})
  BY DEF SetFlag
<1> HIDE DEF i
<1>2. (i \in failing) \in BOOLEAN
  OBVIOUS
<1>3. broken' \in [Identifiers -> BOOLEAN]
  BY <1>1, <1>2 DEF IInv, Typed
<1>4. UNCHANGED <<Untouched, events>>
  BY DEF SetFlag, Untouched
<1>5. events' \in 0..MaxEvents
  BY <1>4 DEF IInv, Typed
<1>6. QED
  BY <1>1, <1>3, <1>4, <1>5, DropHolds

LEMMA RefuseHolds == IInv /\ Refuse => IInv'
<1> SUFFICES ASSUME IInv, Refuse PROVE IInv'
  OBVIOUS
<1>1. broken' \in [Identifiers -> BOOLEAN] /\ events' \in 0..MaxEvents
  BY DEF Refuse, database, IInv, Typed
<1>2. UNCHANGED Untouched
  BY DEF Refuse, Untouched, database
<1>3. QED
  BY <1>1, <1>2, DropHolds DEF Refuse

LEMMA SignalHolds == IInv /\ Signal => IInv'
<1> SUFFICES ASSUME IInv, Signal PROVE IInv'
  OBVIOUS
<1>1. Typed'
  BY DEF IInv, Typed, Signal, database, times, checker, round, others, history
<1>2. InRound' /\ Counted' /\ Judged'
  BY RoundFrame, CountFrame, JudgedFrame DEF IInv, Signal, database, checker, round, history
<1>3. QED
  BY <1>1, <1>2 DEF IInv

LEMMA AbandonHolds == IInv /\ Abandon => IInv'
<1> SUFFICES ASSUME IInv, Abandon PROVE IInv'
  OBVIOUS
<1>1. broken' \in [Identifiers -> BOOLEAN] /\ events' \in 0..MaxEvents
  BY DEF Abandon, database, IInv, Typed
<1>2. UNCHANGED Untouched
  BY DEF Abandon, Untouched, database
<1>3. DOMAIN flags' = {} /\ flagsRead' = 0 /\ rowsRead' = 0 /\ signalled' = FALSE
      /\ failing' = {} /\ worthy' = {}
  BY DEF Abandon
<1>4. Judged' /\ 0 \in 0..LastId
  BY <1>3, Number DEF Judged, LastId
<1>5. QED
  BY <1>1, <1>2, <1>3, <1>4, UpdaterFrame

-----------------------------------------------------------------------------
(* The others                                                              *)

\* None of them touches the table, the rounds, the update daemon or the record of
\* what happened.
Elsewhere ==
    \/ \E i \in Identifiers : WindowElapses(i)
    \/ \E i \in Changing : IndexerReads(i)
    \/ IndexerSaves
    \/ \E u \in Excludable : EditFile(u)

LEMMA ElsewhereHolds == IInv /\ Elsewhere => IInv'
<1> SUFFICES ASSUME IInv, Elsewhere PROVE IInv'
  OBVIOUS
<1> USE DEF IInv, checker, round, database, times, pass, others, history
<1>1. UNCHANGED <<table, seen, main, cursor, page, firstRound, stopNow, workset, locked, worker>>
      /\ UNCHANGED <<flags, flagsRead, failing, rowsRead, signalled, worthy>>
  BY DEF Elsewhere, WindowElapses, IndexerReads, IndexerSaves, EditFile
<1>2. InRound' /\ Counted' /\ Judged'
  BY <1>1, RoundFrame, CountFrame, JudgedFrame
<1>3. CASE \E i \in Identifiers : WindowElapses(i)
  <2>1. Typed'
    BY <1>1, <1>3 DEF Typed, WindowElapses
  <2>2. QED
    BY <1>2, <2>1
<1>4. CASE \E i \in Changing : IndexerReads(i)
  <2>1. Typed'
    BY <1>1, <1>4 DEF Typed, IndexerReads
  <2>2. QED
    BY <1>2, <2>1
<1>5. CASE IndexerSaves
  <2>1. stale[1] \in Identifiers /\ stale[2] \in BOOLEAN
    BY <1>5 DEF Typed, IndexerSaves
  <2>2. PICK l \in Offers[stale[1]] \union {NoLink} : links' = [links EXCEPT ![stale[1]] = l]
    BY <1>5 DEF IndexerSaves
  <2>3. links' \in [Identifiers -> AllLinks \union {NoLink}]
    BY <2>1, <2>2, OfferedIsLink DEF Typed
  <2>4. Typed'
    BY <1>1, <1>5, <2>1, <2>3 DEF Typed, IndexerSaves
  <2>5. QED
    BY <1>2, <2>4
<1>6. CASE \E u \in Excludable : EditFile(u)
  <2>1. Typed'
    BY <1>1, <1>6 DEF Typed, EditFile
  <2>2. QED
    BY <1>2, <2>1
<1>7. QED
  BY <1>3, <1>4, <1>5, <1>6 DEF Elsewhere

LEMMA StutterHolds == IInv /\ UNCHANGED vars => IInv'
<1> SUFFICES ASSUME IInv, UNCHANGED vars PROVE IInv'
  OBVIOUS
<1> USE DEF vars, checker, round, database, times, pass, others, history
<1>1. Typed'
  BY DEF IInv, Typed
<1>2. InRound' /\ Counted' /\ Judged'
  BY RoundFrame, CountFrame, JudgedFrame DEF IInv
<1>3. QED
  BY <1>1, <1>2 DEF IInv

LEMMA NextHolds == IInv /\ [Next]_vars => IInv'
<1> SUFFICES ASSUME IInv, [Next]_vars PROVE IInv'
  OBVIOUS
<1>1. CASE Main
  BY <1>1, UpdateTableHolds, LoadWorksetHolds, EndRoundHolds DEF Main
<1>2. CASE \E w \in Workers : Worker(w) \/ Die(w)
  BY <1>2, GetNextLinkHolds, VisitHolds, DieHolds DEF Worker
<1>3. CASE StopRound \/ Restart
  BY <1>3, StopRoundHolds, RestartHolds
<1>4. CASE Updater \/ Refuse \/ Signal \/ Abandon
  BY <1>4, ReadFlagsHolds, ReadRowsHolds, SetFlagHolds, RefuseHolds, SignalHolds, AbandonHolds
     DEF Updater
<1>5. CASE Elsewhere
  BY <1>5, ElsewhereHolds
<1>6. CASE UNCHANGED vars
  BY <1>6, StutterHolds
<1>7. QED
  BY <1>1, <1>2, <1>3, <1>4, <1>5, <1>6 DEF Next, Checker, Elsewhere

-----------------------------------------------------------------------------
(* The theorems                                                            *)

\* The strengthening holds in every state.
THEOREM LinksInductive == Spec => []IInv
<1>1. Init => IInv
  BY InitHolds
<1>2. IInv /\ [Next]_vars => IInv'
  BY NextHolds
<1>3. QED
  BY <1>1, <1>2, PTL DEF Spec

\* The checker's records keep their types: rows, worksets, threads and counts,
\* across merges, rounds, restarts and ends of threads.
THEOREM LinksTyped == Spec => []Typed
<1>1. IInv => Typed
  BY DEF IInv
<1>2. QED
  BY <1>1, LinksInductive, PTL

\* Whatever the number of threads, no two visit links of one owner at once, and
\* each visits a link that the table still has for the owner.
THEOREM VisitsDiluted == Spec => []OneVisitorPerOwner
<1>1. IInv => OneVisitorPerOwner
  <2> SUFFICES ASSUME IInv, NEW w \in Workers, worker[w].at = "visit"
               PROVE  /\ Link(w) \in RowsOf(worker[w].user)
                      /\ \A v \in Workers \ {w} :
                            worker[v].at = "visit" => worker[v].user # worker[w].user
    BY DEF OneVisitorPerOwner
  <2>1. worker[w].user \in Users /\ workset[worker[w].user] \in Seq(RowsOf(worker[w].user))
        /\ workset[worker[w].user] # <<>>
    BY DEF IInv, Typed, InRound
  <2>2. Link(w) \in RowsOf(worker[w].user)
    BY <2>1, HeadTailProperties DEF Link
  <2>3. QED
    BY <2>2 DEF IInv, InRound
<1>2. QED
  BY <1>1, LinksInductive, PTL

\* The update daemon raises a flag only for a target that had failed at least
\* Threshold times in a row when it read the row, though links change, are deleted
\* and come back, both tables are read page by page, and the daemon writes late.
THEOREM FlagsDeserved == Spec => RaisedAfterThreshold
<1> DEFINE Deserved == \A i \in Identifiers :
              ~broken[i] /\ broken'[i] /\ stale' = stale => i \in worthy
<1>1. IInv /\ [Next]_vars => [Deserved]_vars
  <2> SUFFICES ASSUME IInv, [Next]_vars, NEW i \in Identifiers,
                      ~broken[i], broken'[i], stale' = stale
               PROVE  i \in worthy
    OBVIOUS
  <2> USE DEF database, vars
  <2>1. broken' # broken
    OBVIOUS
  <2>2. ~IndexerSaves
    BY DEF IInv, Typed, IndexerSaves
  <2>3. SetFlag
    BY <2>1, <2>2 DEF Next, Checker, Main, Worker, UpdateTable, LoadWorkset, EndRound, GetNextLink,
       Visit, StopRound, WindowElapses, Die, Restart, IndexerReads, EditFile, Updater, ReadFlags,
       ReadRows, Refuse, Signal, Abandon
  <2>4. PICK j : broken' = [broken EXCEPT ![j] = j \in failing]
    BY <2>3 DEF SetFlag
  <2>5. i = j /\ i \in failing
    BY <2>4 DEF IInv, Typed
  <2>6. QED
    BY <2>5 DEF IInv, Judged
<1>2. QED
  BY <1>1, LinksInductive, PTL DEF Spec, RaisedAfterThreshold
=============================================================================
