------------------------------ MODULE OaiProofs ------------------------------
(***************************************************************************)
(* Proofs about OaiHarvest, for any identifiers, batch size and number of  *)
(* updates: a harvest that ends has returned all of its range that nobody  *)
(* wrote meanwhile, and repeated harvests catch up with the table.         *)
(*                                                                         *)
(* The harvester holds the newest record of whatever lies between where    *)
(* the harvest began and where its token stands (Behind): a batch is cut   *)
(* before its last time, so that no row of that time is left between two   *)
(* batches.  What was written during the harvest is either ahead of the    *)
(* time it began, for the next harvest to find, or late (Ahead).           *)
(***************************************************************************)
EXTENDS OaiHarvest, TLAPS

\* A harvest begins after the latest complete one began, and before now.
InOrder ==
    /\ token # NoHarvest => last <= since
    /\ token = NoHarvest => touched = {}

\* The part of its range that a harvest has been through.
Behind ==
    token # NoHarvest =>
       \A i \in Identifiers \ touched :
          Within(rows[i], FirstFrom, token.until) /\ rows[i] <= token.from_
             => copy[i] = rows[i]

\* What is written during an unlimited harvest.
Ahead ==
    token # NoHarvest /\ token.until = NoLimit =>
       \A i \in touched \ late : rows[i] = 0 \/ rows[i] >= since

IInv == TypeOK /\ InOrder /\ Behind /\ Ahead /\ CaughtUp

-----------------------------------------------------------------------------
(* The table and the token                                                 *)

USE OaiAssumption, UntilsAssumption, TokenAssumption DEF Times

\* A token is told from the absence of a harvest.
LEMMA TokenThere ==
    ASSUME NEW t \in Tokens
    PROVE  /\ t # NoHarvest
           /\ t.from_ \in 0 .. MaxTime /\ t.until \in Times \union {NoLimit}
           /\ t.size \in Nat \ {0}
  BY DEF Tokens

\* The first request asks for nothing before the start of the last harvest but
\* one second.
LEMMA FirstFromTyped ==
    ASSUME TypeOK
    PROVE  FirstFrom \in 0 .. MaxTime /\ FirstFrom <= last /\ (last # 0 => FirstFrom < last)
  BY DEF TypeOK, FirstFrom

LEMMA InitHolds == Init => IInv
  <1>. SUFFICES ASSUME Init PROVE IInv  OBVIOUS
  <1>1. TypeOK  BY DEF Init, TypeOK
  <1>2. InOrder /\ Behind /\ Ahead  BY DEF Init, InOrder, Behind, Ahead
  <1>3. CaughtUp  BY DEF Init, CaughtUp
  <1>. QED  BY <1>1, <1>2, <1>3 DEF IInv

LEMMA StutterHolds == IInv /\ UNCHANGED vars => IInv'
  <1>. SUFFICES ASSUME IInv, UNCHANGED vars PROVE IInv'  OBVIOUS
  <1>. USE DEF vars, tableVars, harvestVars
  <1>1. TypeOK'  BY DEF IInv, TypeOK
  <1>2. InOrder'  BY DEF IInv, InOrder
  <1>3. Behind'  BY DEF IInv, Behind, Within, FirstFrom
  <1>4. Ahead'  BY DEF IInv, Ahead
  <1>5. CaughtUp'  BY DEF IInv, CaughtUp
  <1>. QED  BY <1>1, <1>2, <1>3, <1>4, <1>5 DEF IInv

LEMMA TickHolds == IInv /\ Tick => IInv'
  <1>. SUFFICES ASSUME IInv, Tick PROVE IInv'  OBVIOUS
  <1>. USE DEF Tick, harvestVars
  <1>1. TypeOK'  BY DEF IInv, TypeOK
  <1>2. InOrder'  BY DEF IInv, InOrder
  <1>3. Behind'  BY DEF IInv, Behind, Within, FirstFrom
  <1>4. Ahead'  BY DEF IInv, Ahead
  <1>5. CaughtUp'  BY DEF IInv, CaughtUp
  <1>. QED  BY <1>1, <1>2, <1>3, <1>4, <1>5 DEF IInv

LEMMA UpdateHolds == ASSUME NEW i \in Identifiers PROVE IInv /\ Update(i) => IInv'
  <1>. SUFFICES ASSUME IInv, Update(i) PROVE IInv'  OBVIOUS
  <1>. USE DEF Update, harvestVars
  <1>1. TypeOK'  BY DEF IInv, TypeOK
  <1>2. InOrder'  BY DEF IInv, InOrder
  <1>3. Behind'  BY DEF IInv, Behind, Within, FirstFrom
  <1>4. Ahead'  BY DEF IInv, Ahead
  <1>5. CaughtUp'  BY DEF IInv, CaughtUp
  <1>. QED  BY <1>1, <1>2, <1>3, <1>4, <1>5 DEF IInv

\* A row written during a harvest is touched, and late if the harvest has
\* already passed its time.
LEMMA IndexHolds ==
    ASSUME NEW i \in Identifiers, NEW time \in 0 .. MaxTime
    PROVE  IInv /\ Index(i, time) => IInv'
  <1>. SUFFICES ASSUME IInv, Index(i, time) PROVE IInv'  OBVIOUS
  <1>. USE DEF Index, harvestVars
  <1>1. TypeOK'  BY DEF IInv, TypeOK
  <1>2. InOrder'  BY DEF IInv, InOrder
  <1>3. Behind'
    <2>. SUFFICES ASSUME token' # NoHarvest, NEW j \in Identifiers \ touched',
                         Within(rows[j], FirstFrom, token.until)', (rows[j] <= token.from_)'
                  PROVE  copy'[j] = rows'[j]
      BY DEF Behind
    <2>1. j # i /\ j \notin touched /\ rows'[j] = rows[j]  BY DEF IInv, TypeOK
    <2>2. Within(rows[j], FirstFrom, token.until)  BY <2>1 DEF Within, FirstFrom
    <2>. QED  BY <2>1, <2>2 DEF IInv, Behind
  <1>4. Ahead'
    <2>. SUFFICES ASSUME token' # NoHarvest, token'.until = NoLimit,
                         NEW j \in touched' \ late'
                  PROVE  rows'[j] = 0 \/ rows'[j] >= since'
      BY DEF Ahead
    <2>1. j \in Identifiers  BY <1>1 DEF TypeOK
    <2>2. CASE j = i
      <3>1. rows'[j] = time  BY <2>2 DEF IInv, TypeOK
      <3>2. Passed = since  BY DEF Passed
      <3>3. ~(time # 0 /\ time < since)  BY <2>2, <3>2
      <3>. QED  BY <3>1, <3>3 DEF IInv, TypeOK
    <2>3. CASE j # i
      <3>1. rows'[j] = rows[j] /\ j \in touched \ late  BY <2>1, <2>3 DEF IInv, TypeOK
      <3>. QED  BY <3>1 DEF IInv, Ahead
    <2>. QED  BY <2>2, <2>3
  <1>5. CaughtUp'
    <2>. SUFFICES ASSUME NEW j \in Identifiers \ late', rows'[j] # 0, rows'[j] < last'
                  PROVE  copy'[j] = rows'[j]
      BY DEF CaughtUp
    <2>1. last <= Passed /\ Passed \in Nat  BY DEF IInv, TypeOK, InOrder, Passed
    <2>2. CASE j = i
      <3>1. rows'[j] = time  BY <2>2 DEF IInv, TypeOK
      <3>2. ~(time # 0 /\ time < Passed)  BY <2>2
      <3>. QED  BY <2>1, <3>1, <3>2 DEF IInv, TypeOK
    <2>3. CASE j # i
      <3>1. rows'[j] = rows[j] /\ j \notin late  BY <2>3 DEF IInv, TypeOK
      <3>. QED  BY <3>1 DEF IInv, CaughtUp
    <2>. QED  BY <2>2, <2>3
  <1>. QED  BY <1>1, <1>2, <1>3, <1>4, <1>5 DEF IInv

-----------------------------------------------------------------------------
(* The requests                                                            *)

LEMMA BeginHolds == ASSUME NEW until \in Untils PROVE IInv /\ Begin(until) => IInv'
  <1>. SUFFICES ASSUME IInv, Begin(until) PROVE IInv'  OBVIOUS
  <1>. USE DEF Begin, tableVars
  <1>0. token' \in Tokens /\ token'.from_ = FirstFrom
    BY FirstFromTyped DEF IInv, Tokens
  <1>1. TypeOK'  BY <1>0 DEF IInv, TypeOK
  <1>2. InOrder'  BY <1>0, TokenThere DEF IInv, InOrder, TypeOK
  <1>3. Behind'
    <2>1. ASSUME NEW i \in Identifiers
          PROVE  ~(rows'[i] > FirstFrom' /\ rows'[i] <= token'.from_)
      BY <1>0, FirstFromTyped DEF IInv, TypeOK, FirstFrom
    <2>. QED  BY <2>1 DEF Behind, Within
  <1>4. Ahead'  BY DEF IInv, InOrder, Ahead
  <1>5. CaughtUp'  BY DEF IInv, CaughtUp
  <1>. QED  BY <1>1, <1>2, <1>3, <1>4, <1>5 DEF IInv

\* What a response leaves in the copy is the row or what was there.
LEMMA ReceiveCopies ==
    ASSUME TypeOK, NEW ids \in SUBSET Identifiers, Receive(ids)
    PROVE  /\ copy' \in [Identifiers -> 0 .. MaxTime]
           /\ \A i \in Identifiers : copy[i] = rows[i] \/ i \in ids => copy'[i] = rows[i]
  BY DEF Receive, TypeOK

\* A batch that is not full holds all that the token asks for.
LEMMA LastIsWhole ==
    ASSUME NEW ids \in SUBSET Identifiers, IsBatch(ids), ~Full(ids)
    PROVE  ids = Matching
  BY DEF IsBatch, Full

\* Nothing at or before the last time returned is left out of a full batch.
LEMMA NoneBetween ==
    ASSUME TypeOK, NEW ids \in SUBSET Identifiers, IsBatch(ids),
           NEW l \in Returned(ids), NEW i \in Matching, rows[i] <= rows[l]
    PROVE  i \in Returned(ids)
  <1>1. PICK j \in ids : rows[l] < rows[j]  BY DEF Returned
  <1>2. l \in Identifiers /\ i \in Identifiers /\ j \in Identifiers
    BY DEF Returned, Matching
  <1>3. rows[i] < rows[j]  BY <1>1, <1>2 DEF TypeOK
  <1>4. i \in ids  BY <1>1, <1>2, <1>3 DEF IsBatch, TypeOK
  <1>. QED  BY <1>1, <1>3, <1>4 DEF Returned

\* The harvest that ends has been through its whole range.
LEMMA LastBatchReturns ==
    ASSUME IInv, LastBatch
    PROVE  \A i \in Identifiers \ touched :
              Within(rows[i], FirstFrom, token.until) => copy'[i] = rows[i]
  <1>1. PICK ids \in SUBSET Identifiers : IsBatch(ids) /\ ~Full(ids) /\ Receive(ids)
    BY DEF LastBatch
  <1>2. ids = Matching  BY <1>1, LastIsWhole
  <1>. SUFFICES ASSUME NEW i \in Identifiers \ touched,
                       Within(rows[i], FirstFrom, token.until)
                PROVE  copy'[i] = rows[i]
    OBVIOUS
  <1>3. CASE rows[i] <= token.from_
    <2>1. copy[i] = rows[i]  BY <1>3 DEF LastBatch, IInv, Behind
    <2>. QED  BY <1>1, <2>1, ReceiveCopies DEF IInv
  <1>4. CASE ~(rows[i] <= token.from_)
    <2>1. token \in Tokens /\ rows[i] \in Nat  BY DEF LastBatch, IInv, TypeOK
    <2>2. rows[i] > token.from_  BY <1>4, <2>1, TokenThere
    <2>3. i \in Matching  BY <2>2 DEF Matching, Within
    <2>. QED  BY <1>1, <1>2, <2>3, ReceiveCopies DEF IInv
  <1>. QED  BY <1>3, <1>4

LEMMA LastBatchHolds == IInv /\ LastBatch => IInv'
  <1>. SUFFICES ASSUME IInv, LastBatch PROVE IInv'  OBVIOUS
  <1>. USE DEF LastBatch, tableVars
  <1>0. PICK ids \in SUBSET Identifiers : IsBatch(ids) /\ ~Full(ids) /\ Receive(ids)
    OBVIOUS
  <1>a. copy' \in [Identifiers -> 0 .. MaxTime]
    BY <1>0, ReceiveCopies DEF IInv
  <1>1. TypeOK'  BY <1>a DEF IInv, TypeOK
  <1>2. InOrder'  BY DEF InOrder
  <1>3. Behind' /\ Ahead'  BY DEF Behind, Ahead
  <1>5. CaughtUp'
    <2>. SUFFICES ASSUME NEW i \in Identifiers \ late, rows[i] # 0, rows[i] < last'
                  PROVE  copy'[i] = rows[i]
      BY DEF CaughtUp
    <2>1. rows[i] \in Nat /\ last \in Nat /\ since \in Nat  BY DEF IInv, TypeOK
    <2>2. CASE rows[i] < last
      <3>1. copy[i] = rows[i]  BY <2>2 DEF IInv, CaughtUp
      <3>. QED  BY <1>0, <3>1, ReceiveCopies DEF IInv
    <2>3. CASE ~(rows[i] < last)
      <3>1. token.until = NoLimit /\ last' = since  BY <2>3
      <3>2. i \notin touched  BY <2>1, <3>1 DEF IInv, Ahead
      <3>3. rows[i] > FirstFrom  BY <2>1, <2>3, FirstFromTyped DEF IInv
      <3>4. Within(rows[i], FirstFrom, token.until)  BY <3>1, <3>3 DEF Within
      <3>. QED  BY <3>2, <3>4, LastBatchReturns
    <2>. QED  BY <2>2, <2>3
  <1>. QED  BY <1>1, <1>2, <1>3, <1>5 DEF IInv

LEMMA NextBatchHolds == IInv /\ NextBatch => IInv'
  <1>. SUFFICES ASSUME IInv, NextBatch PROVE IInv'  OBVIOUS
  <1>. USE DEF NextBatch, tableVars
  <1>0. PICK ids \in SUBSET Identifiers :
             /\ IsBatch(ids) /\ Receive(Returned(ids))
             /\ \E l \in Latest(Returned(ids)) :
                   token' = [token EXCEPT !.from_ = rows[l], !.size = BatchSize]
    OBVIOUS
  <1>1. PICK l \in Latest(Returned(ids)) :
             token' = [token EXCEPT !.from_ = rows[l], !.size = BatchSize]
    BY <1>0
  <1>2. l \in Returned(ids) /\ Returned(ids) \in SUBSET Identifiers /\ l \in Identifiers
    BY <1>1 DEF Latest, Returned
  <1>3. token \in Tokens  BY DEF IInv, TypeOK
  <1>4. rows[l] \in 0 .. MaxTime  BY <1>2 DEF IInv, TypeOK
  <1>5. token' \in Tokens /\ token'.from_ = rows[l] /\ token'.until = token.until
    BY <1>1, <1>3, <1>4 DEF Tokens
  <1>6. copy' \in [Identifiers -> 0 .. MaxTime]
    BY <1>0, <1>2, ReceiveCopies DEF IInv
  <1>7. TypeOK'  BY <1>5, <1>6 DEF IInv, TypeOK
  <1>8. InOrder'  BY <1>5, TokenThere DEF IInv, InOrder
  <1>9. Behind'
    <2>. SUFFICES ASSUME NEW i \in Identifiers \ touched,
                         Within(rows[i], FirstFrom, token.until), rows[i] <= rows[l]
                  PROVE  copy'[i] = rows[i]
      BY <1>5 DEF Behind, FirstFrom, Within
    <2>1. CASE rows[i] <= token.from_
      <3>1. copy[i] = rows[i]  BY <2>1 DEF IInv, Behind
      <3>. QED  BY <1>0, <1>2, <3>1, ReceiveCopies DEF IInv
    <2>2. CASE ~(rows[i] <= token.from_)
      <3>1. rows[i] > token.from_  BY <2>2, <1>3, TokenThere DEF IInv, TypeOK
      <3>2. i \in Matching  BY <3>1 DEF Matching, Within
      <3>3. i \in Returned(ids)  BY <1>0, <1>2, <3>2, NoneBetween DEF IInv
      <3>. QED  BY <1>0, <1>2, <3>3, ReceiveCopies DEF IInv
    <2>. QED  BY <2>1, <2>2
  <1>10. Ahead'  BY <1>5 DEF IInv, Ahead
  <1>11. CaughtUp'
    <2>. SUFFICES ASSUME NEW i \in Identifiers \ late, rows[i] # 0, rows[i] < last
                  PROVE  copy'[i] = rows[i]
      BY DEF CaughtUp
    <2>1. copy[i] = rows[i]  BY DEF IInv, CaughtUp
    <2>. QED  BY <1>0, <1>2, <2>1, ReceiveCopies DEF IInv
  <1>. QED  BY <1>7, <1>8, <1>9, <1>10, <1>11 DEF IInv

LEMMA EnlargeHolds == IInv /\ Enlarge => IInv'
  <1>. SUFFICES ASSUME IInv, Enlarge PROVE IInv'  OBVIOUS
  <1>. USE DEF Enlarge, tableVars
  <1>1. token \in Tokens  BY DEF IInv, TypeOK
  <1>2. Larger(token.size) \in Nat \ {0}  BY <1>1, TokenThere DEF Larger
  <1>3. token' \in Tokens /\ token'.from_ = token.from_ /\ token'.until = token.until
    BY <1>1, <1>2 DEF Tokens
  <1>4. TypeOK'  BY <1>3 DEF IInv, TypeOK
  <1>5. InOrder'  BY <1>3, TokenThere DEF IInv, InOrder
  <1>6. Behind'  BY <1>3 DEF IInv, Behind, Within, FirstFrom
  <1>7. Ahead'  BY <1>3 DEF IInv, Ahead
  <1>8. CaughtUp'  BY DEF IInv, CaughtUp
  <1>. QED  BY <1>4, <1>5, <1>6, <1>7, <1>8 DEF IInv

-----------------------------------------------------------------------------
\* IInv is inductive: every write of a row and every request keeps it.
LEMMA StepHolds == IInv /\ [Next]_vars => IInv'
  <1>. SUFFICES ASSUME IInv, [Next]_vars PROVE IInv'  OBVIOUS
  <1>1. CASE Tick  BY <1>1, TickHolds
  <1>2. ASSUME NEW i \in Identifiers, Update(i) PROVE IInv'  BY <1>2, UpdateHolds
  <1>3. ASSUME NEW i \in Identifiers, NEW time \in 0 .. MaxTime, Index(i, time)
        PROVE  IInv'
    BY <1>3, IndexHolds
  <1>4. ASSUME NEW until \in Untils, Begin(until) PROVE IInv'  BY <1>4, BeginHolds
  <1>5. CASE LastBatch  BY <1>5, LastBatchHolds
  <1>6. CASE NextBatch  BY <1>6, NextBatchHolds
  <1>7. CASE Enlarge  BY <1>7, EnlargeHolds
  <1>8. CASE UNCHANGED vars  BY <1>8, StutterHolds
  <1>. QED  BY <1>1, <1>2, <1>3, <1>4, <1>5, <1>6, <1>7, <1>8 DEF Next, Serve

LEMMA IInvHolds == Spec => []IInv
  BY InitHolds, StepHolds, PTL DEF Spec

\* The types of the harvest's state, impl/oai.py.
THEOREM OaiTyped == Spec => []TypeOK
  <1>1. IInv => TypeOK  BY DEF IInv
  <1>. QED  BY <1>1, IInvHolds, PTL

\* A harvester that repeats its harvests holds the newest record of everything
\* older than its last harvest, except of what was indexed late, whatever the
\* batches are and however the update times coincide.
THEOREM HarvestsCatchUp == Spec => []CaughtUp
  <1>1. IInv => CaughtUp  BY DEF IInv
  <1>. QED  BY <1>1, IInvHolds, PTL

\* A harvest that ends has returned everything of its range that was not
\* written meanwhile: the cut before the last time of a batch loses nothing.
THEOREM HarvestsComplete == Spec => HarvestComplete
  <1>. DEFINE A == token # NoHarvest /\ token' = NoHarvest =>
                      \A i \in Identifiers \ touched :
                          Within(rows[i], FirstFrom, token.until) => copy'[i] = rows[i]
  <1>1. IInv /\ [Next]_vars => [A]_vars
    <2>. SUFFICES ASSUME IInv, Next, token # NoHarvest, token' = NoHarvest PROVE A
      BY DEF vars
    <2>1. LastBatch
      <3>1. ~Tick  BY DEF Tick, harvestVars
      <3>2. \A i \in Identifiers : ~Update(i)  BY DEF Update, harvestVars
      <3>3. \A i \in Identifiers, time \in 0 .. MaxTime : ~Index(i, time)
        BY DEF Index, harvestVars
      <3>4. \A until \in Untils : ~Begin(until)  BY DEF Begin
      <3>5. token \in Tokens  BY DEF IInv, TypeOK
      <3>6. ~NextBatch
        <4>1. SUFFICES ASSUME NextBatch PROVE FALSE  OBVIOUS
        <4>2. PICK l \in Identifiers :
                   token' = [token EXCEPT !.from_ = rows[l], !.size = BatchSize]
          BY <4>1 DEF NextBatch, Latest, Returned
        <4>3. rows[l] \in 0 .. MaxTime
          BY DEF IInv, TypeOK
        <4>4. token' \in Tokens  BY <3>5, <4>2, <4>3 DEF Tokens
        <4>. QED  BY <4>4
      <3>7. ~Enlarge
        <4>1. SUFFICES ASSUME Enlarge PROVE FALSE  OBVIOUS
        <4>2. Larger(token.size) \in Nat \ {0}  BY <3>5, TokenThere DEF Larger
        <4>3. token' \in Tokens  BY <3>5, <4>1, <4>2 DEF Tokens, Enlarge
        <4>. QED  BY <4>3
      <3>. QED  BY <3>1, <3>2, <3>3, <3>4, <3>6, <3>7 DEF Next, Serve
    <2>. QED  BY <2>1, LastBatchReturns
  <1>. QED  BY <1>1, IInvHolds, PTL DEF Spec, HarvestComplete
=============================================================================
