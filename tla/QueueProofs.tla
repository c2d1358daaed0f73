------------------------------ MODULE QueueProofs ------------------------------
(***************************************************************************)
(* Proofs about the daemons that perform the operations of a queue, for    *)
(* any identifiers, batch size and numbers of tasks, crashes and marks.    *)
(*                                                                         *)
(* SearchIndexer: no task is lost, and the two stores agree on an          *)
(* identifier that has no task outstanding and have its newest snapshot    *)
(* unless two of its tasks were outstanding at once.  The processes that   *)
(* share the queue (QueueInv): the cleanup deletes only rows of tasks that *)
(* were performed or marked by hand, because a task the daemon still holds *)
(* has not ended, or was marked.  The two stores (StoresInv): where they   *)
(* differ there is a task to blame that has not ended; a document without  *)
(* a row is that of the task that wrote it.  The newest (NewestInv): with  *)
(* failed tasks tried again, the one task of an identifier that may be     *)
(* pending is its newest, and until that is done nothing is claimed of the *)
(* table.                                                                  *)
(*                                                                         *)
(* Agencies: of a DOI that never had two tasks under way at once, only the *)
(* newest task can be (OneUnderWay), so that nothing but its performance   *)
(* changes what the agency has of the DOI; CrossrefInv and DataciteInv say *)
(* how far that has got at each step of the daemon.                        *)
(***************************************************************************)
EXTENDS SearchIndexer, Agencies, SequenceTheorems, FiniteSetTheorems, WellFoundedInduction, TLAPS

\* Tasks whose row says that they have not succeeded, or that were marked.
Pending == Rows({"UNSUBMITTED", "FAILURE"}) \union ignored

\* The daemon's copies are of different tasks.
QueueTyped ==
    /\ QueueTypeOK
    /\ batch \in Seq(Seqs)
    /\ \A m, n \in 1..Len(batch) : batch[m] = batch[n] => m = n

Typed ==
    /\ TypeOK
    /\ batch \in Seq(Seqs)
    /\ \A m, n \in 1..Len(batch) : batch[m] = batch[n] => m = n

Performed(s) == s \in performed \/ s \in ignored

QueueInv ==
    /\ Range(batch) \subseteq Pending
    /\ \A s \in DOMAIN queue :
          \/ queue[s] \in {"UNSUBMITTED", "FAILURE"}
          \/ queue[s] = "SUCCESS" /\ Performed(s)
          \/ s \in ignored
    /\ \A s \in Seqs \ DOMAIN queue : Performed(s)
    /\ cleaning # 0 => \/ cleaning \in ignored
                       \/ /\ cleaning \in performed
                          /\ cleaning \in DOMAIN queue => queue[cleaning] = "SUCCESS"
    /\ stage = "done" => Current \in performed

\* The tasks that may be to blame for what the stores have of an identifier.
Blame(id) == {s \in TasksOf(id) : s \in Pending /\ (stage = "done" => s # Current)}

StoresInv ==
    /\ \A id \in Anonymous : table[id] = 0 /\ index[id] = 0
    /\ stage \in {"written", "undo"} =>
          /\ Task.identifier \notin Anonymous
          /\ Task.operation = "DELETE" => table[Task.identifier] # 0
    /\ stage = "written" =>
          index[Task.identifier] = IF Task.operation = "DELETE" THEN 0 ELSE Current
    /\ \A id \in Identifiers : table[id] # index[id] => Blame(id) # {}
    /\ \A id \in Identifiers : table[id] = 0 /\ index[id] # 0 =>
          index[id] \in Blame(id) /\ tasks[index[id]].operation # "DELETE"

-----------------------------------------------------------------------------
(* Sequences and sets                                                      *)

USE QueueAssumption, AnonymousAssumption, CrossrefAssumption, DataciteAssumption

LEMMA SeqOfSubset ==
    ASSUME NEW S, NEW T, S \subseteq T, NEW s \in Seq(S)
    PROVE  s \in Seq(T)
<1>1. s \in [1..Len(s) -> S] /\ Len(s) \in Nat
  OBVIOUS
<1>2. s \in [1..Len(s) -> T]
  BY <1>1
<1>3. QED
  BY <1>1, <1>2

\* The greatest of some numbers up to n.
LEMMA MaxTyped ==
    ASSUME NEW n \in Nat, NEW S \in SUBSET (0..n), S # {}
    PROVE  Max(S) \in S /\ \A x \in S : Max(S) >= x
<1> DEFINE T == {n - x : x \in S}
<1>1. T \subseteq Nat /\ T # {}
  <2>1. \A x \in S : n - x \in Nat
    OBVIOUS
  <2>2. PICK x \in S : TRUE
    OBVIOUS
  <2>3. n - x \in T
    BY <2>2
  <2>4. QED
    BY <2>1, <2>3
<1>2. PICK y \in T : \A z \in T : ~(<<z, y>> \in OpToRel(<, Nat))
  BY <1>1, NatLessThanWellFounded, WFMin
<1>3. PICK x \in S : y = n - x
  BY <1>2
<1>4. ASSUME NEW z \in S PROVE x >= z
  <2>1. ~(<<n - z, y>> \in OpToRel(<, Nat)) /\ n - z \in Nat /\ y \in Nat
    BY <1>1, <1>2
  <2>2. ~(n - z < y)
    BY <2>1 DEF OpToRel
  <2>3. QED
    BY <1>3, <2>2
<1>5. QED
  BY <1>4 DEF Max

LEMMA QueueIsTyped == Typed => QueueTyped
  BY DEF Typed, TypeOK, QueueTyped

LEMMA NewestTyped ==
    ASSUME QueueTyped, NEW id \in Identifiers
    PROVE  /\ Newest(id) \in Seqs \union {0}
           /\ TasksOf(id) # {} => Newest(id) \in TasksOf(id)
           /\ \A s \in TasksOf(id) : Newest(id) >= s
<1>1. Len(tasks) \in Nat
  BY DEF QueueTyped, QueueTypeOK
<1>2. TasksOf(id) \union {0} \in SUBSET (0..Len(tasks)) /\ 0 \notin TasksOf(id)
  BY <1>1 DEF TasksOf, Seqs
<1>3. /\ Newest(id) \in TasksOf(id) \union {0}
      /\ \A s \in TasksOf(id) \union {0} : Newest(id) >= s
  BY <1>1, <1>2, MaxTyped DEF Newest
<1>4. \A s \in TasksOf(id) : s > 0
  BY <1>1, <1>2
<1>5. ASSUME TasksOf(id) # {} PROVE Newest(id) # 0
  <2>1. PICK s \in TasksOf(id) : s > 0 /\ Newest(id) >= s /\ s \in Nat
    BY <1>1, <1>2, <1>3, <1>4, <1>5
  <2>2. QED
    BY <2>1
<1>6. QED
  BY <1>3, <1>5 DEF TasksOf

\* What is cut from an order of some rows has different rows, and not too many.
Cut(s) == SubSeq(s, 1, Min({BatchSize, Len(s)}))

LEMMA CutTyped ==
    ASSUME NEW S, IsFiniteSet(S), NEW s \in SetToSeqs(S)
    PROVE  /\ Cut(s) \in Seq(S) /\ Len(Cut(s)) <= BatchSize
           /\ \A m, k \in 1..Len(Cut(s)) : Cut(s)[m] = Cut(s)[k] => m = k
<1>1. Cardinality(S) \in Nat
  BY FS_CardinalityType
<1>2. /\ s \in [1..Cardinality(S) -> S]
      /\ \A m, n \in 1..Cardinality(S) : m # n => s[m] # s[n]
  BY DEF SetToSeqs
<1>3. s \in Seq(S) /\ Len(s) = Cardinality(S)
  BY <1>1, <1>2
<1> DEFINE n == Min({BatchSize, Len(s)})
<1>4. n \in 0..Len(s) /\ n <= BatchSize
  <2>1. CASE BatchSize <= Len(s)
    BY <1>1, <1>3, <2>1 DEF Min
  <2>2. CASE ~(BatchSize <= Len(s))
    BY <1>1, <1>3, <2>2 DEF Min
  <2>3. QED
    BY <2>1, <2>2
<1> HIDE DEF n
<1>5. \A k \in 1..n : s[k] \in S
  BY <1>2, <1>3, <1>4
<1>6. /\ SubSeq(s, 1, n) \in Seq(S) /\ Len(SubSeq(s, 1, n)) = n
      /\ \A k \in 1..n : SubSeq(s, 1, n)[k] = s[k]
  <2>1. n \in Nat /\ 1 \in Int /\ n \in Int
    BY <1>1, <1>3, <1>4
  <2>2. /\ SubSeq(s, 1, n) \in Seq(S)
        /\ Len(SubSeq(s, 1, n)) = (IF 1 <= n THEN n - 1 + 1 ELSE 0)
        /\ \A k \in 1..n - 1 + 1 : SubSeq(s, 1, n)[k] = s[1 + k - 1]
    BY <1>5, <2>1, SubSeqProperties
  <2>3. QED
    BY <2>1, <2>2
<1>7. Cut(s) = SubSeq(s, 1, n)
  BY DEF n, Cut
<1>8. QED
  BY <1>2, <1>3, <1>4, <1>6, <1>7

\* A batch has different tasks of those asked for, and not too many.
LEMMA BatchTyped ==
    ASSUME NEW S, IsFiniteSet(S), NEW b \in Batches(S)
    PROVE  /\ b \in Seq(S) /\ Len(b) <= BatchSize
           /\ \A m, n \in 1..Len(b) : b[m] = b[n] => m = n
<1>1. PICK s \in SetToSeqs(S) : b = Cut(s)
  BY DEF Batches, Slices, Cut
<1>2. QED
  BY <1>1, CutTyped

\* What is left of the batch, without the task it began with.
LEMMA TailOfBatch ==
    ASSUME QueueTyped, batch # <<>>
    PROVE  /\ Current \in Seqs /\ Tail(batch) \in Seq(Seqs)
           /\ Len(Tail(batch)) <= BatchSize
           /\ Range(Tail(batch)) \subseteq Range(batch) \ {Current}
           /\ Current \in Range(batch)
           /\ \A m, n \in 1..Len(Tail(batch)) : Tail(batch)[m] = Tail(batch)[n] => m = n
<1>1. batch \in Seq(Seqs) /\ Len(batch) <= BatchSize
      /\ \A m, n \in 1..Len(batch) : batch[m] = batch[n] => m = n
  BY DEF QueueTyped, QueueTypeOK
<1>2. /\ Head(batch) \in Seqs /\ Tail(batch) \in Seq(Seqs) /\ Len(Tail(batch)) = Len(batch) - 1
      /\ \A i \in 1..Len(Tail(batch)) : Tail(batch)[i] = batch[i + 1]
  BY <1>1, HeadTailProperties
<1>3. Current = batch[1] /\ Len(batch) \in Nat \ {0}
  BY <1>1 DEF Current
<1>4. DOMAIN batch = 1..Len(batch) /\ DOMAIN Tail(batch) = 1..Len(batch) - 1
  BY <1>1, <1>2
<1>5. Range(Tail(batch)) \subseteq Range(batch) \ {Current}
  BY <1>1, <1>2, <1>3, <1>4 DEF Range
<1>6. Current \in Range(batch)
  BY <1>3, <1>4 DEF Range
<1>7. QED
  BY <1>1, <1>2, <1>3, <1>5, <1>6 DEF Current

-----------------------------------------------------------------------------
(* Steps that work on the current task                                     *)

IInv == Typed /\ QueueInv /\ StoresInv

LEMMA SameQueue ==
    ASSUME UNCHANGED queueVars
    PROVE  /\ Seqs' = Seqs /\ Pending' = Pending /\ Current' = Current /\ Task' = Task
           /\ \A id \in Identifiers : TasksOf(id)' = TasksOf(id)
           /\ UNCHANGED <<tasks, refs, queue, batch, expired, cleaning, crashes, ignored, crowded>>
  BY DEF queueVars, Seqs, Pending, Rows, Current, Task, TasksOf

LEMMA CurrentTyped ==
    ASSUME IInv, batch # <<>>
    PROVE  /\ Current \in Seqs /\ Current # 0 /\ Current \in Pending
           /\ Task.identifier \in Identifiers /\ Task.operation \in Operations
           /\ Current \in TasksOf(Task.identifier)
<1>1. Current \in Seqs /\ Current \in Range(batch)
  BY TailOfBatch, QueueIsTyped DEF IInv
<1>2. tasks \in Seq([identifier : Identifiers, operation : Operations])
  BY DEF IInv, Typed, TypeOK, QueueTypeOK
<1>3. tasks[Current] \in [identifier : Identifiers, operation : Operations] /\ Current # 0
  <2>1. Len(tasks) \in Nat /\ \A s \in 1..Len(tasks) : tasks[s] \in [identifier : Identifiers, operation : Operations]
    BY <1>2, ElementOfSeq, LenProperties
  <2>2. Current \in 1..Len(tasks)
    BY <1>1 DEF Seqs
  <2>3. QED
    BY <2>1, <2>2
<1>4. QED
  BY <1>1, <1>3 DEF IInv, QueueInv, Task, TasksOf

LEMMA WorkKeepsQueue ==
    ASSUME IInv, batch # <<>>, UNCHANGED queueVars,
           stage' \in Stages, performed' \in {performed, performed \union {Current}},
           stage' = "done" => Current \in performed',
           table' \in [Identifiers -> {0} \union Seqs],
           index' \in [Identifiers -> {0} \union Seqs]
    PROVE  Typed' /\ QueueInv'
<1>1. Current \in Seqs
  BY CurrentTyped
<1>2. UNCHANGED <<tasks, refs, queue, batch, expired, cleaning, crashes, ignored, crowded>>
      /\ Seqs' = Seqs /\ Pending' = Pending /\ Current' = Current
  BY SameQueue
<1>3. QueueTypeOK'
  BY <1>2 DEF IInv, Typed, TypeOK, QueueTypeOK
<1>4. performed' \subseteq Seqs /\ performed \subseteq performed'
  BY <1>1 DEF IInv, Typed, TypeOK
<1>5. Typed'
  BY <1>2, <1>3, <1>4 DEF IInv, Typed, TypeOK
<1>6. QueueInv'
  BY <1>2, <1>4 DEF IInv, QueueInv, Performed
<1>7. QED
  BY <1>5, <1>6

\* A step on one identifier leaves the others' to blame.
LEMMA WorkKeepsStores ==
    ASSUME IInv, batch # <<>>, UNCHANGED queueVars,
           NEW id \in Identifiers, id = Task.identifier,
           \A i \in Identifiers \ {id} : table'[i] = table[i] /\ index'[i] = index[i],
           id \in Anonymous => table'[id] = 0 /\ index'[id] = 0,
           stage' \in {"written", "undo"} =>
              id \notin Anonymous /\ (Task.operation = "DELETE" => table'[id] # 0),
           stage' = "written" => index'[id] = IF Task.operation = "DELETE" THEN 0 ELSE Current,
           table'[id] # index'[id] => stage' # "done" \/ Blame(id)' # {},
           table'[id] = 0 /\ index'[id] # 0 =>
              index'[id] \in Blame(id)' /\ tasks[index'[id]].operation # "DELETE"
    PROVE  StoresInv'
<1>1. Current \in Seqs /\ Current \in Pending /\ Current \in TasksOf(id) /\ id \in Identifiers
  BY CurrentTyped
<1>2. /\ Seqs' = Seqs /\ Pending' = Pending /\ Current' = Current /\ Task' = Task /\ tasks' = tasks
      /\ \A i \in Identifiers : TasksOf(i)' = TasksOf(i)
  BY SameQueue
<1>3. ASSUME NEW i \in Identifiers \ {id}, NEW s, s \in Blame(i) PROVE s \in Blame(i)'
  <2>1. s # Current
    BY <1>1, <1>3 DEF Blame, TasksOf
  <2>2. QED
    BY <1>2, <1>3, <2>1 DEF Blame
<1>4. \A i \in Anonymous : table'[i] = 0 /\ index'[i] = 0
  BY DEF IInv, StoresInv
<1>5. stage' # "done" => Current \in Blame(id)'
  BY <1>1, <1>2 DEF Blame
<1>6. ASSUME NEW i \in Identifiers, table'[i] # index'[i] PROVE Blame(i)' # {}
  <2>1. CASE i = id
    BY <1>1, <1>5, <1>6, <2>1
  <2>2. CASE i # id
    BY <1>3, <1>6, <2>2 DEF IInv, StoresInv
  <2>3. QED
    BY <2>1, <2>2
<1>7. ASSUME NEW i \in Identifiers, table'[i] = 0, index'[i] # 0
      PROVE  index'[i] \in Blame(i)' /\ tasks[index'[i]].operation # "DELETE"
  <2>1. CASE i = id
    BY <1>7, <2>1
  <2>2. CASE i # id
    BY <1>3, <1>7, <2>2 DEF IInv, StoresInv
  <2>3. QED
    BY <2>1, <2>2
<1>8. QED
  BY <1>2, <1>4, <1>6, <1>7 DEF StoresInv

LEMMA SkipHolds == IInv /\ Skip => IInv'
<1> SUFFICES ASSUME IInv, Skip PROVE IInv'
  OBVIOUS
<1>0. PICK id \in Identifiers : id = Task.identifier
  BY CurrentTyped DEF Skip, Working
<1>1. /\ batch # <<>> /\ UNCHANGED queueVars /\ UNCHANGED <<table, index>>
      /\ stage = "ready" /\ stage' = "done" /\ performed' = performed \union {Current}
  BY DEF Skip, Working, Goto
<1>2. Typed' /\ QueueInv'
  BY <1>0, <1>1, WorkKeepsQueue DEF IInv, Typed, TypeOK, Stages
<1>3. Current' = Current /\ Pending' = Pending /\ \A i \in Identifiers : TasksOf(i)' = TasksOf(i)
  BY <1>0, <1>1, SameQueue
<1>4. /\ id \in Anonymous => table[id] = 0 /\ index[id] = 0
      /\ table[id] = index[id] \/ (table[id] = 0 /\ Task.operation = "DELETE")
      /\ id \in Identifiers /\ index[id] \in {0} \union Seqs
  BY CurrentTyped, <1>0, <1>1 DEF Skip, IInv, StoresInv, Typed, TypeOK
<1>5. ASSUME table[id] = 0, index[id] # 0
      PROVE  index[id] \in Blame(id)' /\ tasks[index[id]].operation # "DELETE" /\ index[id] \in Seqs
  <2>1. index[id] \in Blame(id) /\ tasks[index[id]].operation # "DELETE"
    BY <1>4, <1>5 DEF IInv, StoresInv
  <2>2. index[id] # Current
    BY <1>4, <1>5, <2>1 DEF Task
  <2>3. QED
    BY <1>3, <1>4, <1>5, <2>1, <2>2 DEF Blame
<1>6. table'[id] # index'[id] => Blame(id)' # {}
  BY <1>0, <1>1, <1>4, <1>5
<1>7. StoresInv'
  BY <1>0, <1>1, <1>4, <1>5, <1>6, WorkKeepsStores
<1>8. QED
  BY <1>2, <1>7 DEF IInv

LEMMA RefMissingHolds == IInv /\ RefMissing => IInv'
<1> SUFFICES ASSUME IInv, RefMissing PROVE IInv'
  OBVIOUS
<1>0. PICK id \in Identifiers : id = Task.identifier
  BY CurrentTyped DEF RefMissing, Working
<1>1. /\ batch # <<>> /\ UNCHANGED queueVars /\ UNCHANGED <<table, index, performed>>
      /\ stage = "ready" /\ stage' = "failed"
  BY DEF RefMissing, Working, Goto
<1>2. Typed' /\ QueueInv'
  BY <1>0, <1>1, WorkKeepsQueue DEF IInv, Typed, TypeOK, Stages
<1>3. Pending' = Pending /\ \A i \in Identifiers : TasksOf(i)' = TasksOf(i)
  BY <1>0, <1>1, SameQueue
<1>4. id \in Identifiers /\ (id \in Anonymous => table[id] = 0 /\ index[id] = 0)
  BY CurrentTyped, <1>0, <1>1 DEF IInv, StoresInv
<1>5. table[id] = 0 /\ index[id] # 0 =>
         index[id] \in Blame(id)' /\ tasks[index[id]].operation # "DELETE"
  BY <1>0, <1>1, <1>3, <1>4 DEF IInv, StoresInv, Blame
<1>6. StoresInv'
  BY <1>0, <1>1, <1>4, <1>5, WorkKeepsStores
<1>7. QED
  BY <1>2, <1>6 DEF IInv

\* What a call to OpenSearch does, whether it answers or not.
LEMMA CallIs ==
    ASSUME NEW id \in Identifiers, NEW s, NEW a, NEW f, a # "done", f # "done", Call(id, s, a, f)
    PROVE  /\ index' = index \/ index' = [index EXCEPT ![id] = s]
           /\ stage' \in {a, f} /\ performed' = performed
           /\ stage' = a /\ a # f => index' = [index EXCEPT ![id] = s]
  BY DEF Call, Goto

LEMMA UpdateOrCreateHolds == IInv /\ UpdateOrCreate => IInv'
<1> SUFFICES ASSUME IInv, UpdateOrCreate PROVE IInv'
  OBVIOUS
<1>0. PICK id \in Identifiers : id = Task.identifier
  BY CurrentTyped DEF UpdateOrCreate, Working
<1>1. /\ batch # <<>> /\ UNCHANGED queueVars /\ table' = table /\ stage = "ready"
      /\ Task.operation # "DELETE" /\ id \notin Anonymous
  BY <1>0 DEF UpdateOrCreate, Working
<1>2. Current \in Seqs /\ Current # 0 /\ Current \in Pending /\ id \in Identifiers
      /\ Current \in TasksOf(id)
  BY <1>0, <1>1, CurrentTyped
<1>3. /\ index' = index \/ index' = [index EXCEPT ![id] = Current]
      /\ stage' \in {"written", "failed", "undo"} /\ performed' = performed
      /\ stage' = "written" => index' = [index EXCEPT ![id] = Current]
  BY <1>0, <1>2, CallIs DEF UpdateOrCreate, Goto
<1>4. table \in [Identifiers -> {0} \union Seqs] /\ index \in [Identifiers -> {0} \union Seqs]
  BY DEF IInv, Typed, TypeOK
<1>5. Typed' /\ QueueInv'
  BY <1>0, <1>1, <1>2, <1>3, <1>4, WorkKeepsQueue DEF Stages
<1>6. Pending' = Pending /\ \A i \in Identifiers : TasksOf(i)' = TasksOf(i)
  BY <1>0, <1>1, SameQueue
<1>7. ASSUME table'[id] = 0, index'[id] # 0
      PROVE  index'[id] \in Blame(id)' /\ tasks[index'[id]].operation # "DELETE"
  <2>1. CASE index'[id] = Current
    BY <1>0, <1>1, <1>2, <1>3, <1>6, <2>1 DEF Blame, Task
  <2>2. CASE index'[id] = index[id]
    BY <1>0, <1>1, <1>2, <1>3, <1>6, <1>7, <2>2 DEF IInv, StoresInv, Blame
  <2>3. QED
    BY <1>2, <1>3, <1>4, <2>1, <2>2
<1>8. StoresInv'
  BY <1>0, <1>1, <1>2, <1>3, <1>4, <1>7, WorkKeepsStores
<1>9. QED
  BY <1>5, <1>8 DEF IInv

LEMMA DeleteHolds == IInv /\ Delete => IInv'
<1> SUFFICES ASSUME IInv, Delete PROVE IInv'
  OBVIOUS
<1>0. PICK id \in Identifiers : id = Task.identifier
  BY CurrentTyped DEF Delete, Working
<1>1. /\ batch # <<>> /\ UNCHANGED queueVars /\ table' = table /\ stage = "ready"
      /\ Task.operation = "DELETE" /\ id \notin Anonymous /\ table[id] # 0
  BY <1>0 DEF Delete, Working
<1>2. Current \in Seqs /\ id \in Identifiers
  BY <1>0, <1>1, CurrentTyped
<1>3. /\ index' = index \/ index' = [index EXCEPT ![id] = 0]
      /\ stage' \in {"written", "failed"} /\ performed' = performed
      /\ stage' = "written" => index' = [index EXCEPT ![id] = 0]
  BY <1>0, <1>2, CallIs DEF Delete
<1>4. table \in [Identifiers -> {0} \union Seqs] /\ index \in [Identifiers -> {0} \union Seqs]
  BY DEF IInv, Typed, TypeOK
<1>5. Typed' /\ QueueInv'
  BY <1>0, <1>1, <1>2, <1>3, <1>4, WorkKeepsQueue DEF Stages
<1>6. StoresInv'
  BY <1>0, <1>1, <1>2, <1>3, <1>4, WorkKeepsStores
<1>7. QED
  BY <1>5, <1>6 DEF IInv

LEMMA CommitHolds == IInv /\ Commit => IInv'
<1> SUFFICES ASSUME IInv, Commit PROVE IInv'
  OBVIOUS
<1>0. PICK id \in Identifiers : id = Task.identifier
  BY CurrentTyped DEF Commit, Working
<1> DEFINE new == IF Task.operation = "DELETE" THEN 0 ELSE Current
<1>1. /\ batch # <<>> /\ UNCHANGED queueVars /\ index' = index /\ stage = "written"
      /\ id \notin Anonymous /\ index[id] = new /\ (Task.operation = "DELETE" => table[id] # 0)
  BY <1>0 DEF Commit, Working, IInv, StoresInv
<1>2. Current \in Seqs /\ Current # 0 /\ Current \in Pending /\ id \in Identifiers
      /\ Current \in TasksOf(id)
  BY <1>0, <1>1, CurrentTyped
<1>3. table \in [Identifiers -> {0} \union Seqs] /\ index \in [Identifiers -> {0} \union Seqs]
  BY DEF IInv, Typed, TypeOK
<1>4. CASE table' = [table EXCEPT ![id] = new] /\ Goto("done")
  <2>1. stage' = "done" /\ performed' = performed \union {Current}
    BY <1>4 DEF Goto
  <2>2. Typed' /\ QueueInv'
    BY <1>0, <1>1, <1>2, <1>3, <1>4, <2>1, WorkKeepsQueue DEF Stages
  <2>3. table'[id] = index'[id] /\ \A i \in Identifiers \ {id} : table'[i] = table[i]
    BY <1>0, <1>1, <1>2, <1>3, <1>4
  <2>4. StoresInv'
    BY <1>0, <1>1, <2>1, <2>3, WorkKeepsStores
  <2>5. QED
    BY <2>2, <2>4 DEF IInv
<1>5. CASE UNCHANGED table /\ Goto("undo")
  <2>1. stage' = "undo" /\ performed' = performed
    BY <1>5 DEF Goto
  <2>2. Typed' /\ QueueInv'
    BY <1>0, <1>1, <1>2, <1>3, <1>5, <2>1, WorkKeepsQueue DEF Stages
  <2>3. Pending' = Pending /\ \A i \in Identifiers : TasksOf(i)' = TasksOf(i)
    BY <1>0, <1>1, SameQueue
  <2>4. table'[id] = 0 /\ index'[id] # 0 =>
           index'[id] \in Blame(id)' /\ tasks[index'[id]].operation # "DELETE"
    BY <1>0, <1>1, <1>2, <1>5, <2>1, <2>3 DEF Blame, Task
  <2>5. StoresInv'
    BY <1>0, <1>1, <1>5, <2>1, <2>4, WorkKeepsStores
  <2>6. QED
    BY <2>2, <2>5 DEF IInv
<1>6. QED
  BY <1>0, <1>4, <1>5 DEF Commit

LEMMA UndoHolds == IInv /\ Undo => IInv'
<1> SUFFICES ASSUME IInv, Undo PROVE IInv'
  OBVIOUS
<1>0. PICK id \in Identifiers : id = Task.identifier
  BY CurrentTyped DEF Undo, Working
<1>1. /\ batch # <<>> /\ UNCHANGED queueVars /\ table' = table /\ stage = "undo"
      /\ id \notin Anonymous /\ (Task.operation = "DELETE" => table[id] # 0)
  BY <1>0 DEF Undo, Working, IInv, StoresInv
<1>2. Current \in Seqs /\ id \in Identifiers /\ Newest(id) \in {0} \union Seqs
  BY <1>0, <1>1, CurrentTyped, NewestTyped, QueueIsTyped DEF IInv
<1>3. table \in [Identifiers -> {0} \union Seqs] /\ index \in [Identifiers -> {0} \union Seqs]
  BY DEF IInv, Typed, TypeOK
<1>4. /\ \/ index' = index
         \/ index' = [index EXCEPT ![id] = 0]
         \/ index' = [index EXCEPT ![id] = Newest(id)] /\ table[id] # 0
      /\ stage' = "failed" /\ performed' = performed
  BY <1>0, <1>1, <1>2, CallIs DEF Undo, Goto
<1>5. Typed' /\ QueueInv'
  BY <1>0, <1>1, <1>2, <1>3, <1>4, WorkKeepsQueue DEF Stages
<1>6. Pending' = Pending /\ \A i \in Identifiers : TasksOf(i)' = TasksOf(i)
  BY <1>0, <1>1, SameQueue
<1>7. table'[id] = 0 /\ index'[id] # 0 =>
         index'[id] \in Blame(id)' /\ tasks[index'[id]].operation # "DELETE"
  BY <1>0, <1>1, <1>2, <1>3, <1>4, <1>6 DEF IInv, StoresInv, Blame
<1>8. StoresInv'
  BY <1>0, <1>1, <1>2, <1>3, <1>4, <1>7, WorkKeepsStores
<1>9. QED
  BY <1>5, <1>8 DEF IInv

-----------------------------------------------------------------------------
(* Steps of the queue                                                      *)

\* A step that leaves the stores alone keeps them, if it keeps who is to blame.
LEMMA StoresFrame ==
    ASSUME IInv, UNCHANGED <<table, index>>,
           \A s \in Seqs : tasks'[s].operation = tasks[s].operation,
           \A i \in Identifiers : Blame(i) \subseteq Blame(i)',
           stage' = "ready" \/ (stage' = stage /\ Current' = Current /\ Task' = Task)
    PROVE  StoresInv'
<1>1. ASSUME NEW i \in Identifiers, table[i] = 0, index[i] # 0
      PROVE  index[i] \in Blame(i)' /\ tasks'[index[i]].operation # "DELETE"
  <2>1. index[i] \in Blame(i) /\ tasks[index[i]].operation # "DELETE"
    BY <1>1 DEF IInv, StoresInv
  <2>2. index[i] \in Seqs
    BY <2>1 DEF Blame, TasksOf
  <2>3. QED
    BY <2>1, <2>2
<1>2. \A i \in Identifiers : table[i] # index[i] => Blame(i)' # {}
  BY DEF IInv, StoresInv
<1>3. QED
  BY <1>1, <1>2 DEF IInv, StoresInv

\* The tasks stay, and those that wait or failed still do.
LEMMA BlameKept ==
    ASSUME IInv, UNCHANGED tasks, Pending \subseteq Pending',
           stage' = "ready" \/ (stage' = stage /\ Current' = Current)
    PROVE  \A i \in Identifiers : Blame(i) \subseteq Blame(i)'
  BY DEF Blame, TasksOf, Seqs

LEMMA FetchHolds == IInv /\ Fetch /\ UNCHANGED stores => IInv'
<1> SUFFICES ASSUME IInv, Fetch, UNCHANGED stores PROVE IInv'
  OBVIOUS
<1>1. /\ batch = <<>> /\ stage = "ready"
      /\ UNCHANGED <<tasks, refs, queue, expired, cleaning, crashes, ignored, crowded>>
      /\ UNCHANGED <<table, index, stage, performed>>
  BY DEF Fetch, stores, IInv, Typed, TypeOK
<1>2. PICK due \in SUBSET Rows({"FAILURE"}) :
         batch' \in Batches(Rows({"UNSUBMITTED"}) \union Retryable(due))
  BY DEF Fetch
<1> DEFINE rows == Rows({"UNSUBMITTED"}) \union Retryable(due)
<1>3. rows \subseteq Pending /\ rows \subseteq Seqs
  BY DEF Retryable, Rows, Pending, IInv, Typed, TypeOK, QueueTypeOK
<1>4. IsFiniteSet(rows)
  <2>1. Len(tasks) \in Nat
    BY DEF IInv, Typed, TypeOK, QueueTypeOK
  <2>2. IsFiniteSet(1..Len(tasks))
    BY <2>1, FS_Interval
  <2>3. QED
    BY <1>3, <2>2, FS_Subset DEF Seqs
<1> HIDE DEF rows
<1>5. /\ batch' \in Seq(rows) /\ Len(batch') <= BatchSize
      /\ \A m, n \in 1..Len(batch') : batch'[m] = batch'[n] => m = n
  BY <1>2, <1>4, BatchTyped DEF rows
<1>6. batch' \in Seq(Seqs)
  BY <1>3, <1>5, SeqOfSubset
<1>7. Range(batch') \subseteq rows
  <2>1. \A n \in DOMAIN batch' : batch'[n] \in rows
    BY <1>5
  <2>2. QED
    BY <2>1 DEF Range
<1>8. Seqs' = Seqs /\ Pending' = Pending
  BY <1>1 DEF Seqs, Pending, Rows
<1>9. QueueTypeOK'
  BY <1>1, <1>3, <1>5, <1>7, <1>8 DEF IInv, Typed, TypeOK, QueueTypeOK
<1>10. Typed'
  BY <1>1, <1>5, <1>6, <1>8, <1>9 DEF IInv, Typed, TypeOK
<1>11. QueueInv'
  BY <1>1, <1>3, <1>7, <1>8 DEF IInv, QueueInv, Performed
<1>12. StoresInv'
  BY <1>1, <1>8, StoresFrame, BlameKept
<1>13. QED
  BY <1>10, <1>11, <1>12 DEF IInv

LEMMA CrashHolds == IInv /\ Crash => IInv'
<1> SUFFICES ASSUME IInv, Crash PROVE IInv'
  OBVIOUS
<1>1. /\ batch' = <<>> /\ stage' = "ready" /\ crashes' = crashes + 1 /\ crashes < MaxCrashes
      /\ UNCHANGED <<tasks, refs, queue, expired, cleaning, ignored, crowded>>
      /\ UNCHANGED <<table, index, performed>>
  BY DEF Crash, EndDaemon
<1>2. Seqs' = Seqs /\ Pending' = Pending
  BY <1>1 DEF Seqs, Pending, Rows
<1>3. QueueTypeOK'
  <2>1. crashes' \in 0..MaxCrashes
    BY <1>1 DEF IInv, Typed, TypeOK, QueueTypeOK
  <2>2. Range(batch') \subseteq Seqs /\ Len(batch') <= BatchSize
    BY <1>1 DEF Range
  <2>3. QED
    BY <1>1, <1>2, <2>1, <2>2 DEF IInv, Typed, TypeOK, QueueTypeOK
<1>4. Typed'
  <2>1. batch' \in Seq(Seqs) /\ \A m, n \in 1..Len(batch') : batch'[m] = batch'[n] => m = n
    BY <1>1
  <2>2. QED
    BY <1>1, <1>2, <1>3, <2>1 DEF IInv, Typed, TypeOK, Stages
<1>5. QueueInv'
  <2>1. Range(batch') \subseteq Pending'
    BY <1>1 DEF Range
  <2>2. QED
    BY <1>1, <1>2, <2>1 DEF IInv, QueueInv, Performed
<1>6. StoresInv'
  BY <1>1, <1>2, StoresFrame, BlameKept
<1>7. QED
  BY <1>4, <1>5, <1>6 DEF IInv

LEMMA SettleHolds == IInv /\ Settle => IInv'
<1> SUFFICES ASSUME IInv, Settle PROVE IInv'
  OBVIOUS
<1> DEFINE status == IF stage = "done" THEN "SUCCESS" ELSE "FAILURE"
<1>1. /\ batch # <<>> /\ stage \in {"done", "failed"} /\ stage' = "ready"
      /\ UNCHANGED <<tasks, refs, expired, cleaning, crashes, ignored, crowded>>
      /\ UNCHANGED <<table, index, performed>>
  BY DEF Settle, SaveTask
<1>2. \/ Current \in refs /\ queue' = WithRow(Current, status) /\ batch' = Tail(batch)
      \/ Current \notin refs /\ batch' = <<>> /\ queue' = queue
  BY DEF Settle, SaveTask
<1>3. Current \in Seqs /\ Current \in Pending
  BY <1>1, CurrentTyped
<1>4. Seqs' = Seqs
  BY <1>1 DEF Seqs
<1>5. CASE Current \notin refs
  <2>1. batch' = <<>> /\ queue' = queue /\ Pending' = Pending
    BY <1>1, <1>2, <1>5 DEF Pending, Rows
  <2>2. Range(batch') = {} /\ Len(batch') = 0 /\ batch' \in Seq(Seqs)
    BY <2>1 DEF Range
  <2>3. QueueTypeOK'
    BY <1>1, <1>4, <2>1, <2>2 DEF IInv, Typed, TypeOK, QueueTypeOK
  <2>4. Typed'
    BY <1>1, <1>4, <2>1, <2>2, <2>3 DEF IInv, Typed, TypeOK, Stages
  <2>5. QueueInv'
    BY <1>1, <1>4, <2>1, <2>2 DEF IInv, QueueInv, Performed
  <2>6. StoresInv'
    BY <1>1, <2>1, StoresFrame, BlameKept
  <2>7. QED
    BY <2>4, <2>5, <2>6 DEF IInv
<1>6. CASE Current \in refs
  <2>1. /\ batch' = Tail(batch) /\ DOMAIN queue' = DOMAIN queue \union {Current}
        /\ queue'[Current] = status
        /\ \A s \in DOMAIN queue \ {Current} : queue'[s] = queue[s]
    BY <1>2, <1>6 DEF WithRow
  <2>2. /\ Tail(batch) \in Seq(Seqs) /\ Len(Tail(batch)) <= BatchSize
        /\ Range(Tail(batch)) \subseteq Range(batch) \ {Current}
        /\ \A m, n \in 1..Len(Tail(batch)) : Tail(batch)[m] = Tail(batch)[n] => m = n
    BY <1>1, TailOfBatch, QueueIsTyped DEF IInv
  <2>3. \A s \in Pending : s # Current => s \in Pending'
    BY <1>1, <2>1 DEF Pending, Rows
  <2>4. stage # "done" => Current \in Pending'
    BY <2>1 DEF Pending, Rows
  <2>5. QueueTypeOK'
    <3>1. DOMAIN queue' \subseteq refs' /\ \A s \in DOMAIN queue' : queue'[s] \in Statuses
      BY <1>1, <1>6, <2>1 DEF IInv, Typed, TypeOK, QueueTypeOK, Statuses
    <3>2. Range(batch') \subseteq Seqs /\ Len(batch') <= BatchSize
      BY <2>1, <2>2 DEF IInv, Typed, TypeOK, QueueTypeOK
    <3>3. QED
      BY <1>1, <1>4, <3>1, <3>2 DEF IInv, Typed, TypeOK, QueueTypeOK
  <2>6. Typed'
    BY <1>1, <1>4, <2>1, <2>2, <2>5 DEF IInv, Typed, TypeOK, Stages
  <2>7. QueueInv'
    <3>1. Range(batch') \subseteq Pending'
      BY <2>1, <2>2, <2>3 DEF IInv, QueueInv
    <3>2. \A s \in DOMAIN queue' :
             \/ queue'[s] \in {"UNSUBMITTED", "FAILURE"}
             \/ queue'[s] = "SUCCESS" /\ Performed(s)'
             \/ s \in ignored'
      BY <1>1, <2>1 DEF IInv, QueueInv, Performed
    <3>3. \A s \in (Seqs \ DOMAIN queue)' : Performed(s)'
      BY <1>1, <1>4, <2>1 DEF IInv, QueueInv, Performed
    <3>4. cleaning' # 0 => \/ cleaning' \in ignored'
                           \/ /\ cleaning' \in performed'
                              /\ cleaning' \in DOMAIN queue' => queue'[cleaning'] = "SUCCESS"
      <4>1. CASE cleaning = Current
        BY <1>1, <1>3, <4>1 DEF IInv, QueueInv, Pending, Rows
      <4>2. CASE cleaning # Current
        BY <1>1, <2>1, <4>2 DEF IInv, QueueInv
      <4>3. QED
        BY <4>1, <4>2
    <3>5. QED
      BY <1>1, <3>1, <3>2, <3>3, <3>4 DEF QueueInv
  <2>8. StoresInv'
    <3>1. \A i \in Identifiers : Blame(i) \subseteq Blame(i)'
      BY <1>1, <2>3, <2>4 DEF Blame, TasksOf, Seqs
    <3>2. QED
      BY <1>1, <3>1, StoresFrame
  <2>9. QED
    BY <2>6, <2>7, <2>8 DEF IInv
<1>7. QED
  BY <1>5, <1>6

-----------------------------------------------------------------------------
(* Steps of the other processes                                            *)

LEMMA EnqueueHolds ==
    ASSUME IInv, NEW id \in Identifiers, NEW operation \in Operations,
           Enqueue(id, operation), UNCHANGED stores
    PROVE  IInv'
<1> DEFINE new == Len(tasks) + 1
<1>1. /\ tasks' = Append(tasks, [identifier |-> id, operation |-> operation])
      /\ refs' = refs \union {new} /\ queue' = WithRow(new, "UNSUBMITTED")
      /\ crowded' \in {crowded, crowded \union {id}}
      /\ UNCHANGED <<batch, expired, cleaning, crashes, ignored>>
      /\ UNCHANGED <<table, index, stage, performed>>
  BY DEF Enqueue, stores
<1>2. tasks \in Seq([identifier : Identifiers, operation : Operations]) /\ Len(tasks) \in Nat
  BY DEF IInv, Typed, TypeOK, QueueTypeOK
<1>3. /\ tasks' \in Seq([identifier : Identifiers, operation : Operations])
      /\ Len(tasks') = Len(tasks) + 1
      /\ \A s \in 1..Len(tasks) : tasks'[s] = tasks[s]
  BY <1>1, <1>2, AppendProperties
<1>4. Seqs' = Seqs \union {new} /\ new \notin Seqs /\ new # 0
  BY <1>2, <1>3 DEF Seqs
<1> HIDE DEF new
<1>5. /\ DOMAIN queue' = DOMAIN queue \union {new} /\ queue'[new] = "UNSUBMITTED"
      /\ \A s \in DOMAIN queue \ {new} : queue'[s] = queue[s]
      /\ new \notin DOMAIN queue
  BY <1>1, <1>4 DEF WithRow, IInv, Typed, TypeOK, QueueTypeOK
<1>6. Pending \subseteq Pending'
  BY <1>1, <1>5 DEF Pending, Rows
<1>7. QueueTypeOK'
  <2>1. DOMAIN queue' \subseteq refs' /\ refs' \subseteq Seqs'
        /\ \A s \in DOMAIN queue' : queue'[s] \in Statuses
    BY <1>1, <1>4, <1>5 DEF IInv, Typed, TypeOK, QueueTypeOK, Statuses
  <2>2. QED
    BY <1>1, <1>3, <1>4, <2>1 DEF IInv, Typed, TypeOK, QueueTypeOK
<1>8. Typed'
  <2>1. batch' \in Seq(Seqs')
    BY <1>1, <1>4, SeqOfSubset DEF IInv, Typed
  <2>2. table' \in [Identifiers -> {0} \union Seqs'] /\ index' \in [Identifiers -> {0} \union Seqs']
    BY <1>1, <1>4 DEF IInv, Typed, TypeOK
  <2>3. QED
    BY <1>1, <1>4, <1>7, <2>1, <2>2 DEF IInv, Typed, TypeOK
<1>9. QueueInv'
  <2>1. cleaning # new
    BY <1>4 DEF IInv, Typed, TypeOK, QueueTypeOK
  <2>2. Current' = Current
    BY <1>1 DEF Current
  <2>3. Range(batch') \subseteq Pending'
    BY <1>1, <1>6 DEF IInv, QueueInv
  <2>4. cleaning' # 0 => \/ cleaning' \in ignored'
                         \/ /\ cleaning' \in performed'
                            /\ cleaning' \in DOMAIN queue' => queue'[cleaning'] = "SUCCESS"
    BY <1>1, <1>5, <2>1 DEF IInv, QueueInv
  <2>5. \A s \in DOMAIN queue' :
             \/ queue'[s] \in {"UNSUBMITTED", "FAILURE"}
             \/ queue'[s] = "SUCCESS" /\ Performed(s)'
             \/ s \in ignored'
    BY <1>1, <1>5 DEF IInv, QueueInv, Performed
  <2>6. \A s \in (Seqs \ DOMAIN queue)' : Performed(s)'
    BY <1>1, <1>4, <1>5 DEF IInv, QueueInv, Performed
  <2>7. stage' = "done" => Current' \in performed'
    BY <1>1, <2>2 DEF IInv, QueueInv
  <2>8. QED
    BY <2>3, <2>4, <2>5, <2>6, <2>7 DEF QueueInv
<1>10. StoresInv'
  <2>1. \A i \in Identifiers : Blame(i) \subseteq Blame(i)'
    BY <1>1, <1>3, <1>4, <1>6 DEF Blame, TasksOf, Seqs, Current
  <2>2. stage = "ready" \/ (Current' = Current /\ Task' = Task)
    <3>1. CASE batch = <<>>
      BY <3>1 DEF IInv, Typed, TypeOK
    <3>2. CASE batch # <<>>
      BY <1>1, <1>3, <3>2, CurrentTyped DEF Current, Task, Seqs
    <3>3. QED
      BY <3>1, <3>2
  <2>3. \A s \in Seqs : tasks'[s].operation = tasks[s].operation
    BY <1>3 DEF Seqs
  <2>4. QED
    BY <1>1, <2>1, <2>2, <2>3, StoresFrame
<1>11. QED
  BY <1>8, <1>9, <1>10 DEF IInv

\* What the other processes leave alone.
LEMMA OthersKeep ==
    ASSUME IInv, UNCHANGED <<tasks, batch, crashes, crowded>>, UNCHANGED stores,
           QueueTypeOK', Pending \subseteq Pending', QueueInv'
    PROVE  IInv'
<1>1. Seqs' = Seqs /\ Current' = Current /\ Task' = Task
      /\ UNCHANGED <<table, index, stage, performed>>
  BY DEF Seqs, Current, Task, stores
<1>2. Typed'
  BY <1>1 DEF IInv, Typed, TypeOK
<1>3. StoresInv'
  BY <1>1, StoresFrame, BlameKept
<1>4. QED
  BY <1>2, <1>3 DEF IInv

LEMMA OtherProcessesHold == IInv /\ OtherProcesses /\ UNCHANGED stores => IInv'
<1> SUFFICES ASSUME IInv, OtherProcesses, UNCHANGED stores PROVE IInv'
  OBVIOUS
<1>1. UNCHANGED <<table, index, stage, performed>>
  BY DEF stores
<1>2. ASSUME NEW s \in Seqs, Expire(s) PROVE IInv'
  <2>1. /\ expired' = expired \union {s}
        /\ UNCHANGED <<tasks, refs, queue, batch, cleaning, crashes, ignored, crowded>>
    BY <1>2 DEF Expire
  <2>2. Seqs' = Seqs /\ Pending' = Pending /\ Current' = Current
    BY <2>1 DEF Seqs, Pending, Rows, Current
  <2>3. QueueTypeOK'
    BY <2>1, <2>2 DEF IInv, Typed, TypeOK, QueueTypeOK
  <2>4. QueueInv'
    BY <1>1, <2>1, <2>2 DEF IInv, QueueInv, Performed
  <2>5. QED
    BY <2>1, <2>2, <2>3, <2>4, OthersKeep
<1>3. ASSUME NEW s \in Seqs, FindDone(s) PROVE IInv'
  <2>1. /\ cleaning' = s /\ s \in DOMAIN queue /\ queue[s] \in {"SUCCESS", "IGNORED"}
        /\ UNCHANGED <<tasks, refs, queue, batch, expired, crashes, ignored, crowded>>
    BY <1>3 DEF FindDone, Rows, Done
  <2>2. Seqs' = Seqs /\ Pending' = Pending /\ Current' = Current
    BY <2>1 DEF Seqs, Pending, Rows, Current
  <2>3. QueueTypeOK'
    BY <2>1, <2>2 DEF IInv, Typed, TypeOK, QueueTypeOK
  <2>4. s \in ignored \/ (s \in performed /\ queue[s] = "SUCCESS")
    BY <2>1 DEF IInv, QueueInv, Performed
  <2>5. QueueInv'
    BY <1>1, <2>1, <2>2, <2>4 DEF IInv, QueueInv, Performed
  <2>6. QED
    BY <2>1, <2>2, <2>3, <2>5, OthersKeep
<1>4. CASE DeleteDone
  <2>1. /\ cleaning # 0 /\ queue' = WithoutRow(cleaning) /\ cleaning' = 0
        /\ UNCHANGED <<tasks, refs, batch, expired, crashes, ignored, crowded>>
    BY <1>4 DEF DeleteDone
  <2>2. DOMAIN queue' = DOMAIN queue \ {cleaning} /\ \A s \in DOMAIN queue' : queue'[s] = queue[s]
    BY <2>1 DEF WithoutRow
  <2>3. /\ Performed(cleaning)
        /\ cleaning \in ignored \/ cleaning \notin DOMAIN queue \/ queue[cleaning] = "SUCCESS"
    BY <2>1 DEF IInv, QueueInv, Performed
  <2>4. Seqs' = Seqs /\ Pending \subseteq Pending' /\ Current' = Current
    BY <2>1, <2>2, <2>3 DEF Seqs, Pending, Rows, Current
  <2>5. QueueTypeOK'
    BY <2>1, <2>2, <2>4 DEF IInv, Typed, TypeOK, QueueTypeOK
  <2>6. QueueInv'
    BY <1>1, <2>1, <2>2, <2>3, <2>4 DEF IInv, QueueInv, Performed
  <2>7. QED
    BY <2>1, <2>4, <2>5, <2>6, OthersKeep
<1>5. ASSUME NEW s \in Seqs, DeleteRef(s) PROVE IInv'
  <2>1. /\ refs' = refs \ {s} /\ s \notin DOMAIN queue
        /\ UNCHANGED <<tasks, queue, batch, expired, cleaning, crashes, ignored, crowded>>
    BY <1>5 DEF DeleteRef
  <2>2. Seqs' = Seqs /\ Pending' = Pending /\ Current' = Current
    BY <2>1 DEF Seqs, Pending, Rows, Current
  <2>3. QueueTypeOK'
    BY <2>1, <2>2 DEF IInv, Typed, TypeOK, QueueTypeOK
  <2>4. QueueInv'
    BY <1>1, <2>1, <2>2 DEF IInv, QueueInv, Performed
  <2>5. QED
    BY <2>1, <2>2, <2>3, <2>4, OthersKeep
<1>6. ASSUME NEW id \in Identifiers, MarkIgnored(id) PROVE IInv'
  <2>1. PICK s \in refs : /\ s \in DOMAIN queue /\ queue' = WithRow(s, "IGNORED")
                          /\ ignored' = ignored \union {s}
    BY <1>6 DEF MarkIgnored
  <2>2. UNCHANGED <<tasks, refs, batch, expired, cleaning, crashes, crowded>>
    BY <1>6 DEF MarkIgnored
  <2>3. /\ DOMAIN queue' = DOMAIN queue /\ queue'[s] = "IGNORED"
        /\ \A r \in DOMAIN queue \ {s} : queue'[r] = queue[r]
    BY <2>1 DEF WithRow
  <2>4. Seqs' = Seqs /\ Pending \subseteq Pending' /\ Current' = Current
    BY <2>1, <2>2, <2>3 DEF Seqs, Pending, Rows, Current
  <2>5. QueueTypeOK'
    <3>1. \A r \in DOMAIN queue' : queue'[r] \in Statuses
      BY <2>3 DEF IInv, Typed, TypeOK, QueueTypeOK, Statuses
    <3>2. ignored' \subseteq Seqs
      BY <2>1 DEF IInv, Typed, TypeOK, QueueTypeOK
    <3>3. QED
      BY <2>2, <2>3, <2>4, <3>1, <3>2 DEF IInv, Typed, TypeOK, QueueTypeOK
  <2>6. QueueInv'
    BY <1>1, <2>1, <2>2, <2>3, <2>4 DEF IInv, QueueInv, Performed
  <2>7. QED
    BY <2>2, <2>4, <2>5, <2>6, OthersKeep
<1>7. QED
  BY <1>2, <1>3, <1>4, <1>5, <1>6 DEF OtherProcesses

-----------------------------------------------------------------------------
(* The newest of an identifier                                             *)

\* What search should have of an identifier.
Found(id) == IF Exists(id) THEN Newest(id) ELSE 0

\* An identifier that was never crowded, and whose tasks were never marked, has
\* the task of its newest snapshot pending and no other; when that is performed
\* the table has what it should.
NewestInv ==
    \A id \in Identifiers \ (crowded \union Anonymous) :
        TasksOf(id) \intersect ignored = {} =>
            /\ TasksOf(id) \intersect Pending \subseteq {Newest(id)}
            /\ Blame(id) = {} => table[id] = Found(id)

LEMMA SameTasks ==
    ASSUME UNCHANGED tasks
    PROVE  \A id \in Identifiers :
              /\ TasksOf(id)' = TasksOf(id) /\ Newest(id)' = Newest(id)
              /\ Found(id)' = Found(id)
  BY DEF TasksOf, Seqs, Newest, Exists, Found

\* The tasks stay, what is pending is not more than it was, and none to blame is
\* exculpated.
LEMMA NewestFrame ==
    ASSUME NewestInv, UNCHANGED <<tasks, table, crowded>>, ignored \subseteq ignored',
           \A id \in Identifiers : TasksOf(id) \intersect ignored' = {} =>
              /\ TasksOf(id) \intersect Pending' \subseteq Pending
              /\ Blame(id) \subseteq Blame(id)'
    PROVE  NewestInv'
<1> SUFFICES ASSUME NEW id \in Identifiers, id \notin crowded \union Anonymous,
                    TasksOf(id) \intersect ignored' = {}
             PROVE  /\ TasksOf(id) \intersect Pending' \subseteq {Newest(id)}
                    /\ Blame(id)' = {} => table[id] = Found(id)
  BY SameTasks DEF NewestInv
<1>1. /\ TasksOf(id) \intersect Pending \subseteq {Newest(id)}
      /\ Blame(id) = {} => table[id] = Found(id)
  BY DEF NewestInv
<1>2. QED
  BY <1>1

\* A step on a task leaves the table alone, or it has performed the task.
LEMMA WorkKeepsNewest ==
    ASSUME IInv, NewestInv, batch # <<>>, UNCHANGED queueVars, stage # "done",
           NEW id \in Identifiers, id = Task.identifier,
           \A i \in Identifiers \ {id} : table'[i] = table[i],
           \/ stage' # "done" /\ table' = table
           \/ stage' = "done" /\ (id \notin Anonymous => table'[id] = IF Task.operation = "DELETE" THEN 0 ELSE Current)
    PROVE  NewestInv'
<1>1. Current \in Pending /\ Current \in TasksOf(id)
  BY CurrentTyped
<1>2. /\ Seqs' = Seqs /\ Pending' = Pending /\ Current' = Current /\ tasks' = tasks
      /\ ignored' = ignored /\ crowded' = crowded
  BY SameQueue
<1>3. CASE stage' # "done" /\ table' = table
  <2>1. \A i \in Identifiers : Blame(i) \subseteq Blame(i)'
    BY <1>2, <1>3, BlameKept DEF Blame, TasksOf
  <2>2. QED
    BY <1>2, <1>3, <2>1, NewestFrame
<1>4. CASE stage' = "done"
  <2> SUFFICES ASSUME NEW i \in Identifiers, i \notin crowded \union Anonymous,
                      TasksOf(i) \intersect ignored = {}
               PROVE  /\ TasksOf(i) \intersect Pending \subseteq {Newest(i)}
                      /\ Blame(i)' = {} => table'[i] = Found(i)
    BY <1>2, SameTasks DEF NewestInv
  <2>1. /\ TasksOf(i) \intersect Pending \subseteq {Newest(i)}
        /\ Blame(i) = {} => table[i] = Found(i)
    BY DEF NewestInv
  <2>2. CASE i = id
    <3>1. Current = Newest(i) /\ TasksOf(i) # {}
      BY <1>1, <2>1, <2>2
    <3>2. table'[i] = Found(i)
      BY <1>4, <2>2, <3>1 DEF Found, Exists, Task
    <3>3. QED
      BY <2>1, <3>2
  <2>3. CASE i # id
    <3>1. Current \notin TasksOf(i)
      BY <1>1, <2>3 DEF TasksOf
    <3>2. Blame(i) \subseteq Blame(i)'
      BY <1>2, <3>1, SameTasks DEF Blame
    <3>3. QED
      BY <2>1, <2>3, <3>2
  <2>4. QED
    BY <2>2, <2>3
<1>5. QED
  BY <1>3, <1>4

LEMMA SettleKeepsNewest == IInv /\ NewestInv /\ Settle => NewestInv'
<1> SUFFICES ASSUME IInv, NewestInv, Settle PROVE NewestInv'
  OBVIOUS
<1> DEFINE status == IF stage = "done" THEN "SUCCESS" ELSE "FAILURE"
<1>1. /\ batch # <<>> /\ stage \in {"done", "failed"} /\ stage' = "ready"
      /\ UNCHANGED <<tasks, refs, ignored, crowded, table>>
  BY DEF Settle, SaveTask
<1>2. \/ queue' = WithRow(Current, status)
      \/ queue' = queue
  BY DEF Settle, SaveTask
<1>3. Current \in Pending
  BY <1>1, CurrentTyped
<1>4. \A i \in Identifiers : TasksOf(i)' = TasksOf(i)
  BY <1>1, SameTasks
<1>5. CASE queue' = queue
  <2>1. Pending' = Pending
    BY <1>1, <1>5 DEF Pending, Rows
  <2>2. QED
    BY <1>1, <2>1, BlameKept, NewestFrame
<1>6. CASE queue' = WithRow(Current, status)
  <2>1. /\ DOMAIN queue' = DOMAIN queue \union {Current} /\ queue'[Current] = status
        /\ \A s \in DOMAIN queue \ {Current} : queue'[s] = queue[s]
    BY <1>6 DEF WithRow
  <2>2. Pending' \subseteq Pending
    BY <1>1, <1>3, <2>1 DEF Pending, Rows
  <2>3. /\ \A s \in Pending : s # Current => s \in Pending'
        /\ stage # "done" => Current \in Pending'
    BY <1>1, <2>1 DEF Pending, Rows
  <2>4. \A i \in Identifiers : Blame(i) \subseteq Blame(i)'
    BY <1>1, <1>4, <2>3 DEF Blame
  <2>5. QED
    BY <1>1, <2>2, <2>4, NewestFrame
<1>7. QED
  BY <1>2, <1>5, <1>6

\* With failed tasks tried again, one that comes when none is outstanding is the
\* only one pending.
LEMMA EnqueueKeepsNewest ==
    ASSUME RetriesFailures = TRUE, IInv, NewestInv,
           NEW id \in Identifiers, NEW operation \in Operations,
           Enqueue(id, operation), UNCHANGED stores
    PROVE  NewestInv'
<1> DEFINE new == Len(tasks) + 1
<1>1. /\ tasks' = Append(tasks, [identifier |-> id, operation |-> operation])
      /\ queue' = WithRow(new, "UNSUBMITTED")
      /\ crowded' = IF Outstanding(id) = {} THEN crowded ELSE crowded \union {id}
      /\ UNCHANGED <<batch, ignored, table, stage>>
  BY DEF Enqueue, stores
<1>2. tasks \in Seq([identifier : Identifiers, operation : Operations]) /\ Len(tasks) \in Nat
  BY DEF IInv, Typed, TypeOK, QueueTypeOK
<1>3. /\ Len(tasks') = Len(tasks) + 1 /\ tasks'[new].identifier = id
      /\ \A s \in 1..Len(tasks) : tasks'[s] = tasks[s]
  BY <1>1, <1>2, AppendProperties
<1>4. /\ Seqs' = Seqs \union {new} /\ new \notin Seqs /\ new \in Nat /\ new # 0
      /\ \A s \in Seqs : s < new /\ s \in Nat
  BY <1>2, <1>3 DEF Seqs
<1>5. \A s \in Seqs : tasks'[s] = tasks[s]
  BY <1>3 DEF Seqs
<1> HIDE DEF new
<1>6. /\ DOMAIN queue' = DOMAIN queue \union {new} /\ queue'[new] = "UNSUBMITTED"
      /\ \A s \in DOMAIN queue \ {new} : queue'[s] = queue[s]
      /\ new \notin DOMAIN queue /\ new \notin ignored /\ ignored \subseteq Seqs
  BY <1>1, <1>4 DEF WithRow, IInv, Typed, TypeOK, QueueTypeOK
<1>7. Pending' = Pending \union {new} /\ Pending \subseteq Seqs
  BY <1>1, <1>6 DEF Pending, Rows, IInv, Typed, TypeOK, QueueTypeOK
<1>8. /\ TasksOf(id)' = TasksOf(id) \union {new}
      /\ \A i \in Identifiers \ {id} : TasksOf(i)' = TasksOf(i)
      /\ \A i \in Identifiers : TasksOf(i) \subseteq Seqs
  BY <1>3, <1>4, <1>5 DEF TasksOf
<1>9. Current' = Current /\ (stage = "done" => Current \in Seqs)
  <2>1. stage = "done" => batch # <<>>
    BY DEF IInv, Typed, TypeOK
  <2>2. QED
    BY <1>1, <2>1, CurrentTyped DEF Current
<1> SUFFICES ASSUME NEW i \in Identifiers, i \notin crowded' \union Anonymous,
                    TasksOf(i)' \intersect ignored = {}
             PROVE  /\ TasksOf(i)' \intersect Pending' \subseteq {Newest(i)'}
                    /\ Blame(i)' = {} => table[i] = Found(i)'
  BY <1>1 DEF NewestInv
<1>10. CASE i = id
  <2>1. Outstanding(id) = {}
    BY <1>1, <1>10
  <2>2. TasksOf(id) \intersect Pending = {}
    BY <2>1 DEF Outstanding, Pending, Rows, Open
  <2>3. Newest(id)' = new
    <3>1. \A n \in (TasksOf(id) \union {new}) \union {0} : new >= n
      BY <1>4, <1>8
    <3>2. /\ Max((TasksOf(id) \union {new}) \union {0}) \in (TasksOf(id) \union {new}) \union {0}
          /\ \A n \in (TasksOf(id) \union {new}) \union {0} :
                Max((TasksOf(id) \union {new}) \union {0}) >= n
      BY <3>1 DEF Max
    <3>3. Max((TasksOf(id) \union {new}) \union {0}) = new
      BY <1>4, <1>8, <3>2
    <3>4. QED
      BY <1>8, <3>3 DEF Newest
  <2>4. new \in Blame(id)'
    BY <1>1, <1>4, <1>7, <1>8, <1>9 DEF Blame
  <2>5. QED
    BY <1>7, <1>8, <1>10, <2>2, <2>3, <2>4
<1>11. CASE i # id
  <2>1. /\ i \notin crowded \union Anonymous /\ TasksOf(i)' = TasksOf(i) /\ new \notin TasksOf(i)
    BY <1>1, <1>4, <1>8, <1>11
  <2>2. Newest(i)' = Newest(i)
    BY <2>1 DEF Newest
  <2>3. Found(i)' = Found(i)
    <3>1. TasksOf(i) # {} => Newest(i) \in Seqs
      BY NewestTyped, QueueIsTyped DEF IInv, TasksOf
    <3>2. QED
      BY <1>5, <2>1, <2>2, <3>1 DEF Found, Exists
  <2>4. TasksOf(i) \intersect Pending' = TasksOf(i) \intersect Pending
    BY <1>7, <2>1
  <2>5. Blame(i) \subseteq Blame(i)'
    BY <1>1, <1>7, <1>9, <2>1 DEF Blame
  <2>6. QED
    BY <2>1, <2>2, <2>3, <2>4, <2>5 DEF NewestInv
<1>12. QED
  BY <1>10, <1>11

\* A process that marks a task makes no claim for its identifier any more; the
\* others leave what is pending as it is.
LEMMA OthersKeepNewest == IInv /\ NewestInv /\ OtherProcesses /\ UNCHANGED stores => NewestInv'
<1> SUFFICES ASSUME IInv, NewestInv, OtherProcesses, UNCHANGED stores PROVE NewestInv'
  OBVIOUS
<1>1. UNCHANGED <<table, index, stage, performed>>
  BY DEF stores
<1>2. ASSUME UNCHANGED <<tasks, queue, batch, ignored, crowded>> PROVE NewestInv'
  <2>1. Pending' = Pending /\ Current' = Current
    BY <1>2 DEF Pending, Rows, Current
  <2>2. QED
    BY <1>1, <1>2, <2>1, BlameKept, NewestFrame
<1>3. CASE DeleteDone
  <2>1. /\ cleaning # 0 /\ queue' = WithoutRow(cleaning)
        /\ UNCHANGED <<tasks, batch, ignored, crowded>>
    BY <1>3 DEF DeleteDone
  <2>2. DOMAIN queue' = DOMAIN queue \ {cleaning} /\ \A s \in DOMAIN queue' : queue'[s] = queue[s]
    BY <2>1 DEF WithoutRow
  <2>3. cleaning \in ignored \/ cleaning \notin DOMAIN queue \/ queue[cleaning] = "SUCCESS"
    BY <2>1 DEF IInv, QueueInv
  <2>4. Pending' = Pending
    BY <2>1, <2>2, <2>3 DEF Pending, Rows
  <2>5. Current' = Current
    BY <2>1 DEF Current
  <2>6. QED
    BY <1>1, <2>1, <2>4, <2>5, BlameKept, NewestFrame
<1>4. ASSUME NEW id \in Identifiers, MarkIgnored(id) PROVE NewestInv'
  <2>1. PICK s \in refs : /\ s \in DOMAIN queue /\ queue' = WithRow(s, "IGNORED")
                          /\ ignored' = ignored \union {s}
    BY <1>4 DEF MarkIgnored
  <2>2. UNCHANGED <<tasks, batch, crowded>>
    BY <1>4 DEF MarkIgnored
  <2>3. /\ DOMAIN queue' = DOMAIN queue /\ queue'[s] = "IGNORED"
        /\ \A r \in DOMAIN queue \ {s} : queue'[r] = queue[r]
    BY <2>1 DEF WithRow
  <2>4. Pending' = Pending \union {s} /\ Current' = Current
    BY <2>1, <2>2, <2>3 DEF Pending, Rows, Current
  <2>5. \A i \in Identifiers : Blame(i) \subseteq Blame(i)'
    BY <1>1, <2>2, <2>4, BlameKept
  <2>6. QED
    BY <1>1, <2>1, <2>2, <2>4, <2>5, NewestFrame
<1>5. QED
  BY <1>2, <1>3, <1>4 DEF OtherProcesses, Expire, FindDone, DeleteRef

LEMMA NewestStep ==
    ASSUME RetriesFailures = TRUE, IInv, NewestInv, [Next]_vars
    PROVE  NewestInv'
<1>1. ASSUME batch # <<>>
      PROVE  \E id \in Identifiers : id = Task.identifier
  BY <1>1, CurrentTyped
<1>2. CASE Skip
  <2>1. PICK id \in Identifiers : id = Task.identifier
    BY <1>1, <1>2 DEF Skip, Working
  <2>2. QED
    BY <1>2, <2>1, WorkKeepsNewest DEF Skip, Working, Goto
<1>3. CASE RefMissing \/ UpdateOrCreate \/ Delete \/ Undo
  <2>1. /\ batch # <<>> /\ UNCHANGED queueVars /\ table' = table /\ stage # "done"
    BY <1>3 DEF RefMissing, UpdateOrCreate, Delete, Undo, Working
  <2>2. stage' # "done"
    BY <1>3 DEF RefMissing, UpdateOrCreate, Delete, Undo, Call, Goto
  <2>3. QED
    BY <1>1, <2>1, <2>2, WorkKeepsNewest
<1>4. CASE Commit
  <2>1. PICK id \in Identifiers : id = Task.identifier
    BY <1>1, <1>4 DEF Commit, Working
  <2>2. table \in [Identifiers -> {0} \union Seqs]
    BY DEF IInv, Typed, TypeOK
  <2>3. QED
    BY <1>4, <2>1, <2>2, WorkKeepsNewest DEF Commit, Working, Goto
<1>5. CASE Fetch /\ UNCHANGED stores
  <2>1. /\ stage = "ready" /\ stage' = "ready" /\ UNCHANGED <<tasks, queue, ignored, crowded, table>>
    BY <1>5 DEF Fetch, stores, IInv, Typed, TypeOK
  <2>2. Pending' = Pending
    BY <2>1 DEF Pending, Rows
  <2>3. QED
    BY <2>1, <2>2, BlameKept, NewestFrame
<1>6. CASE Crash
  <2>1. stage' = "ready" /\ UNCHANGED <<tasks, queue, ignored, crowded, table>>
    BY <1>6 DEF Crash, EndDaemon
  <2>2. Pending' = Pending
    BY <2>1 DEF Pending, Rows
  <2>3. QED
    BY <2>1, <2>2, BlameKept, NewestFrame
<1>7. CASE UNCHANGED vars
  <2>1. UNCHANGED <<tasks, queue, batch, ignored, crowded, table, stage>>
    BY <1>7 DEF vars, queueVars
  <2>2. Pending' = Pending /\ Current' = Current
    BY <2>1 DEF Pending, Rows, Current
  <2>3. QED
    BY <2>1, <2>2, BlameKept, NewestFrame
<1>8. QED
  BY <1>2, <1>3, <1>4, <1>5, <1>6, <1>7, SettleKeepsNewest, EnqueueKeepsNewest, OthersKeepNewest
     DEF Next, Daemon, Others

-----------------------------------------------------------------------------
(* The specification                                                       *)

LEMMA InitHolds == Init => IInv
<1> SUFFICES ASSUME Init PROVE IInv
  OBVIOUS
<1>1. /\ tasks = <<>> /\ refs = {} /\ queue = <<>> /\ batch = <<>>
      /\ expired = {} /\ cleaning = 0 /\ crashes = 0 /\ ignored = {} /\ crowded = {}
      /\ table = [id \in Identifiers |-> 0] /\ index = [id \in Identifiers |-> 0]
      /\ stage = "ready" /\ performed = {}
  BY DEF Init, QueueInit
<1>2. DOMAIN queue = {} /\ Seqs = {} /\ Range(batch) = {} /\ Len(batch) = 0
  BY <1>1 DEF Seqs, Range
<1>3. QueueTypeOK
  <2>1. tasks \in Seq([identifier : Identifiers, operation : Operations])
    BY <1>1
  <2>2. QED
    BY <1>1, <1>2, <2>1 DEF QueueTypeOK
<1>4. Typed
  BY <1>1, <1>2, <1>3 DEF Typed, TypeOK, Stages
<1>5. QueueInv
  BY <1>1, <1>2 DEF QueueInv
<1>6. StoresInv
  BY <1>1 DEF StoresInv
<1>7. QED
  BY <1>4, <1>5, <1>6 DEF IInv

LEMMA StutterHolds == IInv /\ UNCHANGED vars => IInv'
<1> SUFFICES ASSUME IInv, UNCHANGED vars PROVE IInv'
  OBVIOUS
<1>1. /\ UNCHANGED <<tasks, refs, queue, batch, expired, cleaning, crashes, ignored, crowded>>
      /\ UNCHANGED stores
  BY DEF vars, queueVars, stores
<1>2. Seqs' = Seqs /\ Pending' = Pending /\ Current' = Current
      /\ UNCHANGED <<table, index, stage, performed>>
  BY <1>1 DEF Seqs, Pending, Rows, Current, stores
<1>3. QueueTypeOK'
  BY <1>1, <1>2 DEF IInv, Typed, TypeOK, QueueTypeOK
<1>4. QueueInv'
  BY <1>1, <1>2 DEF IInv, QueueInv, Performed
<1>5. QED
  BY <1>1, <1>2, <1>3, <1>4, OthersKeep

\* Every reachable state satisfies the inductive invariant.
THEOREM SearchInductive == Spec => []IInv
<1>1. IInv /\ [Next]_vars => IInv'
  BY FetchHolds, SkipHolds, RefMissingHolds, UpdateOrCreateHolds, DeleteHolds, CommitHolds,
     UndoHolds, SettleHolds, CrashHolds, EnqueueHolds, OtherProcessesHold, StutterHolds
     DEF Next, Daemon, Others
<1>2. QED
  BY <1>1, InitHolds, PTL DEF Spec

\* Every variable of the queue and of the search index has its type: a row of the
\* queue always has its snapshot, although SaveTask may put a deleted row back.
THEOREM SearchTyped == Spec => []TypeOK
<1>1. IInv => TypeOK
  BY DEF IInv, Typed
<1>2. QED
  BY <1>1, SearchInductive, PTL

\* The cleanup deletes no row whose task was neither performed nor marked by hand,
\* also when the daemon puts rows back, crashes or tries tasks again meanwhile.
THEOREM TasksKept == Spec => []NoTaskLost
<1>1. IInv => NoTaskLost
  BY DEF IInv, QueueInv, NoTaskLost, Performed
<1>2. QED
  BY <1>1, SearchInductive, PTL

\* A daemon that tries failed tasks again leaves the database and OpenSearch with
\* the same of every identifier that has no task outstanding, whatever call or
\* commit fails and whenever the daemon crashes.
THEOREM StoresInStep ==
    ASSUME RetriesFailures = TRUE
    PROVE  Spec => []StoresAgree
<1>1. IInv => StoresAgree
  <2> SUFFICES ASSUME IInv, NEW id \in Identifiers, table[id] # index[id]
               PROVE  Outstanding(id) # {}
    BY DEF StoresAgree
  <2>1. PICK s : s \in Blame(id)
    BY DEF IInv, StoresInv
  <2>2. QED
    BY <2>1 DEF Blame, Pending, Rows, Outstanding, Open
<1>2. QED
  BY <1>1, SearchInductive, PTL

\* An identifier that never had two tasks outstanding at once is found in search as
\* it is, or not at all once it is deleted, when failed tasks are tried again:
\* whatever fails, and whenever the daemon crashes, the task that is tried is the
\* newest.
THEOREM NewestFound ==
    ASSUME RetriesFailures = TRUE
    PROVE  Spec => []NewestUnlessCrowded
<1>1. Init => NewestInv
  <2>1. Init => tasks = <<>> /\ queue = <<>> /\ ignored = {} /\ table = [id \in Identifiers |-> 0]
    BY DEF Init, QueueInit
  <2>2. Init => \A id \in Identifiers : TasksOf(id) = {} /\ table[id] = 0
    BY <2>1 DEF TasksOf, Seqs
  <2>3. QED
    BY <2>2 DEF NewestInv, Found, Exists
<1>2. IInv /\ NewestInv /\ [Next]_vars => NewestInv'
  BY NewestStep
<1>3. IInv /\ NewestInv => NewestUnlessCrowded
  <2> SUFFICES ASSUME IInv, NewestInv, NEW id \in Identifiers, id \notin crowded \union Anonymous,
                      Outstanding(id) = {}
               PROVE  table[id] = Found(id)
    BY DEF NewestUnlessCrowded, Found
  <2>1. TasksOf(id) \intersect Pending = {} /\ TasksOf(id) \intersect ignored = {}
    BY DEF Outstanding, Pending, Rows, Open
  <2>2. Blame(id) = {}
    BY <2>1 DEF Blame
  <2>3. QED
    BY <2>1, <2>2 DEF NewestInv
<1>4. QED
  BY <1>1, <1>2, <1>3, SearchInductive, PTL DEF Spec
-----------------------------------------------------------------------------
(* The agencies' queues                                                    *)

Live == Rows(Open \union IF RetriesFailures THEN {"FAILURE"} ELSE {}) \union Range(batch)

\* The tasks of an identifier that a daemon holds or will take.
UnderWay(id) == TasksOf(id) \intersect Live

OneUnderWay == \A id \in Identifiers \ crowded : UnderWay(id) \subseteq {Newest(id)}

Queued == QueueTyped /\ OneUnderWay

LEMMA TaskTyped ==
    ASSUME QueueTyped, NEW s \in Seqs
    PROVE  /\ tasks[s].identifier \in Identifiers /\ tasks[s].operation \in Operations
           /\ s \in TasksOf(tasks[s].identifier) /\ s # 0
<1>1. tasks \in Seq([identifier : Identifiers, operation : Operations])
  BY DEF QueueTyped, QueueTypeOK
<1>2. /\ Len(tasks) \in Nat
      /\ \A t \in 1..Len(tasks) : tasks[t] \in [identifier : Identifiers, operation : Operations]
  BY <1>1, ElementOfSeq, LenProperties
<1>3. s \in 1..Len(tasks)
  BY DEF Seqs
<1>4. QED
  BY <1>2, <1>3 DEF TasksOf

\* The task at hand is of one identifier; it is the newest, unless that is crowded.
LEMMA AtHand ==
    ASSUME Queued, batch # <<>>
    PROVE  /\ Current \in Seqs /\ Current \in Range(batch) /\ Current # 0
           /\ tasks[Current].identifier \in Identifiers
           /\ tasks[Current].operation \in Operations
           /\ \A id \in Identifiers : Current \in TasksOf(id) <=> id = tasks[Current].identifier
           /\ \A id \in Identifiers \ crowded :
                 id = tasks[Current].identifier => Current = Newest(id)
<1>1. Current \in Seqs /\ Current \in Range(batch)
  BY TailOfBatch DEF Queued
<1>2. /\ tasks[Current].identifier \in Identifiers /\ tasks[Current].operation \in Operations
      /\ Current # 0
  BY <1>1, TaskTyped DEF Queued
<1>3. \A id \in Identifiers : Current \in TasksOf(id) <=> id = tasks[Current].identifier
  BY <1>1 DEF TasksOf
<1>4. QED
  BY <1>1, <1>2, <1>3 DEF Queued, OneUnderWay, UnderWay, Live

LEMMA QueuedFrame ==
    ASSUME Queued, UNCHANGED <<tasks, crowded>>, QueueTyped', Live' \subseteq Live
    PROVE  Queued'
<1>1. \A id \in Identifiers : UnderWay(id)' \subseteq UnderWay(id) /\ Newest(id)' = Newest(id)
  BY SameTasks DEF UnderWay
<1>2. QED
  BY <1>1 DEF Queued, OneUnderWay

LEMMA QueuedSame ==
    ASSUME Queued, UNCHANGED queueVars
    PROVE  /\ Queued' /\ Seqs' = Seqs /\ Current' = Current
           /\ \A id \in Identifiers : /\ TasksOf(id)' = TasksOf(id) /\ Newest(id)' = Newest(id)
                                      /\ Exists(id)' = Exists(id)
<1>1. UNCHANGED <<tasks, refs, queue, batch, expired, cleaning, crashes, ignored, crowded>>
  BY DEF queueVars
<1>2. Seqs' = Seqs /\ Live' = Live /\ Current' = Current
  BY <1>1 DEF Seqs, Live, Rows, Current
<1>3. QueueTyped'
  BY <1>1, <1>2 DEF Queued, QueueTyped, QueueTypeOK
<1>4. \A id \in Identifiers : Exists(id)' = Exists(id)
  BY <1>1 DEF Exists, TasksOf, Seqs, Newest
<1>5. QED
  BY <1>1, <1>2, <1>3, <1>4, SameTasks, QueuedFrame

LEMMA RowsFinite ==
    ASSUME QueueTyped, NEW rows \in SUBSET DOMAIN queue
    PROVE  IsFiniteSet(rows) /\ rows \subseteq Seqs
<1>1. Len(tasks) \in Nat /\ rows \subseteq Seqs
  BY DEF QueueTyped, QueueTypeOK
<1>2. IsFiniteSet(1..Len(tasks))
  BY <1>1, FS_Interval
<1>3. QED
  BY <1>1, <1>2, FS_Subset DEF Seqs

LEMMA FetchedQueued ==
    ASSUME Queued, NEW rows \in SUBSET Live, rows \subseteq DOMAIN queue,
           UNCHANGED <<tasks, refs, queue, expired, cleaning, crashes, ignored, crowded>>,
           batch' \in Seq(rows), Len(batch') <= BatchSize,
           \A m, n \in 1..Len(batch') : batch'[m] = batch'[n] => m = n
    PROVE  Queued' /\ Range(batch') \subseteq rows
<1>1. rows \subseteq Seqs
  BY RowsFinite DEF Queued
<1>2. batch' \in Seq(Seqs) /\ Seqs' = Seqs
  BY <1>1, SeqOfSubset DEF Seqs
<1>3. Range(batch') \subseteq rows
  <2>1. \A n \in DOMAIN batch' : batch'[n] \in rows
    OBVIOUS
  <2>2. QED
    BY <2>1 DEF Range
<1>4. QueueTyped'
  BY <1>1, <1>2, <1>3 DEF Queued, QueueTyped, QueueTypeOK
<1>5. Live' \subseteq Live
  BY <1>3 DEF Live, Rows
<1>6. QED
  BY <1>3, <1>4, <1>5, QueuedFrame

\* What is done to a row.
LEMMA RowWritten ==
    ASSUME NEW s, NEW status, queue' = WithRow(s, status)
    PROVE  /\ DOMAIN queue' = DOMAIN queue \union {s} /\ queue'[s] = status
           /\ \A r \in DOMAIN queue \ {s} : queue'[r] = queue[r]
  BY DEF WithRow

\* A row the daemon holds is written, before or when it is done with.
LEMMA WrittenQueued ==
    ASSUME Queued, batch # <<>>, NEW status \in Statuses, Current \in refs,
           queue' = WithRow(Current, status), batch' \in {batch, Tail(batch)},
           UNCHANGED <<tasks, refs, expired, cleaning, crashes, ignored, crowded>>
    PROVE  Queued'
<1>1. /\ DOMAIN queue' = DOMAIN queue \union {Current} /\ queue'[Current] = status
      /\ \A r \in DOMAIN queue \ {Current} : queue'[r] = queue[r]
  BY RowWritten
<1>2. /\ batch' \in Seq(Seqs) /\ Len(batch') <= BatchSize
      /\ Range(batch') \subseteq Range(batch) /\ Current \in Range(batch)
      /\ \A m, n \in 1..Len(batch') : batch'[m] = batch'[n] => m = n
  <2>1. CASE batch' = batch
    BY <2>1, TailOfBatch DEF Queued, QueueTyped, QueueTypeOK
  <2>2. CASE batch' = Tail(batch)
    BY <2>2, TailOfBatch DEF Queued
  <2>3. QED
    BY <2>1, <2>2
<1>3. Seqs' = Seqs
  BY DEF Seqs
<1>4. QueueTyped'
  <2>1. DOMAIN queue' \subseteq refs' /\ \A s \in DOMAIN queue' : queue'[s] \in Statuses
    BY <1>1 DEF Queued, QueueTyped, QueueTypeOK
  <2>2. Range(batch') \subseteq Seqs
    BY <1>2 DEF Queued, QueueTyped, QueueTypeOK
  <2>3. QED
    BY <1>2, <1>3, <2>1, <2>2 DEF Queued, QueueTyped, QueueTypeOK
<1>5. Live' \subseteq Live
  BY <1>1, <1>2 DEF Live, Rows
<1>6. QED
  BY <1>4, <1>5, QueuedFrame

\* The daemon's copies are gone.
LEMMA EmptiedQueued ==
    ASSUME Queued, batch' = <<>>, crashes' \in 0..MaxCrashes,
           UNCHANGED <<tasks, refs, queue, expired, cleaning, ignored, crowded>>
    PROVE  Queued'
<1>1. Range(batch') = {} /\ Len(batch') = 0 /\ batch' \in Seq(Seqs) /\ Seqs' = Seqs
  BY DEF Range, Seqs
<1>2. QueueTyped'
  BY <1>1 DEF Queued, QueueTyped, QueueTypeOK
<1>3. Live' \subseteq Live
  BY <1>1 DEF Live, Rows
<1>4. QED
  BY <1>2, <1>3, QueuedFrame

LEMMA SavedQueued ==
    ASSUME Queued, batch # <<>>, NEW status \in Statuses, SaveTask(status)
    PROVE  /\ Queued' /\ Range(batch') \subseteq Range(batch) \ {Current}
           /\ UNCHANGED <<tasks, refs, expired, cleaning, crashes, ignored, crowded>>
           /\ DOMAIN queue \subseteq DOMAIN queue' /\ DOMAIN queue' \subseteq DOMAIN queue \union {Current}
           /\ \A r \in DOMAIN queue' \ {Current} : queue'[r] = queue[r]
           /\ Current \in DOMAIN queue' =>
                 queue'[Current] = status \/ (Current \in DOMAIN queue /\ queue'[Current] = queue[Current])
<1>1. UNCHANGED <<tasks, refs, expired, cleaning, crashes, ignored, crowded>>
  BY DEF SaveTask
<1>2. CASE Current \in refs
  <2>1. queue' = WithRow(Current, status) /\ batch' = Tail(batch)
    BY <1>2 DEF SaveTask
  <2>2. Queued'
    BY <1>1, <1>2, <2>1, WrittenQueued
  <2>3. Range(batch') \subseteq Range(batch) \ {Current}
    BY <2>1, TailOfBatch DEF Queued
  <2>4. /\ DOMAIN queue' = DOMAIN queue \union {Current} /\ queue'[Current] = status
        /\ \A r \in DOMAIN queue \ {Current} : queue'[r] = queue[r]
    BY <2>1, RowWritten
  <2>5. QED
    BY <1>1, <2>2, <2>3, <2>4
<1>3. CASE Current \notin refs
  <2>1. queue' = queue /\ batch' = <<>>
    BY <1>3 DEF SaveTask
  <2>2. crashes' \in 0..MaxCrashes /\ Range(batch') = {}
    BY <1>1, <2>1 DEF Queued, QueueTyped, QueueTypeOK, Range
  <2>3. QED
    BY <1>1, <2>1, <2>2, EmptiedQueued
<1>4. QED
  BY <1>2, <1>3

\* A new task, of an identifier that is from then on crowded if another is under way.
LEMMA EnqueuedQueued ==
    ASSUME Queued, NEW id \in Identifiers, NEW operation \in Operations, Enqueue(id, operation)
    PROVE  LET new == Len(tasks) + 1
           IN  /\ Queued' /\ Seqs' = Seqs \union {new} /\ new \notin Seqs
               /\ Len(tasks') = new /\ new \in Nat
               /\ batch' = batch /\ crowded \subseteq crowded' /\ Current' = Current
               /\ DOMAIN queue' = DOMAIN queue \union {new} /\ queue'[new] = "UNSUBMITTED"
               /\ new \notin DOMAIN queue /\ \A r \in DOMAIN queue : queue'[r] = queue[r]
               /\ tasks'[new] = [identifier |-> id, operation |-> operation]
               /\ \A s \in Seqs : tasks'[s] = tasks[s]
               /\ Newest(id)' = new
               /\ \A i \in Identifiers \ {id} :
                     /\ Newest(i)' = Newest(i) /\ Exists(i)' = Exists(i)
<1> DEFINE new == Len(tasks) + 1
<1>1. /\ tasks' = Append(tasks, [identifier |-> id, operation |-> operation])
      /\ refs' = refs \union {new} /\ queue' = WithRow(new, "UNSUBMITTED")
      /\ crowded' = IF Outstanding(id) = {} THEN crowded ELSE crowded \union {id}
      /\ UNCHANGED <<batch, expired, cleaning, crashes, ignored>>
  BY DEF Enqueue
<1>2. tasks \in Seq([identifier : Identifiers, operation : Operations]) /\ Len(tasks) \in Nat
  BY DEF Queued, QueueTyped, QueueTypeOK
<1>3. /\ tasks' \in Seq([identifier : Identifiers, operation : Operations])
      /\ Len(tasks') = Len(tasks) + 1
      /\ tasks'[new] = [identifier |-> id, operation |-> operation]
      /\ \A s \in 1..Len(tasks) : tasks'[s] = tasks[s]
  BY <1>1, <1>2, AppendProperties
<1>4. /\ Seqs' = Seqs \union {new} /\ new \notin Seqs /\ new \in Nat /\ new # 0
      /\ \A s \in Seqs : s < new /\ s \in Nat
  BY <1>2, <1>3 DEF Seqs
<1>5. \A s \in Seqs : tasks'[s] = tasks[s]
  BY <1>3 DEF Seqs
<1> HIDE DEF new
<1>6. /\ DOMAIN queue' = DOMAIN queue \union {new} /\ queue'[new] = "UNSUBMITTED"
      /\ \A s \in DOMAIN queue : queue'[s] = queue[s]
      /\ new \notin DOMAIN queue
  <2>1. new \notin DOMAIN queue
    BY <1>4 DEF Queued, QueueTyped, QueueTypeOK
  <2>2. QED
    BY <1>1, <2>1, RowWritten
<1>7. /\ TasksOf(id)' = TasksOf(id) \union {new}
      /\ \A i \in Identifiers \ {id} : TasksOf(i)' = TasksOf(i)
      /\ \A i \in Identifiers : TasksOf(i) \subseteq Seqs
  BY <1>3, <1>4, <1>5 DEF TasksOf
<1>8. Current' = Current
  BY <1>1 DEF Current
<1>9. Newest(id)' = new
  <2>1. \A n \in (TasksOf(id) \union {new}) \union {0} : new >= n
    BY <1>4, <1>7
  <2>2. /\ Max((TasksOf(id) \union {new}) \union {0}) \in (TasksOf(id) \union {new}) \union {0}
        /\ \A n \in (TasksOf(id) \union {new}) \union {0} :
              Max((TasksOf(id) \union {new}) \union {0}) >= n
    BY <2>1 DEF Max
  <2>3. Max((TasksOf(id) \union {new}) \union {0}) = new
    BY <1>4, <1>7, <2>2
  <2>4. QED
    BY <1>7, <2>3 DEF Newest
<1>10. ASSUME NEW i \in Identifiers \ {id}
       PROVE  Newest(i)' = Newest(i) /\ Exists(i)' = Exists(i)
  <2>1. Newest(i)' = Newest(i)
    BY <1>7 DEF Newest
  <2>2. TasksOf(i) # {} => Newest(i) \in Seqs
    BY <1>7, NewestTyped DEF Queued
  <2>3. QED
    BY <1>5, <1>7, <2>1, <2>2 DEF Exists
<1>11. QueueTyped'
  <2>1. DOMAIN queue' \subseteq refs' /\ refs' \subseteq Seqs'
        /\ \A s \in DOMAIN queue' : queue'[s] \in Statuses
    BY <1>1, <1>4, <1>6 DEF Queued, QueueTyped, QueueTypeOK, Statuses
  <2>2. batch' \in Seq(Seqs')
    BY <1>1, <1>4, SeqOfSubset DEF Queued, QueueTyped
  <2>3. crowded' \subseteq Identifiers
    BY <1>1 DEF Queued, QueueTyped, QueueTypeOK
  <2>4. QED
    BY <1>1, <1>3, <1>4, <2>1, <2>2, <2>3 DEF Queued, QueueTyped, QueueTypeOK
<1>12. OneUnderWay'
  <2>1. Live' \subseteq Live \union {new}
    BY <1>1, <1>6 DEF Live, Rows
  <2>2. SUFFICES ASSUME NEW i \in Identifiers, i \notin crowded'
                 PROVE  UnderWay(i)' \subseteq {Newest(i)'}
    BY DEF OneUnderWay
  <2>3. CASE i = id
    <3>1. Outstanding(id) = {}
      BY <1>1, <2>2, <2>3
    <3>2. TasksOf(id) \intersect Live = {}
      BY <3>1 DEF Outstanding, Live
    <3>3. QED
      BY <1>7, <1>9, <2>1, <2>3, <3>2 DEF UnderWay
  <2>4. CASE i # id
    <3>1. i \notin crowded
      BY <1>1, <2>2
    <3>2. UnderWay(i) \subseteq {Newest(i)}
      BY <3>1 DEF Queued, OneUnderWay
    <3>3. UnderWay(i)' \subseteq UnderWay(i)
      BY <1>4, <1>7, <2>1, <2>4 DEF UnderWay
    <3>4. QED
      BY <1>10, <2>4, <3>2, <3>3
  <2>5. QED
    BY <2>3, <2>4
<1>13. crowded \subseteq crowded' /\ Len(tasks') = new
  BY <1>1, <1>3 DEF new
<1>14. QED
  BY <1>1, <1>3, <1>4, <1>5, <1>6, <1>8, <1>9, <1>10, <1>11, <1>12, <1>13 DEF Queued, new

\* The other processes add nothing to what is under way, and write no status but
\* IGNORED, to the row of a task they mark.
LEMMA OthersQueued ==
    ASSUME Queued, OtherProcesses
    PROVE  /\ Queued' /\ UNCHANGED <<tasks, batch, crowded, crashes>> /\ ignored \subseteq ignored'
           /\ Current' = Current
           /\ DOMAIN queue' \subseteq DOMAIN queue
           /\ DOMAIN queue \subseteq DOMAIN queue' \union {cleaning}
           /\ \A r \in DOMAIN queue' :
                 queue'[r] = queue[r] \/ (queue'[r] = "IGNORED" /\ r \in ignored')
           /\ \/ cleaning' = cleaning /\ DOMAIN queue' = DOMAIN queue
              \/ cleaning' = 0 /\ cleaning # 0
              \/ cleaning' \in Rows(Done) /\ queue' = queue
<1>1. ASSUME UNCHANGED <<tasks, batch, crowded>>, QueueTyped',
             Rows(Open \union IF RetriesFailures THEN {"FAILURE"} ELSE {})'
                \subseteq Rows(Open \union IF RetriesFailures THEN {"FAILURE"} ELSE {})
      PROVE  Queued' /\ Current' = Current
  <2>1. Live' \subseteq Live /\ Current' = Current
    BY <1>1 DEF Live, Current
  <2>2. QED
    BY <1>1, <2>1, QueuedFrame
<1>2. ASSUME NEW s \in Seqs, Expire(s) \/ FindDone(s) \/ DeleteRef(s)
      PROVE  /\ Queued' /\ UNCHANGED <<tasks, queue, batch, crowded, crashes, ignored>>
             /\ Current' = Current
             /\ cleaning' = cleaning \/ cleaning' \in Rows(Done)
  <2>1. /\ UNCHANGED <<tasks, queue, batch, crowded, crashes, ignored>>
        /\ expired' \subseteq expired \union {s} /\ refs' \subseteq refs /\ DOMAIN queue \subseteq refs'
        /\ cleaning' = cleaning \/ (cleaning' = s /\ s \in Rows(Done))
    <3>1. CASE Expire(s)
      BY <3>1 DEF Expire, Queued, QueueTyped, QueueTypeOK
    <3>2. CASE FindDone(s)
      BY <3>2 DEF FindDone, Queued, QueueTyped, QueueTypeOK
    <3>3. CASE DeleteRef(s)
      BY <3>3 DEF DeleteRef, Queued, QueueTyped, QueueTypeOK
    <3>4. QED
      BY <1>2, <3>1, <3>2, <3>3
  <2>2. Seqs' = Seqs
    BY <2>1 DEF Seqs
  <2>3. QueueTyped'
    BY <2>1, <2>2 DEF Queued, QueueTyped, QueueTypeOK
  <2>4. QED
    BY <1>1, <2>1, <2>3 DEF Rows
<1>3. CASE DeleteDone
  <2>1. /\ cleaning # 0 /\ queue' = WithoutRow(cleaning) /\ cleaning' = 0
        /\ UNCHANGED <<tasks, refs, batch, expired, crashes, ignored, crowded>>
    BY <1>3 DEF DeleteDone
  <2>2. DOMAIN queue' = DOMAIN queue \ {cleaning} /\ \A s \in DOMAIN queue' : queue'[s] = queue[s]
    BY <2>1 DEF WithoutRow
  <2>3. Seqs' = Seqs
    BY <2>1 DEF Seqs
  <2>4. QueueTyped'
    BY <2>1, <2>2, <2>3 DEF Queued, QueueTyped, QueueTypeOK
  <2>5. Queued' /\ Current' = Current
    BY <1>1, <2>1, <2>2, <2>4 DEF Rows
  <2>6. QED
    BY <2>1, <2>2, <2>5
<1>4. ASSUME NEW id \in Identifiers, MarkIgnored(id)
      PROVE  /\ Queued' /\ UNCHANGED <<tasks, batch, crowded, crashes, cleaning>>
             /\ ignored \subseteq ignored' /\ Current' = Current /\ DOMAIN queue' = DOMAIN queue
             /\ \A r \in DOMAIN queue' :
                   queue'[r] = queue[r] \/ (queue'[r] = "IGNORED" /\ r \in ignored')
  <2>1. PICK s \in refs : /\ s \in DOMAIN queue /\ queue' = WithRow(s, "IGNORED")
                          /\ ignored' = ignored \union {s}
    BY <1>4 DEF MarkIgnored
  <2>2. UNCHANGED <<tasks, refs, batch, expired, cleaning, crashes, crowded>>
    BY <1>4 DEF MarkIgnored
  <2>3. /\ DOMAIN queue' = DOMAIN queue /\ queue'[s] = "IGNORED"
        /\ \A r \in DOMAIN queue \ {s} : queue'[r] = queue[r]
    BY <2>1, RowWritten
  <2>4. Seqs' = Seqs
    BY <2>2 DEF Seqs
  <2>5. QueueTyped'
    <3>1. \A r \in DOMAIN queue' : queue'[r] \in Statuses
      BY <2>3 DEF Queued, QueueTyped, QueueTypeOK, Statuses
    <3>2. ignored' \subseteq Seqs
      BY <2>1 DEF Queued, QueueTyped, QueueTypeOK
    <3>3. QED
      BY <2>2, <2>3, <2>4, <3>1, <3>2 DEF Queued, QueueTyped, QueueTypeOK
  <2>6. Queued' /\ Current' = Current
    BY <1>1, <2>2, <2>3, <2>5 DEF Rows, Open
  <2>7. QED
    BY <2>1, <2>2, <2>3, <2>6
<1>5. QED
  BY <1>2, <1>3, <1>4 DEF OtherProcesses

-----------------------------------------------------------------------------
(* Crossref                                                                *)

Registered == {"SUCCESS", "WARNING"}

\* The daemon's copies are those of its batch.
CrossrefTyped ==
    /\ deposits \in Seq(DepositStates) /\ Len(deposits) = Len(tasks)
    /\ shown \in [Identifiers -> Outcomes \union {"", "SUBMITTED"}]
    /\ DOMAIN held \subseteq Seqs /\ Range(batch) \subseteq DOMAIN held
    /\ \A s \in DOMAIN held : held[s] \in Open
    /\ step \in {"ready", "tell", "settle"} /\ verdict \in Statuses
    /\ step = "tell" => verdict \in Outcomes \union {"SUBMITTED"}
    /\ batch = <<>> => step = "ready"

\* How far the good news of an identifier's last operation has got: it is
\* Crossref's when the daemon is to tell it, the identifier's when the daemon is to
\* save it.
Told(id) ==
    LET s == Newest(id)
    IN  Exists(id) =>
           /\ s \in Rows(Registered) => queue[s] = deposits[s] /\ shown[id] = deposits[s]
           /\ batch # <<>> /\ Current = s /\ verdict \in Registered =>
                 /\ step \in {"tell", "settle"} => deposits[s] = verdict
                 /\ step = "settle" => shown[id] = verdict

\* A task the daemon holds has not succeeded, so what it does disturbs no success.
CrossrefInv ==
    /\ followed = "Crossref" /\ DataciteInit
    /\ Queued /\ CrossrefTyped
    /\ Range(batch) \intersect Rows(Registered) = {}
    /\ \A id \in CrossrefDois \ crowded : Told(id)

\* The queue moves, and the daemon with its task does not, or starts on another.
LEMMA ToldFrame ==
    ASSUME CrossrefInv, Queued', UNCHANGED <<followed, dataciteVars>>, CrossrefTyped',
           UNCHANGED <<tasks, crowded, deposits, shown>>,
           \A s \in Rows(Registered)' : s \in Rows(Registered) /\ queue'[s] = queue[s],
           step' = "ready" \/ UNCHANGED <<batch, step, verdict>>,
           Range(batch') \intersect Rows(Registered) = {}
    PROVE  CrossrefInv'
<1>1. \A id \in Identifiers : Newest(id)' = Newest(id) /\ Exists(id)' = Exists(id)
  BY DEF Newest, Exists, TasksOf, Seqs
<1>2. DataciteInit'
  BY DEF CrossrefInv, DataciteInit, dataciteVars
<1>3. ASSUME NEW id \in CrossrefDois, id \notin crowded PROVE Told(id)'
  <2>1. Told(id) /\ id \in Identifiers
    BY <1>3 DEF CrossrefInv
  <2>2. UNCHANGED <<batch, step, verdict>> => Current' = Current
    BY DEF Current
  <2>3. QED
    BY <1>1, <2>1, <2>2 DEF Told
<1>4. QED
  BY <1>2, <1>3 DEF CrossrefInv

\* The daemon works on its task.
LEMMA ToldWork ==
    ASSUME CrossrefInv, batch # <<>>, UNCHANGED queueVars, UNCHANGED <<followed, dataciteVars>>,
           CrossrefTyped',
           \A s \in Seqs \ {Current} : deposits'[s] = deposits[s],
           \A id \in Identifiers \ {Subject} : shown'[id] = shown[id],
           Subject \in CrossrefDois \ crowded /\ Told(Subject) /\ Exists(Subject)
             /\ Current = Newest(Subject) /\ verdict' \in Registered =>
                /\ step' \in {"tell", "settle"} => deposits'[Current] = verdict'
                /\ step' = "settle" => shown'[Subject] = verdict'
    PROVE  CrossrefInv'
<1>1. /\ Queued' /\ Seqs' = Seqs /\ Current' = Current
      /\ \A id \in Identifiers : /\ TasksOf(id)' = TasksOf(id) /\ Newest(id)' = Newest(id)
                                 /\ Exists(id)' = Exists(id)
  BY QueuedSame DEF CrossrefInv
<1>2. UNCHANGED <<tasks, refs, queue, batch, expired, cleaning, crashes, ignored, crowded>>
  BY DEF queueVars
<1>3. /\ Current \in Range(batch) /\ Subject \in Identifiers
      /\ \A id \in Identifiers : Current \in TasksOf(id) <=> id = Subject
      /\ \A id \in Identifiers \ crowded : id = Subject => Current = Newest(id)
  BY AtHand DEF CrossrefInv, Subject
<1>4. ASSUME NEW id \in CrossrefDois, id \notin crowded, Exists(id) PROVE Told(id)'
  <2>1. Told(id) /\ id \in Identifiers
    BY <1>4 DEF CrossrefInv
  <2>2. Newest(id) \in TasksOf(id) /\ Newest(id) \in Seqs
    BY <1>4, <2>1, NewestTyped DEF CrossrefInv, Queued, Exists, TasksOf
  <2>3. CASE id = Subject
    <3>1. Current = Newest(id) /\ Newest(id) \notin Rows(Registered)
      BY <1>3, <1>4, <2>1, <2>3 DEF CrossrefInv
    <3>2. Rows(Registered)' = Rows(Registered)
      BY <1>2 DEF Rows
    <3>3. QED
      BY <1>1, <1>2, <1>4, <2>1, <2>3, <3>1, <3>2 DEF Told
  <2>4. CASE id # Subject
    <3>1. Newest(id) # Current
      BY <1>3, <2>1, <2>2, <2>4
    <3>2. Rows(Registered)' = Rows(Registered)
      BY <1>2 DEF Rows
    <3>3. QED
      BY <1>1, <1>2, <2>1, <2>2, <2>4, <3>1, <3>2 DEF Told
  <2>5. QED
    BY <2>3, <2>4
<1>5. ASSUME NEW id \in CrossrefDois, id \notin crowded, ~Exists(id) PROVE Told(id)'
  BY <1>1, <1>5 DEF Told
<1>6. DataciteInit' /\ Range(batch') \intersect Rows(Registered)' = {}
  BY <1>2 DEF CrossrefInv, DataciteInit, dataciteVars, Rows
<1>7. QED
  BY <1>1, <1>2, <1>4, <1>5, <1>6 DEF CrossrefInv

LEMMA DepositsTyped ==
    ASSUME CrossrefInv
    PROVE  /\ deposits \in Seq(DepositStates) /\ Len(deposits) = Len(tasks)
           /\ Len(tasks) \in Nat /\ DOMAIN deposits = Seqs
<1>1. deposits \in Seq(DepositStates) /\ Len(deposits) = Len(tasks)
  BY DEF CrossrefInv, CrossrefTyped
<1>2. Len(deposits) \in Nat /\ DOMAIN deposits = 1..Len(deposits)
  BY <1>1, LenProperties
<1>3. QED
  BY <1>1, <1>2 DEF Seqs

\* Crossref's side of one deposit changes.
LEMMA DepositChanged ==
    ASSUME CrossrefInv, NEW s \in Seqs, NEW d \in DepositStates,
           deposits' = [deposits EXCEPT ![s] = d]
    PROVE  /\ deposits' \in Seq(DepositStates) /\ Len(deposits') = Len(deposits)
           /\ deposits'[s] = d /\ \A t \in Seqs \ {s} : deposits'[t] = deposits[t]
<1>1. deposits \in [1..Len(tasks) -> DepositStates] /\ Len(tasks) \in Nat /\ Len(deposits) = Len(tasks)
      /\ Seqs = 1..Len(tasks)
  BY DepositsTyped DEF Seqs
<1>2. deposits' \in [1..Len(tasks) -> DepositStates]
  BY <1>1
<1>3. deposits' \in Seq(DepositStates) /\ Len(deposits') = Len(tasks)
  BY <1>1, <1>2
<1>4. QED
  BY <1>1, <1>3

LEMMA CrossrefWorkKeeps ==
    ASSUME CrossrefInv, UNCHANGED <<dataciteVars, followed>>,
           PassOver \/ Submit \/ Poll \/ Tell \/ Fail \/ MailFails
    PROVE  CrossrefInv'
<1>1. /\ batch # <<>> /\ UNCHANGED queueVars /\ held' = held
      /\ UNCHANGED <<tasks, batch>>
  BY DEF PassOver, Submit, Poll, Tell, Fail, MailFails, Performing, queueVars
<1>2. /\ Current \in Seqs /\ Subject \in Identifiers
      /\ tasks[Current].operation \in Operations
  BY <1>1, AtHand DEF CrossrefInv, Subject
<1>3. deposits \in Seq(DepositStates) /\ DOMAIN deposits = Seqs
  BY DepositsTyped
<1>4. Seqs' = Seqs
  BY <1>1 DEF Seqs
<1>5. ASSUME deposits' \in Seq(DepositStates), Len(deposits') = Len(deposits),
             shown' \in [Identifiers -> Outcomes \union {"", "SUBMITTED"}],
             step' \in {"tell", "settle"}, verdict' \in Statuses,
             step' = "tell" => verdict' \in Outcomes \union {"SUBMITTED"}
      PROVE  CrossrefTyped'
  BY <1>1, <1>4, <1>5 DEF CrossrefInv, CrossrefTyped
<1>6. shown \in [Identifiers -> Outcomes \union {"", "SUBMITTED"}]
  BY DEF CrossrefInv, CrossrefTyped
<1>7. CASE PassOver \/ Fail \/ MailFails
  <2>1. /\ UNCHANGED <<deposits, shown>> /\ step' = "settle" /\ verdict' \in {"IGNORED", "FAILURE"}
    BY <1>7 DEF PassOver, Fail, MailFails, Performing
  <2>2. CrossrefTyped'
    BY <1>3, <1>5, <1>6, <2>1 DEF Statuses
  <2>3. QED
    BY <1>1, <2>1, <2>2, ToldWork DEF Registered
<1>8. CASE Submit
  <2>1. /\ shown' = shown /\ step' = "settle" /\ verdict' = "UNCHECKED"
    BY <1>8 DEF Submit, Performing
  <2>2. \E d \in DepositStates : deposits' = [deposits EXCEPT ![Current] = d]
    BY <1>8 DEF Submit, DepositStates
  <2>3. /\ deposits' \in Seq(DepositStates) /\ Len(deposits') = Len(deposits)
        /\ \A s \in Seqs \ {Current} : deposits'[s] = deposits[s]
    BY <1>2, <2>2, DepositChanged
  <2>4. CrossrefTyped'
    BY <1>5, <1>6, <2>1, <2>3 DEF Statuses
  <2>5. QED
    BY <1>1, <2>1, <2>3, <2>4, ToldWork DEF Registered
<1>9. CASE Poll
  <2>1. /\ UNCHANGED <<deposits, shown>> /\ step' = "tell" /\ verdict' = Answer(deposits[Current])
    BY <1>9 DEF Poll, Performing
  <2>2. /\ verdict' \in Outcomes \union {"SUBMITTED"}
        /\ verdict' \in Registered => deposits[Current] = verdict'
    BY <2>1 DEF Answer, Outcomes, Registered
  <2>3. CrossrefTyped'
    BY <1>3, <1>5, <1>6, <2>1, <2>2 DEF Statuses, Outcomes
  <2>4. QED
    BY <1>1, <2>1, <2>2, <2>3, ToldWork
<1>10. CASE Tell
  <2>1. /\ deposits' = deposits /\ step = "tell" /\ step' = "settle"
        /\ \/ tasks[Current].operation = "DELETE" /\ UNCHANGED <<shown, verdict>>
           \/ /\ tasks[Current].operation # "DELETE" /\ Exists(Subject)
              /\ shown' = [shown EXCEPT ![Subject] = verdict] /\ verdict' = verdict
           \/ verdict' = "FAILURE" /\ shown' = shown
    BY <1>10 DEF Tell, Performing
  <2>2. verdict \in Outcomes \union {"SUBMITTED"}
    BY <2>1 DEF CrossrefInv, CrossrefTyped
  <2>3. /\ shown' \in [Identifiers -> Outcomes \union {"", "SUBMITTED"}]
        /\ verdict' \in Outcomes \union {"SUBMITTED"}
        /\ \A id \in Identifiers \ {Subject} : shown'[id] = shown[id]
    BY <1>2, <1>6, <2>1, <2>2 DEF Outcomes
  <2>4. CrossrefTyped'
    BY <1>3, <1>5, <2>1, <2>3 DEF Statuses, Outcomes
  <2>5. ASSUME Told(Subject), Exists(Subject), Current = Newest(Subject), verdict' \in Registered
        PROVE  deposits'[Current] = verdict' /\ shown'[Subject] = verdict'
    <3>1. tasks[Current].operation # "DELETE"
      BY <2>5 DEF Exists
    <3>2. verdict' = verdict /\ shown'[Subject] = verdict
      BY <1>2, <1>6, <2>1, <2>5, <3>1 DEF Registered
    <3>3. deposits[Current] = verdict
      BY <1>1, <2>1, <2>5, <3>2 DEF Told
    <3>4. QED
      BY <2>1, <3>2, <3>3
  <2>6. QED
    BY <1>1, <2>1, <2>3, <2>4, <2>5, ToldWork
<1>11. QED
  BY <1>7, <1>8, <1>9, <1>10

LEMMA CrossrefFetchKeeps ==
    ASSUME CrossrefInv, UNCHANGED <<dataciteVars, followed>>, CrossrefFetch
    PROVE  CrossrefInv'
<1> DEFINE rows == Rows(Open)
<1>1. /\ batch = <<>> /\ held' = [s \in Range(batch') |-> queue[s]]
      /\ UNCHANGED <<tasks, refs, queue, expired, cleaning, crashes, ignored, crowded>>
      /\ UNCHANGED <<deposits, shown, step, verdict>>
  BY DEF CrossrefFetch
<1>2. rows \subseteq DOMAIN queue /\ rows \in SUBSET Live /\ rows \subseteq Seqs /\ IsFiniteSet(rows)
  BY RowsFinite DEF Rows, Live, CrossrefInv, Queued
<1>3. PICK s \in SetToSeqs(rows) : batch' = Cut(s)
  BY DEF CrossrefFetch, Slices, Cut, Polled
<1> HIDE DEF rows
<1>4. /\ batch' \in Seq(rows) /\ Len(batch') <= BatchSize
      /\ \A m, n \in 1..Len(batch') : batch'[m] = batch'[n] => m = n
  BY <1>2, <1>3, CutTyped
<1>5. Queued' /\ Range(batch') \subseteq rows
  BY <1>1, <1>2, <1>4, FetchedQueued DEF CrossrefInv
<1>6. step = "ready"
  BY <1>1 DEF CrossrefInv, CrossrefTyped
<1>7. CrossrefTyped'
  <2>1. Seqs' = Seqs
    BY <1>1 DEF Seqs
  <2>2. DOMAIN held' = Range(batch') /\ \A r \in DOMAIN held' : held'[r] \in Open
    BY <1>1, <1>5 DEF rows, Rows
  <2>3. QED
    BY <1>1, <1>2, <1>5, <1>6, <2>1, <2>2 DEF CrossrefInv, CrossrefTyped
<1>8. Range(batch') \intersect Rows(Registered) = {} /\ Rows(Registered)' = Rows(Registered)
  BY <1>1, <1>5 DEF rows, Rows, Open, Registered
<1>9. QED
  BY <1>1, <1>5, <1>6, <1>7, <1>8, ToldFrame

\* The daemon is through with its copy, or has ended.
LEMMA DismissTyped ==
    ASSUME CrossrefInv, Dismiss, UNCHANGED tasks, Range(batch') \subseteq Range(batch)
    PROVE  CrossrefTyped'
<1>1. /\ held' = [s \in Range(batch') |-> held[s]] /\ step' = "ready" /\ verdict' = "UNSUBMITTED"
      /\ UNCHANGED <<deposits, shown>>
  BY DEF Dismiss
<1>2. Seqs' = Seqs
  BY DEF Seqs
<1>3. QED
  BY <1>1, <1>2 DEF CrossrefInv, CrossrefTyped, Statuses

LEMMA CrossrefSettleKeeps ==
    ASSUME CrossrefInv, UNCHANGED <<dataciteVars, followed>>, CrossrefSettle
    PROVE  CrossrefInv'
<1>1. /\ batch # <<>> /\ step = "settle" /\ SaveTask(verdict) /\ Dismiss
      /\ step' = "ready" /\ UNCHANGED <<deposits, shown>> /\ verdict \in Statuses
  BY DEF CrossrefSettle, Dismiss, CrossrefInv, CrossrefTyped
<1>2. /\ Queued' /\ Range(batch') \subseteq Range(batch) \ {Current}
      /\ UNCHANGED <<tasks, refs, expired, cleaning, crashes, ignored, crowded>>
      /\ DOMAIN queue \subseteq DOMAIN queue' /\ DOMAIN queue' \subseteq DOMAIN queue \union {Current}
      /\ \A r \in DOMAIN queue' \ {Current} : queue'[r] = queue[r]
      /\ Current \in DOMAIN queue' =>
            queue'[Current] = verdict \/ (Current \in DOMAIN queue /\ queue'[Current] = queue[Current])
  BY <1>1, SavedQueued DEF CrossrefInv
<1>3. CrossrefTyped'
  BY <1>1, <1>2, DismissTyped
<1>4. Current \in Range(batch) /\ Current \notin Rows(Registered)
  BY <1>1, AtHand DEF CrossrefInv
<1>5. \A id \in Identifiers : Newest(id)' = Newest(id) /\ Exists(id)' = Exists(id)
  BY <1>2 DEF Newest, Exists, TasksOf, Seqs
<1>6. ASSUME NEW id \in CrossrefDois, id \notin crowded PROVE Told(id)'
  <2>1. Told(id) /\ id \in Identifiers
    BY <1>6 DEF CrossrefInv
  <2>2. SUFFICES ASSUME Exists(id), Newest(id) \in Rows(Registered)'
                 PROVE  queue'[Newest(id)] = deposits[Newest(id)] /\ shown[id] = deposits[Newest(id)]
    BY <1>1, <1>5, <2>1 DEF Told
  <2>3. CASE Newest(id) = Current
    <3>1. queue'[Current] = verdict /\ verdict \in Registered
      BY <1>2, <1>4, <2>2, <2>3 DEF Rows
    <3>2. deposits[Current] = verdict /\ shown[id] = verdict
      BY <1>1, <2>1, <2>2, <2>3, <3>1 DEF Told
    <3>3. QED
      BY <2>3, <3>1, <3>2
  <2>4. CASE Newest(id) # Current
    BY <1>2, <2>1, <2>2, <2>4 DEF Told, Rows
  <2>5. QED
    BY <2>3, <2>4
<1>7. Range(batch') \intersect Rows(Registered)' = {}
  BY <1>2 DEF CrossrefInv, Rows
<1>8. DataciteInit'
  BY DEF CrossrefInv, DataciteInit, dataciteVars
<1>9. QED
  BY <1>2, <1>3, <1>6, <1>7, <1>8 DEF CrossrefInv

LEMMA CrossrefCrashKeeps ==
    ASSUME CrossrefInv, UNCHANGED <<dataciteVars, followed>>, CrossrefCrash
    PROVE  CrossrefInv'
<1>1. /\ batch' = <<>> /\ crashes' = crashes + 1 /\ crashes < MaxCrashes /\ Dismiss
      /\ UNCHANGED <<tasks, refs, queue, expired, cleaning, ignored, crowded>>
      /\ step' = "ready" /\ UNCHANGED <<deposits, shown>>
  BY DEF CrossrefCrash, EndDaemon, Dismiss
<1>2. crashes' \in 0..MaxCrashes
  BY <1>1 DEF CrossrefInv, Queued, QueueTyped, QueueTypeOK
<1>3. Queued' /\ Range(batch') = {}
  BY <1>1, <1>2, EmptiedQueued DEF CrossrefInv, Range
<1>4. CrossrefTyped'
  BY <1>1, <1>3, DismissTyped
<1>5. Rows(Registered)' = Rows(Registered)
  BY <1>1 DEF Rows
<1>6. QED
  BY <1>1, <1>3, <1>4, <1>5, ToldFrame

LEMMA OperateKeeps ==
    ASSUME CrossrefInv, UNCHANGED <<dataciteVars, followed>>,
           NEW id \in Identifiers, NEW operation \in Operations, Operate(id, operation)
    PROVE  CrossrefInv'
<1> DEFINE new == Len(tasks) + 1
<1>1. /\ Enqueue(id, operation) /\ deposits' = Append(deposits, "none")
      /\ \E status \in {"", "SUBMITTED"} : shown' = [shown EXCEPT ![id] = status]
      /\ UNCHANGED <<held, step, verdict>>
  BY DEF Operate
<1>2. /\ Queued' /\ Seqs' = Seqs \union {new} /\ new \notin Seqs
      /\ Len(tasks') = new /\ new \in Nat
      /\ batch' = batch /\ crowded \subseteq crowded' /\ Current' = Current
      /\ DOMAIN queue' = DOMAIN queue \union {new} /\ queue'[new] = "UNSUBMITTED"
      /\ new \notin DOMAIN queue /\ \A r \in DOMAIN queue : queue'[r] = queue[r]
      /\ Newest(id)' = new
      /\ \A i \in Identifiers \ {id} : Newest(i)' = Newest(i) /\ Exists(i)' = Exists(i)
  BY <1>1, EnqueuedQueued DEF CrossrefInv
<1>3. /\ deposits \in Seq(DepositStates) /\ Len(deposits) = Len(tasks) /\ Len(tasks) \in Nat
  BY DepositsTyped
<1>4. /\ deposits' \in Seq(DepositStates) /\ Len(deposits') = new
      /\ \A s \in Seqs : deposits'[s] = deposits[s]
  <2>1. "none" \in DepositStates
    BY DEF DepositStates
  <2>2. /\ deposits' \in Seq(DepositStates) /\ Len(deposits') = Len(deposits) + 1
        /\ \A s \in 1..Len(deposits) : deposits'[s] = deposits[s]
    <3>1. deposits' = Append(deposits, "none")
      BY <1>1
    <3> HIDE DEF new
    <3>2. QED
      BY <1>3, <2>1, <3>1, AppendProperties
  <2>3. QED
    BY <1>3, <2>2 DEF Seqs
<1> HIDE DEF new
<1>5. /\ shown' \in [Identifiers -> Outcomes \union {"", "SUBMITTED"}]
      /\ \A i \in Identifiers \ {id} : shown'[i] = shown[i]
  BY <1>1 DEF CrossrefInv, CrossrefTyped
<1>6. CrossrefTyped'
  BY <1>1, <1>2, <1>4, <1>5 DEF CrossrefInv, CrossrefTyped
<1>7. Rows(Registered)' = Rows(Registered)
  BY <1>2 DEF Rows, Registered
<1>8. ASSUME NEW i \in CrossrefDois, i \notin crowded' PROVE Told(i)'
  <2>1. Told(i) /\ i \in Identifiers
    BY <1>2, <1>8 DEF CrossrefInv
  <2>2. CASE i = id
    <3>1. new \notin Rows(Registered)'
      BY <1>2, <1>7 DEF Rows
    <3>2. batch # <<>> => Current # new
      BY <1>2, AtHand DEF CrossrefInv
    <3>3. QED
      BY <1>2, <2>2, <3>1, <3>2 DEF Told
  <2>3. CASE i # id
    <3>1. Exists(i) => Newest(i) \in Seqs
      BY <2>1, NewestTyped DEF CrossrefInv, Queued, Exists, TasksOf
    <3>2. QED
      BY <1>1, <1>2, <1>4, <1>5, <1>7, <2>1, <2>3, <3>1 DEF Told, Rows
  <2>4. QED
    BY <2>2, <2>3
<1>9. DataciteInit' /\ Range(batch') \intersect Rows(Registered)' = {}
  BY <1>2, <1>7 DEF CrossrefInv, DataciteInit, dataciteVars
<1>10. QED
  BY <1>2, <1>6, <1>8, <1>9 DEF CrossrefInv

LEMMA ProcessedKeeps ==
    ASSUME CrossrefInv, UNCHANGED <<dataciteVars, followed>>,
           NEW s \in Seqs, CrossrefProcesses(s)
    PROVE  CrossrefInv'
<1>1. /\ deposits[s] = "processing" /\ s \in DOMAIN deposits
      /\ UNCHANGED queueVars /\ UNCHANGED <<shown, held, step, verdict>>
  BY DEF CrossrefProcesses
<1>2. PICK outcome \in Outcomes : deposits' = [deposits EXCEPT ![s] = outcome]
  BY DEF CrossrefProcesses
<1>3. /\ Queued' /\ Seqs' = Seqs /\ Current' = Current
      /\ \A id \in Identifiers : Newest(id)' = Newest(id) /\ Exists(id)' = Exists(id)
  BY <1>1, QueuedSame DEF CrossrefInv
<1>4. /\ UNCHANGED <<tasks, refs, queue, batch, expired, cleaning, crashes, ignored, crowded>>
      /\ Rows(Registered)' = Rows(Registered)
  BY <1>1 DEF queueVars, Rows
<1>5. deposits' \in Seq(DepositStates) /\ Len(deposits') = Len(deposits)
  BY <1>2, DepositChanged DEF DepositStates
<1>6. CrossrefTyped'
  BY <1>1, <1>3, <1>4, <1>5 DEF CrossrefInv, CrossrefTyped
<1>7. \A t : deposits[t] \in Registered => deposits'[t] = deposits[t]
  BY <1>1, <1>2 DEF Registered
<1>8. ASSUME NEW id \in CrossrefDois, id \notin crowded PROVE Told(id)'
  <2>1. Told(id) /\ id \in Identifiers
    BY <1>8 DEF CrossrefInv
  <2>2. Newest(id) \in Rows(Registered) => queue[Newest(id)] \in Registered
    BY DEF Rows
  <2>3. QED
    BY <1>1, <1>3, <1>4, <1>7, <2>1, <2>2 DEF Told
<1>9. QED
  BY <1>1, <1>3, <1>4, <1>6, <1>8 DEF CrossrefInv, DataciteInit, dataciteVars

LEMMA CrossrefOthersKeep ==
    ASSUME CrossrefInv, UNCHANGED <<dataciteVars, followed>>, OtherProcesses, UNCHANGED crossrefVars
    PROVE  CrossrefInv'
<1>1. /\ Queued' /\ UNCHANGED <<tasks, batch, crowded, crashes>>
      /\ DOMAIN queue' \subseteq DOMAIN queue
      /\ \A r \in DOMAIN queue' : queue'[r] = queue[r] \/ queue'[r] = "IGNORED"
  BY OthersQueued DEF CrossrefInv
<1>2. UNCHANGED <<deposits, shown, held, step, verdict>>
  BY DEF crossrefVars
<1>3. \A s \in Rows(Registered)' : s \in Rows(Registered) /\ queue'[s] = queue[s]
  BY <1>1 DEF Rows, Registered
<1>4. CrossrefTyped'
  BY <1>1, <1>2 DEF CrossrefInv, CrossrefTyped, Seqs
<1>5. Range(batch') \intersect Rows(Registered) = {}
  BY <1>1 DEF CrossrefInv
<1>6. QED
  BY <1>1, <1>2, <1>3, <1>4, <1>5, ToldFrame

LEMMA CrossrefStep ==
    ASSUME CrossrefInv, [AgenciesNext]_agenciesVars
    PROVE  CrossrefInv'
<1>1. CASE UNCHANGED agenciesVars
  <2>1. UNCHANGED queueVars /\ UNCHANGED <<followed, dataciteVars>>
        /\ UNCHANGED <<tasks, crowded, queue, batch>>
        /\ UNCHANGED <<deposits, shown, held, step, verdict>>
    BY <1>1 DEF agenciesVars, queueVars, crossrefVars
  <2>2. Queued' /\ CrossrefTyped' /\ Rows(Registered)' = Rows(Registered)
    BY <2>1, QueuedSame DEF CrossrefInv, CrossrefTyped, Seqs, Rows
  <2>3. Range(batch') \intersect Rows(Registered) = {}
    BY <2>1 DEF CrossrefInv
  <2>4. QED
    BY <2>1, <2>2, <2>3, ToldFrame
<1>2. CASE CrossrefNext /\ UNCHANGED <<dataciteVars, followed>>
  BY <1>2, CrossrefFetchKeeps, CrossrefWorkKeeps, CrossrefSettleKeeps, CrossrefCrashKeeps,
     ProcessedKeeps, OperateKeeps, CrossrefOthersKeep DEF CrossrefNext, CrossrefLoop
<1>3. QED
  BY <1>1, <1>2 DEF AgenciesNext, Crossref, Datacite, CrossrefInv

-----------------------------------------------------------------------------
(* DataCite                                                                *)

DataciteTyped ==
    /\ remote \in [Identifiers -> [metadata : 0..Len(tasks), target : 0..Len(tasks),
                                   listed : BOOLEAN]]
    /\ standing \in Seq(Standings)
    /\ progress \in {"ready", "uploaded", "targeted", "deactivate", "done", "failed"}
    /\ batch = <<>> => progress = "ready"

Complete(id, s) == remote[id] = [metadata |-> s, target |-> s, listed |-> TRUE]

\* How far the last operation on a DOI has got: to DataCite's metadata, to all of
\* it, and from then on its row may count as done.
Reached(id) ==
    LET s == Newest(id)
    IN  Exists(id) /\ s \notin ignored =>
           /\ s \notin DOMAIN queue \/ queue[s] = "SUCCESS" \/ cleaning = s => Complete(id, s)
           /\ batch # <<>> /\ Current = s /\ progress = "uploaded" =>
                 remote[id].metadata = s /\ remote[id].listed = TRUE
           /\ batch # <<>> /\ Current = s /\ progress \in {"targeted", "done"} => Complete(id, s)

\* Only deletions are deactivated, so nothing that was reached is undone.
DataciteInv ==
    /\ followed = "DataCite" /\ CrossrefInit
    /\ Queued /\ DataciteTyped
    /\ Rows({"IGNORED"}) \subseteq ignored
    /\ batch # <<>> /\ progress = "deactivate" => tasks[Current].operation = "DELETE"
    /\ \A id \in DataciteDois \ crowded : Reached(id)

\* The queue moves, and the daemon with its task does not, or starts on another.
LEMMA ReachedFrame ==
    ASSUME DataciteInv, Queued', UNCHANGED <<followed, crossrefVars>>, DataciteTyped',
           UNCHANGED <<tasks, crowded, remote>>, ignored \subseteq ignored',
           \A s \in Seqs \ ignored' :
              s \notin DOMAIN queue' \/ queue'[s] = "SUCCESS" \/ cleaning' = s =>
                 s \notin DOMAIN queue \/ queue[s] = "SUCCESS" \/ cleaning = s,
           Rows({"IGNORED"})' \subseteq ignored',
           progress' = "ready" \/ UNCHANGED <<batch, progress>>
    PROVE  DataciteInv'
<1>1. \A id \in Identifiers : Newest(id)' = Newest(id) /\ Exists(id)' = Exists(id)
  BY DEF Newest, Exists, TasksOf, Seqs
<1>2. CrossrefInit'
  BY DEF DataciteInv, CrossrefInit, crossrefVars
<1>3. UNCHANGED <<batch, progress>> => Current' = Current
  BY DEF Current
<1>4. ASSUME NEW id \in DataciteDois, id \notin crowded PROVE Reached(id)'
  <2>1. Reached(id) /\ id \in Identifiers
    BY <1>4 DEF DataciteInv
  <2>2. Exists(id) => Newest(id) \in Seqs
    BY <2>1, NewestTyped DEF DataciteInv, Queued, Exists, TasksOf
  <2>3. QED
    BY <1>1, <1>3, <2>1, <2>2 DEF Reached, Complete
<1>5. batch' # <<>> /\ progress' = "deactivate" => tasks'[Current'].operation = "DELETE"
  BY <1>3 DEF DataciteInv
<1>6. QED
  BY <1>2, <1>4, <1>5 DEF DataciteInv

\* The daemon works on its task.
LEMMA ReachedWork ==
    ASSUME DataciteInv, batch # <<>>, UNCHANGED queueVars, UNCHANGED <<followed, crossrefVars>>,
           DataciteTyped',
           \A id \in Identifiers \ {Doi} : remote'[id] = remote[id],
           progress' = "deactivate" => tasks[Current].operation = "DELETE",
           Doi \in DataciteDois \ crowded /\ Reached(Doi) /\ Exists(Doi) /\ Current = Newest(Doi)
             /\ Current \notin ignored =>
                /\ Complete(Doi, Current) => Complete(Doi, Current)'
                /\ progress' = "uploaded" =>
                      remote'[Doi].metadata = Current /\ remote'[Doi].listed = TRUE
                /\ progress' \in {"targeted", "done"} => Complete(Doi, Current)'
    PROVE  DataciteInv'
<1>1. /\ Queued' /\ Seqs' = Seqs /\ Current' = Current
      /\ \A id \in Identifiers : /\ TasksOf(id)' = TasksOf(id) /\ Newest(id)' = Newest(id)
                                 /\ Exists(id)' = Exists(id)
  BY QueuedSame DEF DataciteInv
<1>2. UNCHANGED <<tasks, refs, queue, batch, expired, cleaning, crashes, ignored, crowded>>
  BY DEF queueVars
<1>3. /\ Current \in Range(batch) /\ Doi \in Identifiers
      /\ \A id \in Identifiers : Current \in TasksOf(id) <=> id = Doi
      /\ \A id \in Identifiers \ crowded : id = Doi => Current = Newest(id)
  BY AtHand DEF DataciteInv, Doi
<1>4. ASSUME NEW id \in DataciteDois, id \notin crowded, Exists(id) PROVE Reached(id)'
  <2>1. Reached(id) /\ id \in Identifiers
    BY <1>4 DEF DataciteInv
  <2>2. Newest(id) \in TasksOf(id)
    BY <1>4, <2>1, NewestTyped DEF DataciteInv, Queued, Exists
  <2>3. CASE id = Doi
    <3>1. Current = Newest(id)
      BY <1>3, <1>4, <2>1, <2>3
    <3>2. Complete(id, Current)' = (remote'[id] = [metadata |-> Current, target |-> Current, listed |-> TRUE])
      BY <1>1 DEF Complete
    <3>3. Newest(id)' = Current /\ Doi' = Doi
      BY <1>1, <1>2, <1>4, <2>1, <3>1 DEF Doi
    <3>4. CASE Current \in ignored
      BY <1>2, <3>3, <3>4 DEF Reached
    <3>5. CASE Current \notin ignored
      <4>1. Complete(Doi, Current)' <=> Complete(id, Current)'
        BY <1>1, <2>3, <3>3 DEF Complete
      <4>2. Current \notin DOMAIN queue \/ queue[Current] = "SUCCESS" \/ cleaning = Current
               => Complete(Doi, Current)
        BY <1>4, <2>1, <2>3, <3>1, <3>5 DEF Reached
      <4>3. /\ Complete(Doi, Current) => Complete(id, Current)'
            /\ progress' = "uploaded" =>
                  remote'[id].metadata = Current /\ remote'[id].listed = TRUE
            /\ progress' \in {"targeted", "done"} => Complete(id, Current)'
        BY <1>4, <2>1, <2>3, <3>1, <3>5, <4>1
      <4>4. Complete(id, Newest(id))' <=> Complete(id, Current)'
        BY <1>1, <3>3 DEF Complete
      <4>5. QED
        BY <1>1, <1>2, <2>3, <3>3, <4>2, <4>3, <4>4 DEF Reached
    <3>6. QED
      BY <3>4, <3>5
  <2>4. CASE id # Doi
    <3>1. Newest(id) # Current /\ remote'[id] = remote[id]
      BY <1>3, <2>1, <2>2, <2>4
    <3>2. QED
      BY <1>1, <1>2, <2>1, <3>1 DEF Reached, Complete
  <2>5. QED
    BY <2>3, <2>4
<1>5. ASSUME NEW id \in DataciteDois, id \notin crowded, ~Exists(id) PROVE Reached(id)'
  BY <1>1, <1>5 DEF Reached
<1>6. CrossrefInit' /\ Rows({"IGNORED"})' \subseteq ignored'
  BY <1>2 DEF DataciteInv, CrossrefInit, crossrefVars, Rows
<1>7. QED
  BY <1>1, <1>2, <1>4, <1>5, <1>6 DEF DataciteInv

\* What a call changes of DataCite's record of the DOI at hand.
LEMMA RemoteChanged ==
    ASSUME DataciteInv, batch # <<>>,
           NEW record \in [metadata : 0..Len(tasks), target : 0..Len(tasks), listed : BOOLEAN],
           Effective(record)
    PROVE  /\ remote' \in [Identifiers -> [metadata : 0..Len(tasks), target : 0..Len(tasks),
                                           listed : BOOLEAN]]
           /\ remote'[Doi] = record /\ \A id \in Identifiers \ {Doi} : remote'[id] = remote[id]
<1>1. Doi \in Identifiers
  BY AtHand DEF DataciteInv, Doi
<1>2. QED
  BY <1>1 DEF Effective, DataciteInv, DataciteTyped

LEMMA DataciteWorkKeeps ==
    ASSUME DataciteInv, UNCHANGED <<crossrefVars, followed>>,
           Ineligible \/ Upload \/ SetTarget \/ Invalidate \/ Deactivate \/ SnapshotGone
    PROVE  DataciteInv'
<1>1. batch # <<>> /\ UNCHANGED queueVars /\ standing' = standing /\ UNCHANGED <<tasks, batch>>
  BY DEF Ineligible, Upload, SetTarget, Invalidate, Deactivate, Delist, SnapshotGone, Advance,
         Registering, queueVars
<1>2. /\ Current \in 0..Len(tasks) /\ Doi \in Identifiers
      /\ remote \in [Identifiers -> [metadata : 0..Len(tasks), target : 0..Len(tasks),
                                     listed : BOOLEAN]]
      /\ Doi \notin crowded => Current = Newest(Doi)
  BY <1>1, AtHand DEF DataciteInv, DataciteTyped, Doi, Seqs
<1> DEFINE Record == [metadata : 0..Len(tasks), target : 0..Len(tasks), listed : BOOLEAN]
<1>3. ASSUME remote' \in [Identifiers -> Record],
             progress' \in {"uploaded", "targeted", "deactivate", "done", "failed"}
      PROVE  DataciteTyped'
  BY <1>1, <1>3 DEF DataciteInv, DataciteTyped
<1>4. remote[Doi] \in Record
  BY <1>2
<1>5. CASE Ineligible \/ SnapshotGone
  <2>1. remote' = remote /\ progress' \in {"done", "failed"}
        /\ (progress' = "done" => Doi \notin DataciteDois)
    BY <1>5 DEF Ineligible, SnapshotGone, Advance
  <2>2. DataciteTyped'
    BY <1>2, <1>3, <2>1
  <2>3. Complete(Doi, Current) => remote'[Doi] = [metadata |-> Current, target |-> Current, listed |-> TRUE]
    BY <2>1 DEF Complete
  <2>4. Current' = Current /\ Doi' = Doi
    BY <1>1 DEF Current, Doi
  <2>5. Complete(Doi, Current) => Complete(Doi, Current)'
    BY <2>3, <2>4 DEF Complete
  <2>6. QED
    BY <1>1, <2>1, <2>2, <2>5, ReachedWork
<1>6. Current' = Current /\ Doi' = Doi
  BY <1>1 DEF Current, Doi
<1>7. CASE Upload
  <2> DEFINE record == [remote[Doi] EXCEPT !.metadata = Current, !.listed = TRUE]
  <2>1. record \in Record /\ record.metadata = Current /\ record.listed = TRUE
        /\ record.target = remote[Doi].target
    BY <1>2, <1>4
  <2>2. \/ progress' = "uploaded" /\ Effective(record)
        \/ progress' = "failed" /\ (Effective(record) \/ remote' = remote)
    BY <1>7 DEF Upload, Advance
  <2> HIDE DEF record
  <2>3. /\ remote' \in [Identifiers -> Record]
        /\ \A id \in Identifiers \ {Doi} : remote'[id] = remote[id]
        /\ remote'[Doi] = record \/ (remote' = remote /\ progress' # "uploaded")
    BY <1>1, <1>2, <2>1, <2>2, RemoteChanged
  <2>4. DataciteTyped'
    BY <1>3, <2>2, <2>3
  <2>5. Complete(Doi, Current) => Complete(Doi, Current)'
    <3>1. ASSUME remote[Doi] = [metadata |-> Current, target |-> Current, listed |-> TRUE]
          PROVE  remote'[Doi] = [metadata |-> Current, target |-> Current, listed |-> TRUE]
      <4>1. record.target = Current
        BY <2>1, <3>1
      <4>2. record = [metadata |-> Current, target |-> Current, listed |-> TRUE]
        BY <2>1, <4>1
      <4>3. QED
        BY <2>3, <3>1, <4>2
    <3>2. QED
      BY <1>6, <3>1 DEF Complete
  <2>6. progress' = "uploaded" => remote'[Doi].metadata = Current /\ remote'[Doi].listed = TRUE
    BY <2>1, <2>3
  <2>7. QED
    BY <1>1, <2>2, <2>3, <2>4, <2>5, <2>6, ReachedWork
<1>8. CASE SetTarget
  <2> DEFINE record == [remote[Doi] EXCEPT !.target = Current]
  <2>1. record \in Record /\ record.target = Current /\ record.metadata = remote[Doi].metadata
        /\ record.listed = remote[Doi].listed
    BY <1>2, <1>4
  <2>2. /\ progress = "uploaded"
        /\ \/ progress' = "targeted" /\ Effective(record)
           \/ progress' = "failed" /\ (Effective(record) \/ remote' = remote)
    BY <1>8 DEF SetTarget, Advance
  <2> HIDE DEF record
  <2>3. /\ remote' \in [Identifiers -> Record]
        /\ \A id \in Identifiers \ {Doi} : remote'[id] = remote[id]
        /\ remote'[Doi] = record \/ (remote' = remote /\ progress' # "targeted")
    BY <1>1, <1>2, <2>1, <2>2, RemoteChanged
  <2>4. DataciteTyped'
    BY <1>3, <2>2, <2>3
  <2>5. ASSUME remote[Doi].metadata = Current, remote[Doi].listed = TRUE
        PROVE  record = [metadata |-> Current, target |-> Current, listed |-> TRUE]
    BY <2>1, <2>5
  <2>6. ASSUME Reached(Doi), Exists(Doi), Current = Newest(Doi), Current \notin ignored
        PROVE  /\ Complete(Doi, Current) => Complete(Doi, Current)'
               /\ progress' = "targeted" => Complete(Doi, Current)'
    <3>1. remote[Doi].metadata = Current /\ remote[Doi].listed = TRUE
      BY <1>1, <2>2, <2>6 DEF Reached
    <3>2. QED
      BY <1>6, <2>3, <2>5, <3>1 DEF Complete
  <2>7. QED
    BY <1>1, <2>2, <2>3, <2>4, <2>6, ReachedWork
<1>9. CASE Invalidate \/ Deactivate
  <2>1. tasks[Current].operation = "DELETE" /\ progress' \in {"deactivate", "failed"}
    BY <1>1, <1>9 DEF Invalidate, Registering, Advance, Deactivate, Delist, DataciteInv
  <2>2. \/ remote' = remote
        \/ \E record \in Record : Effective(record)
    <3>1. /\ [remote[Doi] EXCEPT !.target = Current] \in Record
          /\ [remote[Doi] EXCEPT !.listed = FALSE] \in Record
          /\ [remote[Doi] EXCEPT !.listed = TRUE] \in Record
      BY <1>2, <1>4
    <3> HIDE DEF Record
    <3>2. QED
      BY <1>9, <3>1 DEF Invalidate, Deactivate, Delist
  <2>3. /\ remote' \in [Identifiers -> Record]
        /\ \A id \in Identifiers \ {Doi} : remote'[id] = remote[id]
    BY <1>1, <1>2, <2>2, RemoteChanged
  <2>4. DataciteTyped'
    BY <1>3, <2>1, <2>3
  <2>5. ~(Exists(Doi) /\ Current = Newest(Doi))
    BY <2>1 DEF Exists
  <2>6. QED
    BY <1>1, <2>1, <2>3, <2>4, <2>5, ReachedWork
<1>10. QED
  BY <1>5, <1>7, <1>8, <1>9

LEMMA DataciteFetchKeeps ==
    ASSUME DataciteInv, UNCHANGED <<crossrefVars, followed>>, Fetch, UNCHANGED dataciteVars
    PROVE  DataciteInv'
<1>1. /\ batch = <<>>
      /\ UNCHANGED <<tasks, refs, queue, expired, cleaning, crashes, ignored, crowded>>
      /\ UNCHANGED <<remote, standing, progress>>
  BY DEF Fetch, dataciteVars
<1>2. PICK due \in SUBSET Rows({"FAILURE"}) :
         batch' \in Batches(Rows({"UNSUBMITTED"}) \union Retryable(due))
  BY DEF Fetch
<1> DEFINE rows == Rows({"UNSUBMITTED"}) \union Retryable(due)
<1>3. rows \subseteq DOMAIN queue /\ rows \in SUBSET Live
  BY DEF Retryable, Rows, Live, Open
<1>4. IsFiniteSet(rows)
  BY <1>3, RowsFinite DEF DataciteInv, Queued
<1> HIDE DEF rows
<1>5. /\ batch' \in Seq(rows) /\ Len(batch') <= BatchSize
      /\ \A m, n \in 1..Len(batch') : batch'[m] = batch'[n] => m = n
  BY <1>2, <1>4, BatchTyped DEF rows
<1>6. Queued'
  BY <1>1, <1>3, <1>5, FetchedQueued DEF DataciteInv
<1>7. progress = "ready"
  BY <1>1 DEF DataciteInv, DataciteTyped
<1>8. DataciteTyped' /\ Rows({"IGNORED"})' \subseteq ignored'
  BY <1>1, <1>7 DEF DataciteInv, DataciteTyped, Rows
<1>9. QED
  BY <1>1, <1>6, <1>7, <1>8, ReachedFrame

\* A row the daemon writes.
LEMMA DataciteSaved ==
    ASSUME DataciteInv, batch # <<>>, Queued', UNCHANGED <<followed, crossrefVars>>, DataciteTyped',
           UNCHANGED <<tasks, refs, expired, cleaning, crashes, ignored, crowded, remote>>,
           NEW status \in {"SUCCESS", "FAILURE"},
           status = "SUCCESS" => progress \in {"targeted", "done"},
           DOMAIN queue \subseteq DOMAIN queue', DOMAIN queue' \subseteq DOMAIN queue \union {Current},
           \A r \in DOMAIN queue' \ {Current} : queue'[r] = queue[r],
           Current \in DOMAIN queue' =>
              queue'[Current] = status \/ (Current \in DOMAIN queue /\ queue'[Current] = queue[Current]),
           \/ progress' \in {"ready", "failed"}
           \/ progress' = "done" /\ batch' = batch /\ progress = "targeted"
    PROVE  DataciteInv'
<1>1. \A id \in Identifiers : Newest(id)' = Newest(id) /\ Exists(id)' = Exists(id)
  BY DEF Newest, Exists, TasksOf, Seqs
<1>2. CrossrefInit' /\ (batch' = batch => Current' = Current)
  BY DEF DataciteInv, CrossrefInit, crossrefVars, Current
<1>3. Rows({"IGNORED"})' \subseteq ignored'
  BY DEF DataciteInv, Rows
<1>4. ASSUME NEW id \in DataciteDois, id \notin crowded PROVE Reached(id)'
  <2>1. Reached(id) /\ id \in Identifiers
    BY <1>4 DEF DataciteInv
  <2>2. SUFFICES ASSUME Exists(id), Newest(id) \notin ignored
                 PROVE  /\ \/ Newest(id) \notin DOMAIN queue' \/ queue'[Newest(id)] = "SUCCESS"
                           \/ cleaning = Newest(id)
                           => Complete(id, Newest(id))
                        /\ batch' # <<>> /\ Current' = Newest(id) /\ progress' = "done" =>
                              Complete(id, Newest(id))
    BY <1>1, <2>1 DEF Reached, Complete
  <2>3. CASE Newest(id) = Current
    BY <1>2, <2>1, <2>2, <2>3 DEF Reached
  <2>4. CASE Newest(id) # Current
    BY <1>2, <2>1, <2>2, <2>4 DEF Reached
  <2>5. QED
    BY <2>3, <2>4
<1>5. QED
  BY <1>2, <1>3, <1>4 DEF DataciteInv

LEMMA SaveEarlyKeeps ==
    ASSUME DataciteInv, UNCHANGED <<crossrefVars, followed>>, SaveEarly
    PROVE  DataciteInv'
<1>1. /\ batch # <<>> /\ progress = "targeted"
      /\ UNCHANGED <<tasks, refs, batch, expired, cleaning, crashes, ignored, crowded>>
      /\ UNCHANGED <<remote, standing>>
  BY DEF SaveEarly
<1>2. CASE Current \in refs
  <2>1. queue' = WithRow(Current, "SUCCESS") /\ progress' = "done"
    BY <1>2 DEF SaveEarly, ToBeDeactivated, Elements
  <2>2. Queued'
    BY <1>1, <1>2, <2>1, WrittenQueued DEF DataciteInv, Statuses
  <2>3. /\ DOMAIN queue' = DOMAIN queue \union {Current} /\ queue'[Current] = "SUCCESS"
        /\ \A r \in DOMAIN queue \ {Current} : queue'[r] = queue[r]
    BY <2>1, RowWritten
  <2>4. DataciteTyped'
    BY <1>1, <2>1 DEF DataciteInv, DataciteTyped
  <2>5. QED
    BY <1>1, <2>1, <2>2, <2>3, <2>4, DataciteSaved
<1>3. CASE Current \notin refs
  <2>1. queue' = queue /\ progress' = "failed"
    BY <1>3 DEF SaveEarly
  <2>2. Queued'
    BY <1>1, <2>1, QueuedSame DEF DataciteInv, queueVars
  <2>3. DataciteTyped'
    BY <1>1, <2>1 DEF DataciteInv, DataciteTyped
  <2>4. QED
    BY <1>1, <2>1, <2>2, <2>3, DataciteSaved
<1>4. QED
  BY <1>2, <1>3

LEMMA DataciteSettleKeeps ==
    ASSUME DataciteInv, UNCHANGED <<crossrefVars, followed>>, DataciteSettle
    PROVE  DataciteInv'
<1> DEFINE status == IF progress = "done" THEN "SUCCESS" ELSE "FAILURE"
<1>1. /\ batch # <<>> /\ progress' = "ready" /\ SaveTask(status) /\ UNCHANGED <<remote, standing>>
  BY DEF DataciteSettle
<1>2. status \in {"SUCCESS", "FAILURE"} /\ status \in Statuses
      /\ (status = "SUCCESS" => progress = "done")
  BY DEF Statuses
<1> HIDE DEF status
<1>3. /\ Queued'
      /\ UNCHANGED <<tasks, refs, expired, cleaning, crashes, ignored, crowded>>
      /\ DOMAIN queue \subseteq DOMAIN queue' /\ DOMAIN queue' \subseteq DOMAIN queue \union {Current}
      /\ \A r \in DOMAIN queue' \ {Current} : queue'[r] = queue[r]
      /\ Current \in DOMAIN queue' =>
            queue'[Current] = status \/ (Current \in DOMAIN queue /\ queue'[Current] = queue[Current])
  BY <1>1, <1>2, SavedQueued DEF DataciteInv
<1>4. DataciteTyped'
  BY <1>1, <1>3 DEF DataciteInv, DataciteTyped
<1>5. QED
  BY <1>1, <1>2, <1>3, <1>4, DataciteSaved

LEMMA DataciteCrashKeeps ==
    ASSUME DataciteInv, UNCHANGED <<crossrefVars, followed>>, DataciteCrash
    PROVE  DataciteInv'
<1>1. /\ batch' = <<>> /\ crashes' = crashes + 1 /\ crashes < MaxCrashes
      /\ UNCHANGED <<tasks, refs, queue, expired, cleaning, ignored, crowded>>
      /\ progress' = "ready" /\ UNCHANGED <<remote, standing>>
  BY DEF DataciteCrash, EndDaemon
<1>2. crashes' \in 0..MaxCrashes
  BY <1>1 DEF DataciteInv, Queued, QueueTyped, QueueTypeOK
<1>3. Queued'
  BY <1>1, <1>2, EmptiedQueued DEF DataciteInv
<1>4. DataciteTyped' /\ Rows({"IGNORED"})' \subseteq ignored'
  BY <1>1 DEF DataciteInv, DataciteTyped, Rows
<1>5. QED
  BY <1>1, <1>3, <1>4, ReachedFrame

LEMMA RequestKeeps ==
    ASSUME DataciteInv, UNCHANGED <<crossrefVars, followed>>,
           NEW id \in Identifiers, NEW operation \in Operations, Request(id, operation)
    PROVE  DataciteInv'
<1> DEFINE new == Len(tasks) + 1
<1>1. /\ Enqueue(id, operation) /\ \E status \in Standings : standing' = Append(standing, status)
      /\ UNCHANGED <<remote, progress>> /\ UNCHANGED <<cleaning, ignored>>
  BY DEF Request, Enqueue
<1>2. /\ Queued' /\ Seqs' = Seqs \union {new} /\ new \notin Seqs
      /\ Len(tasks') = new /\ new \in Nat
      /\ batch' = batch /\ crowded \subseteq crowded' /\ Current' = Current
      /\ DOMAIN queue' = DOMAIN queue \union {new} /\ queue'[new] = "UNSUBMITTED"
      /\ new \notin DOMAIN queue /\ \A r \in DOMAIN queue : queue'[r] = queue[r]
      /\ \A s \in Seqs : tasks'[s] = tasks[s]
      /\ Newest(id)' = new
      /\ \A i \in Identifiers \ {id} : Newest(i)' = Newest(i) /\ Exists(i)' = Exists(i)
  BY <1>1, EnqueuedQueued DEF DataciteInv
<1>3. Len(tasks) \in Nat /\ cleaning \in {0} \union Seqs /\ 0 # new
  BY DEF DataciteInv, Queued, QueueTyped, QueueTypeOK
<1>4. DataciteTyped'
  <2>1. standing' \in Seq(Standings)
    BY <1>1, AppendProperties DEF DataciteInv, DataciteTyped
  <2>2. 0..Len(tasks) \subseteq 0..Len(tasks')
    BY <1>2, <1>3
  <2>3. \A i \in Identifiers :
           remote[i] \in [metadata : 0..Len(tasks'), target : 0..Len(tasks'), listed : BOOLEAN]
    BY <2>2 DEF DataciteInv, DataciteTyped
  <2>4. remote' \in [Identifiers -> [metadata : 0..Len(tasks'), target : 0..Len(tasks'),
                                     listed : BOOLEAN]]
    BY <1>1, <2>3 DEF DataciteInv, DataciteTyped
  <2>5. QED
    BY <1>1, <1>2, <2>1, <2>4 DEF DataciteInv, DataciteTyped
<1> HIDE DEF new
<1>5. batch # <<>> => Current # new /\ Current \in Seqs
  BY <1>2, AtHand DEF DataciteInv
<1>6. ASSUME NEW i \in DataciteDois, i \notin crowded' PROVE Reached(i)'
  <2>1. Reached(i) /\ i \in Identifiers
    BY <1>2, <1>6 DEF DataciteInv
  <2>2. CASE i = id
    BY <1>1, <1>2, <1>3, <1>5, <2>2 DEF Reached
  <2>3. CASE i # id
    <3>1. Exists(i) => Newest(i) \in Seqs
      BY <2>1, NewestTyped DEF DataciteInv, Queued, Exists, TasksOf
    <3>2. QED
      BY <1>1, <1>2, <2>1, <2>3, <3>1 DEF Reached, Complete
  <2>4. QED
    BY <2>2, <2>3
<1>7. CrossrefInit' /\ Rows({"IGNORED"})' \subseteq ignored'
  BY <1>1, <1>2 DEF DataciteInv, CrossrefInit, crossrefVars, Rows
<1>8. batch' # <<>> /\ progress' = "deactivate" => tasks'[Current'].operation = "DELETE"
  BY <1>1, <1>2, <1>5 DEF DataciteInv
<1>9. QED
  BY <1>2, <1>4, <1>6, <1>7, <1>8 DEF DataciteInv

LEMMA DataciteOthersKeep ==
    ASSUME DataciteInv, UNCHANGED <<crossrefVars, followed>>, OtherProcesses, UNCHANGED dataciteVars
    PROVE  DataciteInv'
<1>1. /\ Queued' /\ UNCHANGED <<tasks, batch, crowded, crashes>> /\ ignored \subseteq ignored'
      /\ DOMAIN queue' \subseteq DOMAIN queue
      /\ DOMAIN queue \subseteq DOMAIN queue' \union {cleaning}
      /\ \A r \in DOMAIN queue' :
            queue'[r] = queue[r] \/ (queue'[r] = "IGNORED" /\ r \in ignored')
      /\ \/ cleaning' = cleaning /\ DOMAIN queue' = DOMAIN queue
         \/ cleaning' = 0 /\ cleaning # 0
         \/ cleaning' \in Rows(Done) /\ queue' = queue
  BY OthersQueued DEF DataciteInv
<1>2. UNCHANGED <<remote, standing, progress>>
  BY DEF dataciteVars
<1>3. Rows({"IGNORED"})' \subseteq ignored'
  BY <1>1 DEF DataciteInv, Rows
<1>4. DataciteTyped'
  BY <1>1, <1>2 DEF DataciteInv, DataciteTyped
<1>5. ASSUME NEW s \in Seqs, s \notin ignored',
             s \notin DOMAIN queue' \/ queue'[s] = "SUCCESS" \/ cleaning' = s
      PROVE  s \notin DOMAIN queue \/ queue[s] = "SUCCESS" \/ cleaning = s
  <2>1. CASE s \notin DOMAIN queue'
    BY <1>1, <2>1
  <2>2. CASE s \in DOMAIN queue' /\ queue'[s] = "SUCCESS"
    BY <1>1, <2>2
  <2>3. CASE cleaning' = s
    <3>1. s # 0
      BY DEF Seqs
    <3>2. CASE cleaning' = cleaning
      BY <2>3, <3>2
    <3>3. CASE s \in Rows(Done)
      BY <1>1, <1>5, <3>3 DEF Rows, Done, DataciteInv
    <3>4. QED
      BY <1>1, <2>3, <3>1, <3>2, <3>3
  <2>4. QED
    BY <1>5, <2>1, <2>2, <2>3
<1>6. QED
  BY <1>1, <1>2, <1>3, <1>4, <1>5, ReachedFrame

LEMMA DataciteStep ==
    ASSUME DataciteInv, [AgenciesNext]_agenciesVars
    PROVE  DataciteInv'
<1>1. CASE UNCHANGED agenciesVars
  <2>1. UNCHANGED queueVars /\ UNCHANGED <<followed, crossrefVars>>
        /\ UNCHANGED <<tasks, crowded, queue, batch, ignored, cleaning>>
        /\ UNCHANGED <<remote, standing, progress>>
    BY <1>1 DEF agenciesVars, queueVars, dataciteVars
  <2>2. Queued' /\ DataciteTyped' /\ Rows({"IGNORED"})' \subseteq ignored'
    BY <2>1, QueuedSame DEF DataciteInv, DataciteTyped, Rows
  <2>3. QED
    BY <2>1, <2>2, ReachedFrame
<1>2. CASE DataciteNext /\ UNCHANGED <<crossrefVars, followed>>
  BY <1>2, DataciteFetchKeeps, DataciteWorkKeeps, SaveEarlyKeeps, DataciteSettleKeeps,
     DataciteCrashKeeps, RequestKeeps, DataciteOthersKeep DEF DataciteNext, DataciteLoop
<1>3. QED
  BY <1>1, <1>2 DEF AgenciesNext, Crossref, Datacite, DataciteInv

-----------------------------------------------------------------------------
(* Both                                                                    *)

\* A behaviour follows one of the queues, and its daemon's invariant.
THEOREM AgenciesInductive == AgenciesSpec => [](CrossrefInv \/ DataciteInv)
<1>1. AgenciesInit => CrossrefInv \/ DataciteInv
  <2> SUFFICES ASSUME AgenciesInit PROVE CrossrefInv \/ DataciteInv
    OBVIOUS
  <2>1. /\ tasks = <<>> /\ refs = {} /\ queue = <<>> /\ batch = <<>>
        /\ expired = {} /\ cleaning = 0 /\ crashes = 0 /\ ignored = {} /\ crowded = {}
    BY DEF AgenciesInit, QueueInit
  <2>2. DOMAIN queue = {} /\ Seqs = {} /\ Range(batch) = {} /\ Len(batch) = 0 /\ Len(tasks) = 0
    BY <2>1 DEF Seqs, Range
  <2>3. \A id \in Identifiers : TasksOf(id) = {}
    BY <2>2 DEF TasksOf
  <2>4. QueueTyped
    <3>1. tasks \in Seq([identifier : Identifiers, operation : Operations])
      BY <2>1
    <3>2. QED
      BY <2>1, <2>2, <3>1 DEF QueueTyped, QueueTypeOK
  <2>5. Queued
    BY <2>3, <2>4 DEF Queued, OneUnderWay, UnderWay
  <2>6. \A id \in Identifiers : Told(id) /\ Reached(id)
    BY <2>3 DEF Told, Reached, Exists
  <2>7. followed = "Crossref" => CrossrefInv
    <3>1. deposits = <<>> /\ held = <<>> /\ step = "ready" /\ verdict = "UNSUBMITTED"
      BY DEF AgenciesInit, CrossrefInit
    <3>2. deposits \in Seq(DepositStates) /\ Len(deposits) = Len(tasks)
      BY <2>1, <3>1
    <3>3. shown \in [Identifiers -> Outcomes \union {"", "SUBMITTED"}]
      BY DEF AgenciesInit, CrossrefInit
    <3>4. DOMAIN held = {}
      BY <3>1
    <3>5. verdict \in Statuses
      BY <3>1 DEF Statuses
    <3>6. CrossrefTyped
      BY <2>1, <2>2, <3>1, <3>2, <3>3, <3>4, <3>5 DEF CrossrefTyped
    <3>7. QED
      BY <2>2, <2>5, <2>6, <3>6 DEF AgenciesInit, CrossrefInv
  <2>8. followed = "DataCite" => DataciteInv
    <3>1. DataciteTyped
      BY <2>1, <2>2 DEF AgenciesInit, DataciteInit, DataciteTyped, Unregistered
    <3>2. QED
      BY <2>1, <2>2, <2>5, <2>6, <3>1 DEF AgenciesInit, DataciteInv, Rows
  <2>9. QED
    BY <2>7, <2>8 DEF AgenciesInit
<1>2. (CrossrefInv \/ DataciteInv) /\ [AgenciesNext]_agenciesVars => (CrossrefInv \/ DataciteInv)'
  BY CrossrefStep, DataciteStep
<1>3. QED
  BY <1>1, <1>2, PTL DEF AgenciesSpec

\* When the row of a Crossref DOI's last operation says that it was registered,
\* Crossref did register it and the identifier says so too: the daemon tells the
\* identifier before it saves the row, and no other task of the DOI is under way.
THEOREM OutcomeTold == AgenciesSpec => []OutcomeReachesIdentifier
<1>1. CrossrefInv \/ DataciteInv => OutcomeReachesIdentifier
  BY DEF CrossrefInv, DataciteInv, OutcomeReachesIdentifier, Told, Registered
<1>2. QED
  BY <1>1, AgenciesInductive, PTL

\* When the last operation on a DOI has succeeded, DataCite has its metadata and its
\* target, and lists it if it is public, wherever the daemon ended between the calls
\* and the two saves of the row, and although a row that is gone counts as a success.
THEOREM DataciteReached == AgenciesSpec => []DataciteHasNewest
<1>1. CrossrefInv \/ DataciteInv => DataciteHasNewest
  <2>1. CASE CrossrefInv
    BY <2>1 DEF CrossrefInv, DataciteHasNewest
  <2>2. ASSUME DataciteInv, NEW id \in DataciteDois \ crowded, Succeeded(id)
        PROVE  /\ remote[id].metadata = Newest(id)
               /\ remote[id].target = Newest(id)
               /\ remote[id].listed
    <3> DEFINE s == Newest(id)
    <3>1. Exists(id) /\ s \notin ignored /\ (s \notin DOMAIN queue \/ queue[s] = "SUCCESS")
      BY <2>2 DEF Succeeded, Rows
    <3>2. Complete(id, s)
      BY <2>2, <3>1 DEF DataciteInv, Reached
    <3> HIDE DEF s
    <3>3. remote[id].metadata = s /\ remote[id].target = s /\ remote[id].listed
      BY <3>2 DEF Complete
    <3>4. QED
      BY <3>3 DEF s
  <2>3. QED
    BY <2>1, <2>2 DEF DataciteHasNewest
<1>2. QED
  BY <1>1, AgenciesInductive, PTL

\* Whichever queue is followed, its rows have their snapshots, its daemon's copies
\* are open, and what the agency has comes from tasks there are.
THEOREM AgenciesTyped == AgenciesSpec => []AgenciesTypeOK
<1>1. CrossrefInv => AgenciesTypeOK
  <2> SUFFICES ASSUME CrossrefInv PROVE AgenciesTypeOK
    OBVIOUS
  <2>1. QueueTypeOK /\ Len(tasks) \in Nat
    <3>1. tasks \in Seq([identifier : Identifiers, operation : Operations])
      BY DEF CrossrefInv, Queued, QueueTyped, QueueTypeOK
    <3>2. QED
      BY <3>1, LenProperties DEF CrossrefInv, Queued, QueueTyped
  <2>2. Range(deposits) \subseteq DepositStates
    BY RangeOfSeq DEF CrossrefInv, CrossrefTyped
  <2>3. CrossrefTypeOK
    BY <2>2 DEF CrossrefInv, CrossrefTyped, CrossrefTypeOK
  <2>4. remote = [id \in Identifiers |-> Unregistered] /\ standing = <<>> /\ progress = "ready"
    BY DEF CrossrefInv, DataciteInit
  <2>5. Unregistered \in [metadata : 0..Len(tasks), target : 0..Len(tasks), listed : BOOLEAN]
    BY <2>1 DEF Unregistered
  <2>6. Range(standing) = {}
    BY <2>4 DEF Range
  <2>7. DataciteTypeOK
    BY <2>4, <2>5, <2>6 DEF DataciteTypeOK
  <2>8. QED
    BY <2>1, <2>3, <2>7 DEF AgenciesTypeOK
<1>2. DataciteInv => AgenciesTypeOK
  <2> SUFFICES ASSUME DataciteInv PROVE AgenciesTypeOK
    OBVIOUS
  <2>1. Range(standing) \subseteq Standings
    BY RangeOfSeq DEF DataciteInv, DataciteTyped
  <2>2. DataciteTypeOK
    BY <2>1 DEF DataciteInv, DataciteTyped, DataciteTypeOK
  <2>3. deposits = <<>> /\ held = <<>> /\ step = "ready" /\ verdict = "UNSUBMITTED"
    BY DEF DataciteInv, CrossrefInit
  <2>4. shown \in [Identifiers -> Outcomes \union {"", "SUBMITTED"}]
    BY DEF DataciteInv, CrossrefInit
  <2>5. Len(deposits) = 0 /\ Range(deposits) = {} /\ DOMAIN held = {}
    BY <2>3 DEF Range
  <2>6. CrossrefTypeOK
    BY <2>3, <2>4, <2>5 DEF CrossrefTypeOK, Statuses
  <2>7. QED
    BY <2>2, <2>6 DEF AgenciesTypeOK, DataciteInv, Queued, QueueTyped
<1>3. QED
  BY <1>1, <1>2, AgenciesInductive, PTL
=============================================================================
