--------------------------- MODULE ReadingProofs ---------------------------
(***************************************************************************)
(* What the readings and walks of the service promise, for any number of   *)
(* rows, batches, requests and restarts: an export, a batch of model       *)
(* scores and an indexer pass nothing over, an account stays within its    *)
(* limits, and a finished recalculation has reached every passport.        *)
(***************************************************************************)
EXTENDS Exports, MetadataSync, LegacyIndexer, BatchScoring, Communities, Rescoring,
        Pagination, Histories, FiniteSetTheorems, WellFoundedInduction, TLAPS

-----------------------------------------------------------------------------
(***************************************************************************)
(* The least and the greatest of a set of numbers, and the oldest rows.    *)
(***************************************************************************)
(* A set of numbers has a least one: the intervals below them are finite.  *)
LEMMA LeastNumber ==
  ASSUME NEW S \in SUBSET Nat, S # {}
  PROVE  \E m \in S : \A n \in S : m <= n
<1> DEFINE T == {1..m : m \in S}
<1>1. T \in SUBSET FiniteSubsetsOf(Nat) /\ T # {}
  <2>1. \A m \in S : 1..m \in SUBSET Nat /\ IsFiniteSet(1..m)
    BY FS_Interval
  <2> QED BY <2>1 DEF FiniteSubsetsOf
<1>2. PICK x \in T : \A y \in T : <<y, x>> \notin StrictSubsetOrdering(Nat)
  BY <1>1, FS_StrictSubsetOrderingWellFounded, WFMin
<1>3. PICK m \in S : x = 1..m
  OBVIOUS
<1>4. ASSUME NEW n \in S, n < m PROVE FALSE
  <2>1. 1..n \subseteq 1..m /\ m \in 1..m /\ m \notin 1..n
    BY <1>4
  <2>2. <<1..n, x>> \in StrictSubsetOrdering(Nat)
    BY <2>1, <1>3 DEF StrictSubsetOrdering
  <2> QED BY <2>2, <1>2
<1> QED BY <1>4

(* And a greatest one, when they have a bound.                             *)
LEMMA GreatestNumber ==
  ASSUME NEW N \in Nat, NEW S \in SUBSET (0..N), S # {}
  PROVE  \E m \in S : \A n \in S : n <= m
<1> DEFINE D == {N - i : i \in S}
<1>1. D \in SUBSET Nat /\ D # {}
  <2>1. \A i \in S : N - i \in Nat
    OBVIOUS
  <2> QED BY <2>1
<1>2. PICK d \in D : \A e \in D : d <= e
  BY <1>1, LeastNumber
<1>3. PICK m \in S : d = N - m
  OBVIOUS
<1>4. ASSUME NEW n \in S PROVE n <= m
  <2>1. N - m <= N - n
    BY <1>2, <1>3
  <2> QED BY <2>1
<1> QED BY <1>4

(* The first n of some ids, when there are any, are some of them, and no   *)
(* id before one of them is left out.                                      *)
LEMMA FirstOnes ==
  ASSUME NEW N \in Nat, NEW S \in SUBSET (0..N), NEW n \in Nat \ {0}
  PROVE  /\ FirstOf(S, n) \subseteq S
         /\ S # {} => FirstOf(S, n) # {}
         /\ \A i \in FirstOf(S, n) : \A j \in S : j <= i => j \in FirstOf(S, n)
<1> DEFINE Upto(i) == {j \in S : j <= i}
<1>1. IsFiniteSet(S)
  <2>1. IsFiniteSet(0..N)
    BY FS_Interval
  <2> QED BY <2>1, FS_Subset
<1>2. S \in SUBSET Nat
  OBVIOUS
<1>3. \A i \in S : IsFiniteSet(Upto(i)) /\ Cardinality(Upto(i)) \in Nat
  <2>1. \A i \in S : Upto(i) \subseteq S
    OBVIOUS
  <2> HIDE DEF Upto
  <2> QED BY <1>1, <2>1, FS_Subset, FS_CardinalityType
<1>4. ASSUME S # {} PROVE FirstOf(S, n) # {}
  <2>1. PICK m \in S : \A k \in S : m <= k
    BY <1>2, <1>4, LeastNumber
  <2>2. Upto(m) = {m}
    <3>1. \A k \in S : k <= m => k = m
      BY <1>2, <2>1
    <3>2. m <= m
      BY <1>2
    <3> QED BY <3>1, <3>2
  <2>3. Cardinality(Upto(m)) <= n
    <3>1. Cardinality(Upto(m)) = 1
      BY <2>2, FS_Singleton
    <3> QED BY <3>1
  <2> QED BY <2>3 DEF FirstOf
<1>5. ASSUME NEW i \in FirstOf(S, n), NEW j \in S, j <= i PROVE j \in FirstOf(S, n)
  <2>1. i \in S /\ Cardinality(Upto(i)) <= n
    BY DEF FirstOf
  <2>2. Upto(j) \subseteq Upto(i)
    <3>1. \A k \in S : k <= j => k <= i
      BY <1>2, <1>5, <2>1
    <3> QED BY <3>1
  <2>3. Cardinality(Upto(j)) <= Cardinality(Upto(i))
    <3> HIDE DEF Upto
    <3> QED BY <1>3, <2>1, <2>2, FS_Subset
  <2>4. Cardinality(Upto(j)) <= n
    <3>1. Cardinality(Upto(j)) \in Nat /\ Cardinality(Upto(i)) \in Nat
      BY <1>3, <2>1
    <3> HIDE DEF Upto
    <3> QED BY <2>1, <2>3, <3>1
  <2> QED BY <2>4 DEF FirstOf
<1> QED BY <1>4, <1>5 DEF FirstOf

-----------------------------------------------------------------------------
(***************************************************************************)
(* Exports: the dumps of tables, read by id in batches.                    *)
(***************************************************************************)
ExportSpec == ExportInit /\ [][ExportNext]_exportVars

(* The tables are numbered in their order, and a batch has room.           *)
ExportConstants ==
  /\ \E n \in Nat \ {0} : Tables = 1..n
  /\ LastId \in Nat /\ LastId >= 3
  /\ BatchRows \in Nat \ {0}

ExportTypes ==
  /\ table \in [Tables -> SUBSET IdsOf]
  /\ used \in [Tables -> SUBSET IdsOf]
  /\ export \in [step : {"over", "read", "upload"}, at : {0} \cup Tables,
                 last : {0} \cup IdsOf]
  /\ file \in [rows : SUBSET IdsOf, twice : SUBSET IdsOf]
  /\ bucket \in [Tables -> {"none", "whole", "partial"}]
  /\ steady \in SUBSET IdsOf

(* The file of the table that is read has the rows up to the last id that  *)
(* have been there all the while, and none of those that come.             *)
ReadUpTo(last) ==
  /\ steady \subseteq table[export.at]
  /\ \A i \in file.rows : i <= last
  /\ \A i \in steady : i <= last => i \in file.rows
  /\ file.twice = {}

ExportInv ==
  /\ ExportTypes
  /\ ObjectsAreWhole
  /\ export.step # "over" => export.at \in Tables /\ ReadUpTo(export.last)
  /\ export.step = "upload" => steady \subseteq file.rows

(* The tables hold ids alone, and the first one is there.                  *)
LEMMA TablesType ==
  ASSUME ExportConstants
  PROVE  1 \in Tables /\ 0 \notin Tables /\ Tables \subseteq Nat
BY DEF ExportConstants

(* Wherever it goes on, with the next table or at the end, the run leaves  *)
(* nothing behind.                                                         *)
LEMMA NextTableInv ==
  ASSUME ExportConstants, ExportInv,
         \/ \E t \in Tables : StartTable(t)
         \/ EndExport,
         UNCHANGED <<table, used>>,
         bucket' \in [Tables -> {"none", "whole", "partial"}],
         ObjectsAreWhole'
  PROVE  ExportInv'
<1>1. CASE \E t \in Tables : StartTable(t)
  <2>1. PICK t \in Tables : StartTable(t)
    BY <1>1
  <2>2. t \in Nat /\ table[t] \in SUBSET IdsOf
    BY TablesType DEF ExportInv, ExportTypes
  <2>3. ExportTypes'
    BY <2>1, <2>2 DEF ExportInv, ExportTypes, StartTable, NewFile
  <2>4. ReadUpTo(export.last)' /\ export'.step = "read" /\ export'.at \in Tables
    BY <2>1, <2>2 DEF ReadUpTo, StartTable, NewFile, IdsOf
  <2> QED BY <2>3, <2>4 DEF ExportInv
<1>2. CASE EndExport
  BY <1>2 DEF ExportInv, ExportTypes, EndExport, NoExport, NewFile
<1> QED BY <1>1, <1>2

(* The loop over the models takes one that is there, or ends.              *)
LEMMA NextTableThere ==
  ASSUME NextTable
  PROVE  (\E t \in Tables : StartTable(t)) \/ EndExport
BY DEF NextTable

(* A batch is read by id: what it leaves out is before or behind it.       *)
LEMMA ReadRowsInv ==
  ASSUME ExportConstants, ExportInv, ReadRows
  PROVE  ExportInv'
<1> DEFINE rest == {i \in table[export.at] : i > export.last}
           batch == FirstRows(rest)
<1>1. /\ export.step = "read" /\ export.at \in Tables
      /\ ReadUpTo(export.last)
      /\ table[export.at] \in SUBSET IdsOf
      /\ export.last \in {0} \cup IdsOf
      /\ LastId \in Nat
    BY DEF ReadRows, WriteBatch, ExportInv, ExportTypes, ExportConstants
<1>2. rest \in SUBSET (0..LastId) /\ rest \in SUBSET IdsOf
  BY <1>1 DEF IdsOf
<1>3. /\ batch \subseteq rest
      /\ rest # {} => batch # {}
      /\ \A i \in batch : \A j \in rest : j <= i => j \in batch
  <2>1. BatchRows \in Nat \ {0}
    BY DEF ExportConstants
  <2>2. batch = FirstOf(rest, BatchRows)
    BY DEF FirstRows, FirstOf
  <2> HIDE DEF rest, batch
  <2> QED BY <1>1, <1>2, <2>1, <2>2, FirstOnes
<1>4. UNCHANGED <<table, used, bucket, steady>>
  BY DEF ReadRows, WriteBatch
<1>5. ObjectsAreWhole'
  BY <1>4 DEF ExportInv, ObjectsAreWhole
<1>6. CASE batch = {}
  <2>1. export' = [export EXCEPT !.step = "upload"] /\ file' = file
    BY <1>6 DEF ReadRows, WriteBatch
  <2>2. ExportTypes'
    BY <1>4, <2>1 DEF ExportInv, ExportTypes
  <2>3. export'.at = export.at /\ export'.last = export.last
    BY <2>1 DEF ExportInv, ExportTypes
  <2>4. ReadUpTo(export.last)'
    BY <1>1, <1>4, <2>1, <2>3 DEF ReadUpTo
  <2>5. steady \subseteq file.rows
    <3>1. \A i \in table[export.at] : ~(i > export.last)
      BY <1>3, <1>6
    <3> QED BY <1>1, <3>1 DEF ReadUpTo, IdsOf
  <2> QED BY <1>1, <1>4, <1>5, <2>1, <2>2, <2>3, <2>4, <2>5 DEF ExportInv
<1>7. CASE batch # {}
  <2> DEFINE last == CHOOSE i \in batch : \A j \in batch : j <= i
  <2>1. /\ export' = [export EXCEPT !.last = last]
        /\ file' = [rows |-> file.rows \cup batch,
                    twice |-> file.twice \cup (file.rows \cap batch)]
    BY <1>7 DEF ReadRows, WriteBatch
  <2>2. last \in batch /\ \A j \in batch : j <= last
    <3>1. batch \in SUBSET (0..LastId)
      BY <1>2, <1>3
    <3>2. \E i \in batch : \A j \in batch : j <= i
      <4> HIDE DEF batch
      <4> QED BY <1>1, <1>7, <3>1, GreatestNumber
    <3> HIDE DEF batch
    <3> QED BY <3>2
  <2> HIDE DEF last, batch
  <2>3. last \in IdsOf /\ last > export.last /\ last \in table[export.at]
    BY <1>2, <1>3, <2>2
  <2>4. ExportTypes'
    BY <1>2, <1>3, <1>4, <2>1, <2>3 DEF ExportInv, ExportTypes
  <2>5. /\ export'.at = export.at /\ export'.last = last
        /\ export'.step = "read"
        /\ file'.rows = file.rows \cup batch
        /\ file'.twice = file.twice \cup (file.rows \cap batch)
    BY <1>1, <2>1 DEF ExportInv, ExportTypes
  <2>6. file.rows \cap batch = {}
    BY <1>1, <1>2, <1>3 DEF ReadUpTo, IdsOf
  <2>7. \A i \in file.rows \cup batch : i <= last
    <3>1. \A i \in file.rows : i <= export.last /\ i \in Int
      BY <1>1 DEF ReadUpTo, ExportInv, ExportTypes, IdsOf
    <3>2. last \in Int /\ export.last \in Int
      BY <1>1, <2>3 DEF IdsOf
    <3>3. \A i \in file.rows : i <= last
      BY <2>3, <3>1, <3>2
    <3> QED BY <2>2, <3>3
  <2>8. ASSUME NEW i \in steady, i <= last PROVE i \in file.rows \cup batch
    <3>1. i \in table[export.at] /\ (i <= export.last => i \in file.rows)
      BY <1>1 DEF ReadUpTo
    <3>2. CASE i <= export.last
      BY <3>1, <3>2
    <3>3. CASE ~(i <= export.last)
      <4>1. i \in rest
        BY <1>1, <3>1, <3>3 DEF IdsOf
      <4> QED BY <1>3, <2>2, <2>8, <4>1
    <3> QED BY <3>2, <3>3
  <2>9. ReadUpTo(export.last)'
    BY <1>1, <1>4, <2>5, <2>6, <2>7, <2>8 DEF ReadUpTo
  <2> QED BY <1>1, <1>5, <2>4, <2>5, <2>9 DEF ExportInv
<1> QED BY <1>6, <1>7

(* What is there at the start has been exported to nowhere.                *)
LEMMA ExportInitInv ==
  ASSUME ExportConstants, ExportInit
  PROVE  ExportInv
BY TablesType DEF ExportConstants, ExportInit, ExportInv, ExportTypes, NoExport,
                  NewFile, ObjectsAreWhole, IdsOf

(* A step of the run, or of those who add and remove rows.                 *)
LEMMA ExportStepInv ==
  ASSUME ExportConstants, ExportInv, [ExportNext]_exportVars
  PROVE  ExportInv'
<1>1. CASE AddRow
  <2>1. PICK t \in Tables, i \in IdsOf :
          /\ table' = [table EXCEPT ![t] = @ \cup {i}]
          /\ used' = [used EXCEPT ![t] = @ \cup {i}]
          /\ UNCHANGED <<export, file, bucket, steady>>
    BY <1>1 DEF AddRow
  <2>2. ExportTypes' /\ \A u \in Tables : table[u] \subseteq table'[u]
    BY <2>1 DEF ExportInv, ExportTypes
  <2> QED BY <2>1, <2>2 DEF ExportInv, ReadUpTo, ObjectsAreWhole
<1>2. CASE RemoveRow
  <2>1. PICK t \in Tables : \E i \in table[t] :
          /\ table' = [table EXCEPT ![t] = @ \ {i}]
          /\ steady' = IF export.at = t THEN steady \ {i} ELSE steady
          /\ UNCHANGED <<used, export, file, bucket>>
    BY <1>2 DEF RemoveRow
  <2>2. ExportTypes'
    BY <2>1 DEF ExportInv, ExportTypes
  <2>3. /\ steady' \subseteq steady
        /\ export.at \in Tables /\ steady \subseteq table[export.at] =>
             steady' \subseteq table'[export.at]
    BY <2>1 DEF ExportInv, ExportTypes
  <2> QED BY <2>1, <2>2, <2>3 DEF ExportInv, ReadUpTo, ObjectsAreWhole
<1>3. CASE StartExport
  BY <1>3, TablesType, NextTableInv DEF StartExport, ExportInv, ExportTypes,
                                        ObjectsAreWhole
<1>4. CASE ReadRows
  BY <1>4, ReadRowsInv
<1>5. CASE Upload
  <2>1. /\ export.step = "upload" /\ export.at \in Tables
        /\ steady \subseteq file.rows /\ file.twice = {}
        /\ bucket \in [Tables -> {"none", "whole", "partial"}]
    BY <1>5 DEF Upload, ExportInv, ReadUpTo, ExportTypes
  <2>2. bucket' = [bucket EXCEPT ![export.at] = "whole"]
    BY <1>5, <2>1 DEF Upload
  <2>3. ObjectsAreWhole' /\ bucket' \in [Tables -> {"none", "whole", "partial"}]
    BY <2>1, <2>2 DEF ExportInv, ObjectsAreWhole
  <2> QED BY <1>5, <2>3, NextTableThere, NextTableInv DEF Upload
<1>6. CASE TableFails
  BY <1>6, NextTableThere, NextTableInv DEF TableFails, ExportInv, ExportTypes,
                                            ObjectsAreWhole
<1>7. CASE RunDies
  BY <1>7, NextTableInv DEF RunDies, ExportInv, ExportTypes, ObjectsAreWhole
<1>8. CASE UNCHANGED exportVars
  BY <1>8 DEF exportVars, ExportInv, ExportTypes, ReadUpTo, ObjectsAreWhole
<1> QED BY <1>1, <1>2, <1>3, <1>4, <1>5, <1>6, <1>7, <1>8 DEF ExportNext

(* The invariant of the dumps holds in every reachable state, for any      *)
(* number of tables and rows and batches of any size.                      *)
THEOREM ExportInvariance ==
  ASSUME ExportConstants
  PROVE  ExportSpec => []ExportInv
<1>1. ExportInit => ExportInv
  BY ExportInitInv
<1>2. ExportInv /\ [ExportNext]_exportVars => ExportInv'
  BY ExportStepInv
<1> QED BY <1>1, <1>2, PTL DEF ExportSpec

(* What is in the bucket has each row that was there all the while its     *)
(* table was read, and none twice.                                         *)
THEOREM ObjectsTheorem ==
  ASSUME ExportConstants
  PROVE  ExportSpec => []ObjectsAreWhole
<1>1. ExportInv => ObjectsAreWhole
  BY DEF ExportInv
<1> QED BY <1>1, ExportInvariance, PTL

-----------------------------------------------------------------------------
(***************************************************************************)
(* BatchScoring: the tasks that walk through the items of a request.       *)
(***************************************************************************)
BatchSpec == BatchInit /\ [][BatchNext]_batchVars

(* A batch has room.                                                       *)
BatchConstants == LastItem \in Nat /\ BatchSize \in Nat \ {0}

ItemStatus == {"absent", "PENDING", "DONE", "ERROR"}
RequestStatus == {"PENDING", "DONE", "ERROR"}
TaskRecord ==
  [step : Steps, action : {"score", "score_errors", "score_all"},
   last : 0..LastItem, batch : SUBSET Items]

BatchTypes ==
  /\ items \in [Items -> ItemStatus]
  /\ trigger \in {0} \cup Tasks
  /\ status \in RequestStatus
  /\ admin \in {"none"} \cup RequestStatus
  /\ task \in [Tasks -> TaskRecord]
  /\ walked \in [Tasks -> SUBSET Items]
  /\ untried \in SUBSET Items

(* The cursor of a task x is behind no item that it is done with or reads. *)
Walks(x, done) ==
  /\ \A i \in done \cup x.batch : i <= x.last
  /\ x.batch \cap done = {}
  /\ x.step \in {"new", "started", "items", "reset", "save"} => x.last = 0

(* A task x has the item i still before it.                                *)
Owes(x, i) ==
  /\ x.step \in {"reset", "save", "batch", "score", "progress"}
  /\ i > x.last \/ (x.step = "score" /\ i \in x.batch)

Waits(i) == i \notin Invalid /\ items[i] = "PENDING" /\ i \notin untried

BatchInv ==
  /\ BatchTypes
  /\ \A t \in Tasks : Walks(task[t], walked[t])
  /\ \A i \in Items : Waits(i) => \E t \in Tasks : Owes(task[t], i)

(* No task drops an item that waits, and none but t has moved.             *)
Moves(t, x, done) ==
  /\ x \in TaskRecord /\ done \in SUBSET Items
  /\ Walks(x, done)
  /\ task' = [task EXCEPT ![t] = x]
  /\ walked' = [walked EXCEPT ![t] = done]
  /\ items' \in [Items -> ItemStatus]
  /\ trigger' \in {0} \cup Tasks
  /\ status' \in RequestStatus
  /\ admin' \in {"none"} \cup RequestStatus
  /\ untried' \in SUBSET Items
  /\ \A i \in Items : Waits(i)' =>
       Owes(x, i) \/ (Waits(i) /\ ~Owes(task[t], i))

(* A task that moves on keeps the invariant.                               *)
LEMMA MovesInv ==
  ASSUME BatchInv, NEW t \in Tasks, NEW x, NEW done, Moves(t, x, done)
  PROVE  BatchInv'
<1>1. BatchTypes'
  BY DEF BatchInv, BatchTypes, Moves
<1>2. /\ task'[t] = x /\ walked'[t] = done
      /\ \A u \in Tasks \ {t} : task'[u] = task[u] /\ walked'[u] = walked[u]
  BY DEF BatchInv, BatchTypes, Moves
<1>3. ASSUME NEW u \in Tasks PROVE Walks(task[u], walked[u])'
  <2>1. CASE u = t
    BY <1>2, <2>1 DEF Moves, Walks
  <2>2. CASE u # t
    BY <1>2, <2>2 DEF BatchInv, Walks
  <2> QED BY <2>1, <2>2
<1>4. ASSUME NEW i \in Items, Waits(i)'
      PROVE  \E u \in Tasks : Owes(task'[u], i)
  <2>1. CASE Owes(x, i)
    BY <1>2, <2>1
  <2>2. CASE Waits(i) /\ ~Owes(task[t], i)
    <3>1. PICK u \in Tasks : Owes(task[u], i)
      BY <2>2 DEF BatchInv
    <3> QED BY <1>2, <2>2, <3>1
  <2> QED BY <1>4, <2>1, <2>2 DEF Moves
<1>5. \A i \in Items : Waits(i)' => (\E u \in Tasks : Owes(task[u], i))'
  BY <1>4 DEF Owes
<1> QED BY <1>1, <1>3, <1>5 DEF BatchInv

(* What a task has read of the invariant.                                  *)
LEMMA TaskType ==
  ASSUME BatchInv, NEW t \in Tasks
  PROVE  /\ task[t] \in TaskRecord /\ walked[t] \in SUBSET Items
         /\ Walks(task[t], walked[t])
         /\ walked = [walked EXCEPT ![t] = walked[t]]
BY DEF BatchInv, BatchTypes

(* A step from one place in the task to the next one.                      *)
LEMMA StepTo ==
  ASSUME BatchInv, NEW t \in Tasks, NEW to \in Steps,
         to \in {"new", "started", "items", "reset", "save"} =>
           task[t].last = 0
  PROVE  LET x == [task[t] EXCEPT !.step = to] IN
         /\ x \in TaskRecord /\ Walks(x, walked[t])
         /\ x.step = to /\ x.last = task[t].last /\ x.batch = task[t].batch
<1> DEFINE x == [task[t] EXCEPT !.step = to]
<1>1. x \in TaskRecord
  BY TaskType DEF TaskRecord
<1>2. x.step = to /\ x.last = task[t].last /\ x.batch = task[t].batch
  BY TaskType DEF TaskRecord
<1>3. Walks(x, walked[t])
  <2> HIDE DEF x
  <2> QED BY <1>2, TaskType DEF Walks
<1> QED BY <1>1, <1>2, <1>3

(* Items that wait stay with those that owe them, where only the step of a *)
(* task changes and it owes what it owed.                                  *)
LEMMA KeepsWaiting ==
  ASSUME BatchInv, NEW t \in Tasks, NEW from, NEW to \in Steps,
         To(t, from, to),
         UNCHANGED <<items, walked>>,
         untried \subseteq untried', untried' \in SUBSET Items,
         to \in {"new", "started", "items", "reset", "save"} =>
           task[t].last = 0,
         \A i \in Items : Owes(task[t], i) /\ i \notin untried' =>
           to \in {"reset", "save", "batch", "progress"} /\ i > task[t].last,
         trigger' \in {0} \cup Tasks,
         status' \in RequestStatus,
         admin' \in {"none"} \cup RequestStatus
  PROVE  BatchInv'
<1> DEFINE x == [task[t] EXCEPT !.step = to]
<1>1. /\ x \in TaskRecord /\ Walks(x, walked[t])
      /\ x.step = to /\ x.last = task[t].last
  BY StepTo
<1>2. task' = [task EXCEPT ![t] = x]
  BY DEF To
<1>3. \A i \in Items : Waits(i)' => Waits(i) /\ i \notin untried'
  BY DEF Waits
<1> HIDE DEF x
<1>4. ASSUME NEW i \in Items, Waits(i)'
      PROVE  Owes(x, i) \/ (Waits(i) /\ ~Owes(task[t], i))
  BY <1>1, <1>3, <1>4 DEF Owes
<1>5. /\ walked' = [walked EXCEPT ![t] = walked[t]]
      /\ walked[t] \in SUBSET Items
      /\ items' \in [Items -> ItemStatus]
  BY TaskType DEF BatchInv, BatchTypes
<1>6. Moves(t, x, walked[t])
  BY <1>1, <1>2, <1>4, <1>5 DEF Moves
<1> QED BY <1>6, MovesInv

(* The items a task makes PENDING are all before it.                       *)
LEMMA PendingItems ==
  ASSUME BatchConstants, BatchInv, NEW t \in Tasks,
         NEW from \in {"items", "reset"}, NEW to \in {"reset", "save"},
         To(t, from, to), items' \in [Items -> ItemStatus],
         UNCHANGED <<trigger, status, admin, walked, untried>>
  PROVE  BatchInv'
<1> DEFINE x == [task[t] EXCEPT !.step = to]
<1>1. task[t].step = from /\ task[t].last = 0
  BY TaskType DEF To, Walks
<1>2. /\ x \in TaskRecord /\ Walks(x, walked[t])
      /\ x.step = to /\ x.last = 0
  <2>1. to \in Steps
    BY DEF Steps
  <2> QED BY <1>1, <2>1, StepTo
<1>3. task' = [task EXCEPT ![t] = x]
  BY DEF To
<1> HIDE DEF x
<1>4. \A i \in Items : Owes(x, i)
  BY <1>2 DEF Owes, Items, BatchConstants
<1>5. /\ walked' = [walked EXCEPT ![t] = walked[t]]
      /\ walked[t] \in SUBSET Items
  BY TaskType
<1>6. Moves(t, x, walked[t])
  BY <1>2, <1>3, <1>4, <1>5 DEF Moves, BatchInv, BatchTypes
<1> QED BY <1>6, MovesInv

(* A task that leaves a batch, which is scored or untried.                 *)
LEMMA LeavesBatch ==
  ASSUME BatchInv, NEW t \in Tasks, NEW from \in {"score", "progress"},
         NextBatch(t, from), UNCHANGED <<items, admin>>,
         untried \subseteq untried', untried' \in SUBSET Items,
         from = "score" => task[t].batch \subseteq untried',
         trigger' \in {0} \cup Tasks,
         status' \in RequestStatus
  PROVE  BatchInv'
<1> DEFINE x == [task[t] EXCEPT !.step = "batch", !.batch = {}]
           done == walked[t] \cup task[t].batch
<1>1. task[t] \in TaskRecord /\ walked[t] \in SUBSET Items
      /\ Walks(task[t], walked[t])
  BY TaskType
<1>2. /\ x \in TaskRecord
      /\ x.step = "batch" /\ x.last = task[t].last /\ x.batch = {}
  BY <1>1 DEF TaskRecord, Steps
<1>3. /\ task[t].step = from
      /\ task' = [task EXCEPT ![t] = x]
      /\ walked' = [walked EXCEPT ![t] = done]
  BY DEF NextBatch
<1>4. done \in SUBSET Items
  BY <1>1 DEF TaskRecord
<1> HIDE DEF x
<1>5. Walks(x, done)
  BY <1>1, <1>2 DEF Walks
<1>6. ASSUME NEW i \in Items, Waits(i)'
      PROVE  Owes(x, i) \/ (Waits(i) /\ ~Owes(task[t], i))
  <2>1. Waits(i) /\ i \notin untried'
    BY <1>6 DEF Waits
  <2> QED BY <1>2, <1>3, <2>1 DEF Owes
<1>7. Moves(t, x, done)
  BY <1>2, <1>3, <1>4, <1>5, <1>6 DEF Moves, BatchInv, BatchTypes
<1> QED BY <1>7, MovesInv

(* A batch is read past the cursor, and leaves out nothing before its end. *)
LEMMA ReadBatchInv ==
  ASSUME BatchConstants, BatchInv, NEW t \in Tasks, ReadBatch(t)
  PROVE  BatchInv'
<1> DEFINE rest == {i \in Pending : i > task[t].last}
           batch == FirstOf(rest, BatchSize)
           end == CHOOSE i \in batch : \A j \in batch : j <= i
           last == IF batch = {} THEN task[t].last ELSE end
           step == IF batch = {} THEN "results" ELSE "score"
           x == [task[t] EXCEPT !.step = step, !.batch = batch, !.last = last]
<1>1. /\ task[t] \in TaskRecord /\ walked[t] \in SUBSET Items
      /\ Walks(task[t], walked[t])
      /\ task[t].step = "batch" /\ task[t].last \in 0..LastItem
      /\ LastItem \in Nat
      /\ UNCHANGED <<items, trigger, status, admin, walked, untried>>
  BY TaskType DEF TaskRecord, BatchConstants, ReadBatch, ReadBatchOf
<1>2. task' = [task EXCEPT ![t] = x]
  <2>1. task' = [task EXCEPT ![t].step = step, ![t].batch = batch,
                             ![t].last = IF batch = {} THEN @ ELSE end]
    BY DEF ReadBatch, ReadBatchOf
  <2> HIDE DEF batch, end
  <2> QED BY <1>1, <2>1 DEF BatchInv, BatchTypes, TaskRecord
<1>3. rest \in SUBSET Items /\ rest \in SUBSET (0..LastItem)
  BY DEF Pending, Items
<1>4. /\ batch \subseteq rest
      /\ rest # {} => batch # {}
      /\ \A i \in batch : \A j \in rest : j <= i => j \in batch
  <2>1. BatchSize \in Nat \ {0}
    BY DEF BatchConstants
  <2> HIDE DEF rest
  <2> QED BY <1>1, <1>3, <2>1, FirstOnes
<1>5. batch # {} => last \in batch /\ \A j \in batch : j <= last
  <2>1. SUFFICES ASSUME batch # {}
                 PROVE  \E i \in batch : \A j \in batch : j <= i
    OBVIOUS
  <2>2. batch \in SUBSET (0..LastItem)
    BY <1>3, <1>4
  <2> HIDE DEF batch
  <2> QED BY <1>1, <2>1, <2>2, GreatestNumber
<1>6. last \in 0..LastItem /\ last >= task[t].last
  BY <1>1, <1>3, <1>4, <1>5 DEF Items
<1>7. batch \in SUBSET Items
  BY <1>3, <1>4
<1> HIDE DEF batch, last
<1>8. /\ x \in TaskRecord
      /\ x.step = step /\ x.batch = batch /\ x.last = last
  BY <1>1, <1>6, <1>7 DEF TaskRecord, Steps
<1> HIDE DEF x
<1>9. Walks(x, walked[t])
  <2>1. \A i \in walked[t] : i <= task[t].last /\ i \in Int
    BY <1>1 DEF Walks, Items
  <2>2. \A i \in batch : i > task[t].last /\ i \in Int
    BY <1>3, <1>4 DEF Items
  <2>3. batch \cap walked[t] = {}
    BY <1>1, <2>1, <2>2
  <2>4. \A i \in walked[t] : i <= last
    BY <1>1, <1>6, <2>1
  <2>5. \A i \in batch : i <= last
    BY <1>5
  <2>6. step \notin {"new", "started", "items", "reset", "save"}
    OBVIOUS
  <2> HIDE DEF step
  <2> QED BY <1>8, <2>3, <2>4, <2>5, <2>6 DEF Walks
<1>10. ASSUME NEW i \in Items, Waits(i)'
       PROVE  Owes(x, i) \/ (Waits(i) /\ ~Owes(task[t], i))
  <2>1. Waits(i)
    BY <1>1, <1>10 DEF Waits
  <2>2. SUFFICES ASSUME Owes(task[t], i) PROVE Owes(x, i)
    BY <2>1
  <2>3. i \in rest
    BY <1>1, <2>1, <2>2 DEF Owes, Waits, Pending
  <2>4. batch # {} /\ x.step = "score"
    BY <1>4, <1>8, <2>3
  <2>5. i > last \/ i \in batch
    <3>1. CASE i <= last
      BY <1>4, <1>5, <2>3, <2>4, <3>1
    <3>2. i \in Int /\ last \in Int
      BY <1>6 DEF Items
    <3> QED BY <3>1, <3>2
  <2> QED BY <1>8, <2>4, <2>5 DEF Owes
<1>11. /\ walked' = [walked EXCEPT ![t] = walked[t]]
       /\ items' \in [Items -> ItemStatus]
  BY <1>1, TaskType DEF BatchInv, BatchTypes
<1>12. Moves(t, x, walked[t])
  BY <1>1, <1>2, <1>8, <1>9, <1>10, <1>11 DEF Moves, BatchInv, BatchTypes
<1> QED BY <1>12, MovesInv

(* What a batch scores is no longer PENDING, but for invalid addresses.    *)
LEMMA ScoreBatchInv ==
  ASSUME BatchInv, NEW t \in Tasks, ScoreBatch(t)
  PROVE  BatchInv'
<1> DEFINE x == [task[t] EXCEPT !.step = "progress"]
           batch == task[t].batch
<1>1. /\ task[t].step = "score" /\ batch \in SUBSET Items
      /\ task' = [task EXCEPT ![t] = x]
      /\ UNCHANGED <<trigger, status, admin, walked, untried>>
  BY TaskType DEF ScoreBatch, To, TaskRecord
<1>2. /\ x \in TaskRecord /\ Walks(x, walked[t])
      /\ x.step = "progress" /\ x.last = task[t].last
  BY StepTo DEF Steps
<1> HIDE DEF x
<1>3. PICK result \in Analyses(batch) :
        items' = [i \in Items |-> IF i \in batch THEN result[i] ELSE items[i]]
  BY DEF ScoreBatch
<1>4. /\ result \in [batch -> {"PENDING", "DONE", "ERROR"}]
      /\ \A i \in batch : result[i] = "PENDING" <=> i \in Invalid
  BY DEF Analyses
<1>5. items' \in [Items -> ItemStatus]
  BY <1>1, <1>3, <1>4 DEF BatchInv, BatchTypes, ItemStatus
<1>6. ASSUME NEW i \in Items, Waits(i)'
      PROVE  Owes(x, i) \/ (Waits(i) /\ ~Owes(task[t], i))
  <2>1. i \notin batch /\ Waits(i)
    BY <1>1, <1>3, <1>4, <1>6 DEF Waits
  <2> QED BY <1>1, <1>2, <2>1 DEF Owes
<1>7. /\ walked' = [walked EXCEPT ![t] = walked[t]]
      /\ walked[t] \in SUBSET Items
  BY <1>1, TaskType
<1>8. Moves(t, x, walked[t])
  BY <1>1, <1>2, <1>5, <1>6, <1>7 DEF Moves, BatchInv, BatchTypes
<1> QED BY <1>8, MovesInv

(* Nothing is PENDING before the first task.                               *)
LEMMA BatchInitInv ==
  ASSUME BatchConstants, BatchInit
  PROVE  BatchInv
BY DEF BatchConstants, BatchInit, BatchInv, BatchTypes, Walks, Waits, TaskRecord,
       Steps, ItemStatus, RequestStatus

(* A step of a task or of the administrator.                               *)
LEMMA BatchStepInv ==
  ASSUME BatchConstants, BatchInv, [BatchNext]_batchVars
  PROVE  BatchInv'
<1> USE DEF ItemStatus, RequestStatus
<1>1. CASE OpenRequest
  BY <1>1 DEF OpenRequest, BatchInv, BatchTypes, Waits, Owes, Walks
<1>2. ASSUME NEW t \in Tasks, SaveTrigger(t) PROVE BatchInv'
  <2>1. PICK a \in {"score", "score_errors", "score_all"} :
          task' = [task EXCEPT ![t].step = "started", ![t].action = a]
    BY <1>2 DEF SaveTrigger
  <2> DEFINE x == [task[t] EXCEPT !.step = "started", !.action = a]
  <2>2. /\ task[t] \in TaskRecord /\ walked[t] \in SUBSET Items
        /\ Walks(task[t], walked[t]) /\ task[t].step = "new"
    BY <1>2, TaskType DEF SaveTrigger
  <2>3. /\ x \in TaskRecord /\ x.step = "started"
        /\ x.last = task[t].last /\ x.batch = task[t].batch
    BY <2>2 DEF TaskRecord, Steps
  <2>4. task' = [task EXCEPT ![t] = x]
    BY <2>1
  <2> HIDE DEF x
  <2>5. Walks(x, walked[t])
    BY <2>2, <2>3 DEF Walks
  <2>6. /\ trigger' \in {0} \cup Tasks /\ status' \in RequestStatus
        /\ admin' = "none"
        /\ UNCHANGED <<items, walked, untried>>
    BY <1>2 DEF SaveTrigger, BatchInv, BatchTypes
  <2>7. \A i \in Items : Waits(i)' => Waits(i) /\ ~Owes(task[t], i)
    BY <2>2, <2>6 DEF Waits, Owes
  <2>8. Moves(t, x, walked[t])
    BY <2>2, <2>3, <2>4, <2>5, <2>6, <2>7, TaskType
       DEF Moves, BatchInv, BatchTypes
  <2> QED BY <2>8, MovesInv
<1>3. ASSUME NEW t \in Tasks, Lookup(t) PROVE BatchInv'
  <2> DEFINE to == IF trigger = t THEN "items" ELSE "over"
  <2>1. To(t, "started", to) /\ to \in {"items", "over"}
    BY <1>3 DEF Lookup
  <2>2. task[t].step = "started" /\ task[t].last = 0
    BY <2>1, TaskType DEF To, Walks
  <2>3. \A i \in Items : ~Owes(task[t], i)
    BY <2>2 DEF Owes
  <2>4. UNCHANGED <<items, trigger, status, admin, walked, untried>>
    BY <1>3 DEF Lookup
  <2> HIDE DEF to
  <2>5. to \in Steps
    BY <2>1 DEF Steps
  <2> QED BY <2>1, <2>2, <2>3, <2>4, <2>5, KeepsWaiting DEF BatchInv, BatchTypes
<1>4. ASSUME NEW t \in Tasks, CreateItems(t) PROVE BatchInv'
  <2>1. items' \in [Items -> ItemStatus]
    BY <1>4 DEF CreateItems, BatchInv, BatchTypes
  <2> QED BY <1>4, <2>1, PendingItems DEF CreateItems
<1>5. ASSUME NEW t \in Tasks, ResetItems(t) PROVE BatchInv'
  <2>1. items' \in [Items -> ItemStatus]
    BY <1>5 DEF ResetItems, BatchInv, BatchTypes
  <2> QED BY <1>5, <2>1, PendingItems DEF ResetItems
<1>6. ASSUME NEW t \in Tasks, SaveStart(t) PROVE BatchInv'
  <2>1. To(t, "save", "batch") /\ task[t].step = "save"
    BY <1>6 DEF SaveStart, To
  <2>2. /\ trigger' \in {0} \cup Tasks /\ status' \in RequestStatus
        /\ UNCHANGED <<items, admin, walked, untried>>
    BY <1>6 DEF SaveStart, SaveRequest
  <2>3. \A i \in Items : Owes(task[t], i) => i > task[t].last
    BY <2>1 DEF Owes
  <2> QED BY <2>1, <2>2, <2>3, KeepsWaiting DEF BatchInv, BatchTypes, Steps
<1>7. ASSUME NEW t \in Tasks, ReadBatch(t) PROVE BatchInv'
  BY <1>7, ReadBatchInv
<1>8. ASSUME NEW t \in Tasks, ScoreBatch(t) PROVE BatchInv'
  BY <1>8, ScoreBatchInv
<1>9. ASSUME NEW t \in Tasks, BatchFails(t) PROVE BatchInv'
  <2>1. task[t].batch \in SUBSET Items /\ untried \in SUBSET Items
    BY TaskType DEF TaskRecord, BatchInv, BatchTypes
  <2>2. UNCHANGED <<items, trigger, status, admin>>
    BY <1>9 DEF BatchFails
  <2>3. CASE NextBatch(t, "score") /\ untried' = untried \cup task[t].batch
    BY <2>1, <2>2, <2>3, LeavesBatch DEF BatchInv, BatchTypes
  <2>4. CASE NextBatch(t, "progress") /\ UNCHANGED untried
    BY <2>1, <2>2, <2>4, LeavesBatch DEF BatchInv, BatchTypes
  <2> QED BY <1>9, <2>3, <2>4 DEF BatchFails
<1>10. ASSUME NEW t \in Tasks, UpdateProgress(t) PROVE BatchInv'
  <2>1. /\ NextBatch(t, "progress") /\ UNCHANGED <<items, admin, untried>>
        /\ trigger' \in {0} \cup Tasks /\ status' \in RequestStatus
        /\ untried \in SUBSET Items
    BY <1>10 DEF UpdateProgress, SaveRequest, BatchInv, BatchTypes
  <2> QED BY <2>1, LeavesBatch
<1>11. ASSUME NEW t \in Tasks, SaveDone(t) PROVE BatchInv'
  <2>1. To(t, "results", "over") /\ task[t].step = "results"
    BY <1>11 DEF SaveDone, To
  <2>2. /\ trigger' \in {0} \cup Tasks /\ status' \in RequestStatus
        /\ UNCHANGED <<items, admin, walked, untried>>
    BY <1>11 DEF SaveDone, SaveRequest
  <2>3. \A i \in Items : ~Owes(task[t], i)
    BY <2>1 DEF Owes
  <2> QED BY <2>1, <2>2, <2>3, KeepsWaiting DEF BatchInv, BatchTypes, Steps
<1>12. ASSUME NEW t \in Tasks, TaskFails(t) \/ TaskDies(t) PROVE BatchInv'
  <2>1. /\ To(t, task[t].step, "over") /\ untried' = Items
        /\ trigger' \in {0} \cup Tasks /\ status' \in RequestStatus
        /\ UNCHANGED <<items, admin, walked>>
    BY <1>12 DEF TaskFails, TaskDies, SaveRequest, To, BatchInv, BatchTypes
  <2>2. untried \subseteq untried' /\ untried' \in SUBSET Items
    BY <2>1 DEF BatchInv, BatchTypes
  <2> QED BY <2>1, <2>2, KeepsWaiting DEF BatchInv, BatchTypes, Steps
<1>13. CASE UNCHANGED batchVars
  BY <1>13 DEF batchVars, BatchInv, BatchTypes, Walks, Waits, Owes
<1> QED BY <1>1, <1>2, <1>3, <1>4, <1>5, <1>6, <1>7, <1>8, <1>9, <1>10, <1>11,
           <1>12, <1>13 DEF BatchNext

(* The invariant of the tasks holds in every reachable state, for any      *)
(* number of tasks and items and batches of any size.                      *)
THEOREM BatchInvariance ==
  ASSUME BatchConstants
  PROVE  BatchSpec => []BatchInv
<1>1. BatchInit => BatchInv
  BY BatchInitInv
<1>2. BatchInv /\ [BatchNext]_batchVars => BatchInv'
  BY BatchStepInv
<1> QED BY <1>1, <1>2, PTL DEF BatchSpec

(* A task reads an item once, so that it ends, also when the triggers of   *)
(* others make items behind its cursor PENDING again.                      *)
THEOREM WalkTheorem ==
  ASSUME BatchConstants
  PROVE  BatchSpec => []TasksWalkOnce
<1>1. BatchInv => TasksWalkOnce
  BY DEF BatchInv, Walks, TasksWalkOnce
<1> QED BY <1>1, BatchInvariance, PTL

(* When no task runs, each valid address has been scored or has failed,    *)
(* but for those of failed batches and tasks.                              *)
THEOREM TriedTheorem ==
  ASSUME BatchConstants
  PROVE  BatchSpec => []DoneMeansTried
<1>1. BatchInv => DoneMeansTried
  BY DEF BatchInv, Waits, Owes, DoneMeansTried
<1> QED BY <1>1, BatchInvariance, PTL

-----------------------------------------------------------------------------
(***************************************************************************)
(* LegacyIndexer: the ranges of blocks that are marked as checked.         *)
(***************************************************************************)
LegacySpec == LegacyInit /\ [][LegacyNext]_legacyVars

(* A range has blocks.                                                     *)
LegacyConstants == Span \in Nat \ {0}

LegacyJob ==
  [step : {"start", "range", "insert", "watch", "ended"}, start : Nat,
   from : Nat, to : Nat, current : Nat, todo : SUBSET Nat, at : Int]

LegacyTypes ==
  /\ head \in Nat /\ checked \in Nat
  /\ stakes \in SUBSET (1..head)
  /\ job \in LegacyJob

(* The block b has its stake recorded, may be read no more, or has none    *)
(* and will have none.                                                     *)
Settled(b) ==
  (b \in stakes \/ b > head) => b \in recorded \cup failed \cup ahead

(* What is marked is settled, and so is what the job has behind it; what   *)
(* is in its range is settled or to be inserted.                           *)
Ranged(x) ==
  /\ x.step \in {"range", "insert"} =>
       x.from > 0 /\ \A b \in 1..(x.from - 1) : Settled(b)
  /\ x.step = "insert" =>
       x.from <= x.to /\ \A b \in x.from..x.to : Settled(b) \/ b \in x.todo

LegacyInv ==
  /\ LegacyTypes
  /\ \A b \in 1..checked : Settled(b)
  /\ Ranged(job)

(* The first of some blocks is one of them.                                *)
LEMMA FirstBlockIsOne ==
  ASSUME NEW S \in SUBSET Nat, S # {}
  PROVE  First(S) \in S
<1>1. \E b \in S : \A c \in S : b <= c
  BY LeastNumber
<1> QED BY <1>1 DEF First

(* A step that only adds to what is recorded, failed or read ahead.        *)
LEMMA JobGoesOn ==
  ASSUME LegacyInv, LegacyTypes',
         UNCHANGED <<head, stakes, checked>>,
         recorded \subseteq recorded', failed \subseteq failed',
         ahead \subseteq ahead',
         Ranged(job)'
  PROVE  LegacyInv'
BY DEF LegacyInv, Settled

(* A range is read, which leaves what it does not find settled.            *)
LEMMA LegacyRangeInv ==
  ASSUME LegacyConstants, LegacyInv, QueryRange
  PROVE  LegacyInv'
<1> DEFINE to == job.from + Span - 1
           found == stakes \cap (job.from..to)
<1>1. /\ job \in LegacyJob /\ job.step = "range" /\ job.from \in Nat \ {0}
      /\ ahead' = ahead \cup (head + 1..to)
      /\ UNCHANGED <<head, stakes, checked, recorded>>
      /\ failed \subseteq failed'
      /\ head \in Nat
    BY DEF QueryRange, LegacyInv, LegacyTypes, LegacyJob, Ranged
<1>2. to \in Nat /\ job.from <= to
  BY <1>1 DEF LegacyConstants
<1>3. found \in SUBSET Nat
  BY DEF LegacyInv, LegacyTypes
<1>4. PICK todo \in SUBSET Nat :
        /\ job' = [job EXCEPT !.step = "insert", !.to = to, !.todo = todo]
        /\ found \subseteq todo \cup failed'
  <2>1. CASE job' = [job EXCEPT !.step = "insert", !.to = to, !.todo = found]
    BY <1>3, <2>1
  <2>2. CASE /\ job' = [job EXCEPT !.step = "insert", !.to = to]
             /\ failed' = failed \cup found
    <3>1. job' = [job EXCEPT !.step = "insert", !.to = to, !.todo = job.todo]
      BY <1>1, <2>2 DEF LegacyJob
    <3> QED BY <1>1, <2>2, <3>1 DEF LegacyJob
  <2> QED BY <2>1, <2>2 DEF QueryRange
<1> HIDE DEF to
<1>5. /\ job' \in LegacyJob
      /\ job'.step = "insert" /\ job'.from = job.from
      /\ job'.to = to /\ job'.todo = todo
  BY <1>1, <1>2, <1>4 DEF LegacyJob
<1>6. \A b \in 1..(job.from - 1) : Settled(b)'
  BY <1>1 DEF LegacyInv, Ranged, Settled
<1>7. ASSUME NEW b \in job.from..to PROVE Settled(b)' \/ b \in todo
  <2>1. CASE b > head
    <3>1. b \in ahead'
      BY <1>1, <1>2, <2>1
    <3> QED BY <3>1 DEF Settled
  <2>2. CASE b \in stakes
    BY <1>4, <2>2 DEF Settled
  <2> QED BY <1>1, <2>1, <2>2 DEF Settled
<1>8. Ranged(job)'
  BY <1>1, <1>2, <1>5, <1>6, <1>7 DEF Ranged
<1>9. LegacyTypes'
  BY <1>1, <1>5 DEF LegacyInv, LegacyTypes
<1> QED BY <1>1, <1>8, <1>9, JobGoesOn

(* A step of the job, of its timer or of the chain.                        *)
LEMMA LegacyStepInv ==
  ASSUME LegacyConstants, LegacyInv, [LegacyNext]_legacyVars
  PROVE  LegacyInv'
<1> USE DEF LegacyTypes, LegacyJob
<1>1. CASE MineBlock
  <2>1. LegacyTypes'
    BY <1>1 DEF MineBlock, LegacyInv
  <2>2. /\ head' = head + 1 /\ head \in Nat
        /\ stakes' \subseteq stakes \cup {head + 1}
        /\ UNCHANGED <<checked, recorded, job, ahead, failed>>
    BY <1>1 DEF MineBlock, LegacyInv
  <2>3. ASSUME NEW b \in Int, Settled(b) PROVE Settled(b)'
    BY <2>2, <2>3 DEF Settled
  <2>4. Ranged(job)'
    BY <2>2, <2>3 DEF LegacyInv, Ranged
  <2> QED BY <2>1, <2>2, <2>3, <2>4 DEF LegacyInv
<1>2. CASE StartJob
  <2>1. /\ job' = [Begun EXCEPT !.step = "range", !.start = checked,
                                !.from = checked + 1, !.current = head]
        /\ UNCHANGED <<head, stakes, checked, recorded, ahead, failed>>
    BY <1>2 DEF StartJob
  <2>2. /\ LegacyTypes'
        /\ job'.step = "range" /\ job'.from = checked + 1 /\ checked \in Nat
    <3>1. job' = [step |-> "range", start |-> checked, from |-> checked + 1,
                  to |-> 0, current |-> head, todo |-> {}, at |-> 0]
      BY <2>1 DEF Begun
    <3> QED BY <2>1, <3>1 DEF LegacyInv
  <2>3. Ranged(job)'
    BY <2>1, <2>2 DEF LegacyInv, Ranged, Settled
  <2> QED BY <2>1, <2>2, <2>3, JobGoesOn
<1>3. CASE QueryRange
  BY <1>3, LegacyRangeInv
<1>4. CASE InsertPast
  <2> PICK b : b = First(job.todo)
    OBVIOUS
  <2>1. /\ job.step = "insert" /\ b \in job.todo
        /\ b \in recorded' \cup failed'
        /\ recorded \subseteq recorded' /\ failed \subseteq failed'
        /\ job' = [job EXCEPT !.todo = job.todo \ {b}]
        /\ UNCHANGED <<head, stakes, checked, ahead>>
    BY <1>4, FirstBlockIsOne DEF InsertPast, Insert, LegacyInv
  <2>2. /\ LegacyTypes'
        /\ job'.step = job.step /\ job'.from = job.from /\ job'.to = job.to
        /\ job'.todo = job.todo \ {b}
    BY <2>1 DEF LegacyInv
  <2>3. ASSUME NEW c, Settled(c) PROVE Settled(c)'
    BY <2>1, <2>3 DEF Settled
  <2>4. Settled(b)'
    BY <2>1 DEF Settled
  <2>5. Ranged(job)'
    BY <2>1, <2>2, <2>3, <2>4 DEF LegacyInv, Ranged
  <2> QED BY <2>1, <2>2, <2>5, JobGoesOn
<1>5. CASE MarkRange
  <2>1. /\ job.step = "insert" /\ job.todo = {}
        /\ checked' = Greater(checked, job.to)
        /\ job' = [job EXCEPT !.step = "range", !.from = job.to]
        /\ UNCHANGED <<head, stakes, recorded, ahead, failed>>
        /\ job.from \in Nat \ {0} /\ job.to \in Nat /\ checked \in Nat
        /\ job.from <= job.to
    BY <1>5 DEF MarkRange, NextRange, LegacyInv, Ranged
  <2>2. /\ LegacyTypes'
        /\ job'.step = "range" /\ job'.from = job.to
    BY <2>1 DEF LegacyInv, Greater
  <2>3. \A b \in 1..job.to : Settled(b)
    BY <2>1 DEF LegacyInv, Ranged
  <2>4. \A b \in 1..checked' : Settled(b)
    BY <2>1, <2>3 DEF LegacyInv, Greater
  <2>5. Ranged(job)'
    BY <2>1, <2>2, <2>3 DEF Ranged, Settled
  <2> QED BY <2>1, <2>2, <2>4, <2>5 DEF LegacyInv, Settled
<1>6. CASE StartStream
  <2>1. PICK at \in {job.current - 1, Greater(job.current - 1, head)} :
          job' = [Begun EXCEPT !.step = "watch", !.start = job.start, !.at = at]
    BY <1>6 DEF StartStream
  <2>2. UNCHANGED <<head, stakes, checked, recorded, ahead, failed>>
    BY <1>6 DEF StartStream
  <2>3. at \in Int
    BY DEF LegacyInv, Greater
  <2>4. LegacyTypes' /\ job'.step = "watch"
    BY <2>1, <2>2, <2>3 DEF Begun, LegacyInv
  <2>5. Ranged(job)'
    BY <2>4 DEF Ranged
  <2> QED BY <2>2, <2>4, <2>5, JobGoesOn
<1>7. CASE StreamEvent
  <2> DEFINE coming == stakes \cap (job.at + 1..head)
  <2>1. /\ job.step = "watch" /\ coming # {}
        /\ recorded \subseteq recorded' /\ failed \subseteq failed'
        /\ job' = [job EXCEPT !.at = First(coming)]
        /\ UNCHANGED <<head, stakes, checked, ahead>>
    BY <1>7 DEF StreamEvent, Insert
  <2>2. First(coming) \in Int
    BY <2>1, FirstBlockIsOne DEF LegacyInv
  <2> HIDE DEF coming
  <2>3. LegacyTypes' /\ job'.step = "watch"
    BY <2>1, <2>2 DEF LegacyInv
  <2>4. Ranged(job)'
    BY <2>3 DEF Ranged
  <2> QED BY <2>1, <2>3, <2>4, JobGoesOn
<1>8. CASE EndStream
  <2>1. /\ job' = [Begun EXCEPT !.step = "ended", !.start = job.start]
        /\ UNCHANGED <<head, stakes, checked, recorded, ahead, failed>>
    BY <1>8 DEF EndStream
  <2>2. LegacyTypes' /\ job'.step = "ended"
    <3>1. job' = [step |-> "ended", start |-> job.start, from |-> 0, to |-> 0,
                  current |-> 0, todo |-> {}, at |-> 0]
      BY <2>1 DEF Begun
    <3> QED BY <2>1, <3>1 DEF LegacyInv
  <2> QED BY <2>1, <2>2, JobGoesOn DEF Ranged
<1>9. CASE Timer
  <2>1. UNCHANGED <<head, stakes, checked, recorded, ahead, failed>>
    BY <1>9 DEF Timer
  <2>2. CASE job' = Begun
    <3>1. LegacyTypes' /\ job'.step = "start"
      BY <2>1, <2>2 DEF Begun, LegacyInv
    <3> QED BY <2>1, <3>1, JobGoesOn DEF Ranged
  <2>3. CASE job' = [job EXCEPT !.start = checked]
    <3>1. /\ LegacyTypes'
          /\ job'.step = job.step /\ job'.from = job.from /\ job'.to = job.to
          /\ job'.todo = job.todo
      BY <2>1, <2>3 DEF LegacyInv
    <3>2. Ranged(job)'
      BY <2>1, <3>1 DEF LegacyInv, Ranged, Settled
    <3> QED BY <2>1, <3>1, <3>2, JobGoesOn
  <2> QED BY <1>9, <2>2, <2>3 DEF Timer
<1>10. CASE BreakOff
  <2>1. /\ job' = Begun
        /\ UNCHANGED <<head, stakes, checked, recorded, ahead, failed>>
    BY <1>10 DEF BreakOff
  <2>2. LegacyTypes' /\ job'.step = "start"
    BY <2>1 DEF Begun, LegacyInv
  <2> QED BY <2>1, <2>2, JobGoesOn DEF Ranged
<1>11. CASE UNCHANGED legacyVars
  BY <1>11 DEF legacyVars, LegacyInv, Ranged, Settled
<1> QED BY <1>1, <1>2, <1>3, <1>4, <1>5, <1>6, <1>7, <1>8, <1>9, <1>10, <1>11
        DEF LegacyNext

(* The invariant of the indexer holds in every reachable state, for chains *)
(* of any length and ranges of any size.                                   *)
THEOREM LegacyInvariance ==
  ASSUME LegacyConstants
  PROVE  LegacySpec => []LegacyInv
<1>1. LegacyInit => LegacyInv
  BY DEF LegacyInit, LegacyInv, LegacyTypes, LegacyJob, Ranged, Begun
<1>2. LegacyInv /\ [LegacyNext]_legacyVars => LegacyInv'
  BY LegacyStepInv
<1> QED BY <1>1, <1>2, PTL DEF LegacySpec

(* A stake in a block that is marked as checked has been recorded, unless  *)
(* an error was only logged or the block was marked before it was mined.   *)
THEOREM CheckedStakesTheorem ==
  ASSUME LegacyConstants
  PROVE  LegacySpec => []CheckedStakesAreRecorded
<1>1. LegacyInv => CheckedStakesAreRecorded
  BY DEF LegacyInv, LegacyTypes, Settled, CheckedStakesAreRecorded
<1> QED BY <1>1, LegacyInvariance, PTL

-----------------------------------------------------------------------------
(***************************************************************************)
(* MintPoints: the ranges of blocks whose mints are awarded.  The heads,   *)
(* marks and jobs of the two indexers share their names and nothing else;  *)
(* each theorem is about one of them.                                      *)
(***************************************************************************)
CONSTANTS Logs, FirstBlock, StartOf, Activated, Year
VARIABLES request, awarded

Mints == INSTANCE MintPoints

MintSpec == Mints!MintInit /\ [][Mints!MintNext]_(Mints!mintVars)

(* Logs have blocks and positions, and a range has blocks.                 *)
MintConstants ==
  /\ \A l \in Logs : l.block \in Nat /\ l.position \in Nat
  /\ FirstBlock \in Nat \ {0}
  /\ Span \in Nat \ {0}

MintJob ==
  [step : {"start", "range", "route", "watch", "ended"}, from : Nat, to : Nat,
   current : Nat, todo : SUBSET Logs, seen : SUBSET Logs]

MintTypes ==
  /\ head \in Nat /\ head >= 2
  /\ checked \in Nat
  /\ request \in 0..checked
  /\ job \in MintJob
  /\ job.current <= head

(* The mint l is awarded, was printed as an error, or does not count.      *)
Awarded(l) == Mints!Counts(l) => Mints!Key(l) \in awarded \/ l \in failed

AwardedBefore(block) ==
  \A l \in Logs : FirstBlock <= l.block /\ l.block < block => Awarded(l)

(* What is saved as checked is awarded, and so is what the job has behind  *)
(* it; what is in its range is awarded or still to be routed.              *)
Routed(x) ==
  /\ x.step \in {"range", "route"} => AwardedBefore(x.from)
  /\ x.step = "route" =>
       \A l \in Logs : l.block \in x.from..x.to => Awarded(l) \/ l \in x.todo

MintInv ==
  /\ MintTypes
  /\ AwardedBefore(checked + 1)
  /\ Routed(job)

(* The first of some logs is one of them.                                  *)
LEMMA FirstLogIsOne ==
  ASSUME MintConstants, NEW S \in SUBSET Logs, S # {}
  PROVE  Mints!First(S) \in S
<1> DEFINE P == {l.position : l \in S}
<1>1. P \in SUBSET Nat /\ P # {}
  BY DEF MintConstants
<1>2. PICK p \in P : \A q \in P : p <= q
  <2> HIDE DEF P
  <2> QED BY <1>1, LeastNumber
<1>3. \E l \in S : \A k \in S : l.position <= k.position
  BY <1>2
<1> QED BY <1>3 DEF Mints!First

(* A job that goes on and awards no less than it did.                      *)
LEMMA MintGoesOn ==
  ASSUME MintInv, MintTypes', checked' = checked,
         awarded \subseteq awarded', failed \subseteq failed', Routed(job)'
  PROVE  MintInv'
BY DEF MintInv, AwardedBefore, Awarded

(* A job that has nothing behind it.                                       *)
LEMMA MintBreaksOff ==
  ASSUME MintInv, UNCHANGED <<head, checked, request, awarded, failed>>,
         job' \in MintJob, job'.step \in {"start", "watch", "ended"},
         job'.current <= head
  PROVE  MintInv'
<1>1. MintTypes'
  BY DEF MintInv, MintTypes
<1>2. Routed(job)'
  BY DEF Routed
<1> QED BY <1>1, <1>2, MintGoesOn

(* A log that is routed is awarded, is printed as an error, or does not    *)
(* count.                                                                  *)
LEMMA RouteAwards ==
  ASSUME NEW l, Mints!Route(l)
  PROVE  /\ awarded \subseteq awarded' /\ failed \subseteq failed'
         /\ Mints!Counts(l) => Mints!Key(l) \in awarded' \/ l \in failed'
BY DEF Mints!Route

(* The block a job starts at has awarded ones before it.                   *)
LEMMA StartJobInv ==
  ASSUME MintConstants, MintInv, Mints!StartJob
  PROVE  MintInv'
<1>1. PICK current \in {head, 2} :
        job' = [Mints!Begun EXCEPT !.step = "range", !.current = current,
                 !.from = IF request > 0 THEN request
                          ELSE IF checked > 0 THEN checked + 1 ELSE FirstBlock]
  BY DEF Mints!StartJob, Mints!Step
<1> DEFINE from == IF request > 0 THEN request
                   ELSE IF checked > 0 THEN checked + 1 ELSE FirstBlock
<1>2. from \in Nat /\ AwardedBefore(from)
  BY DEF MintInv, MintTypes, MintConstants, AwardedBefore
<1>3. /\ request' = 0
      /\ UNCHANGED <<head, checked, awarded, failed>>
  BY DEF Mints!StartJob
<1>4. job' = [step |-> "range", from |-> from, to |-> 0, current |-> current,
              todo |-> {}, seen |-> {}]
  BY <1>1 DEF Mints!Begun
<1> HIDE DEF from
<1>5. MintTypes'
  BY <1>1, <1>2, <1>3, <1>4 DEF MintInv, MintTypes, MintJob
<1>6. Routed(job)'
  BY <1>2, <1>3, <1>4 DEF Routed, AwardedBefore, Awarded
<1> QED BY <1>3, <1>5, <1>6, MintGoesOn

(* A range ends before the newest block, so that all its logs are found.   *)
LEMMA MintRangeInv ==
  ASSUME MintConstants, MintInv, Mints!QueryRange
  PROVE  MintInv'
<1> DEFINE to == Mints!Lesser(job.from + Span - 1, job.current - 1)
           found == {l \in Mints!Happened : l.block \in job.from..to}
<1>1. /\ job \in MintJob /\ job.step = "range" /\ job.current <= head
      /\ job.from < job.current - 1
      /\ job' = [job EXCEPT !.step = "route", !.to = to, !.todo = found]
      /\ UNCHANGED <<head, checked, request, awarded, failed>>
      /\ head \in Nat
  BY DEF Mints!QueryRange, Mints!Step, MintInv, MintTypes
<1>2. to \in Nat /\ to <= head
  BY <1>1 DEF Mints!Lesser, MintConstants, MintJob
<1>3. found \in SUBSET Logs
  BY DEF Mints!Happened
<1>4. \A l \in Logs : l.block \in job.from..to => l \in found
  BY <1>1, <1>2 DEF Mints!Happened, MintConstants, MintJob
<1> HIDE DEF to, found
<1>5. /\ job' \in MintJob /\ job'.current = job.current
      /\ job'.step = "route" /\ job'.from = job.from /\ job'.to = to
      /\ job'.todo = found
  BY <1>1, <1>2, <1>3 DEF MintJob
<1>6. MintTypes'
  BY <1>1, <1>5 DEF MintInv, MintTypes
<1>7. Routed(job)'
  BY <1>1, <1>4, <1>5 DEF MintInv, Routed, AwardedBefore, Awarded
<1> QED BY <1>1, <1>6, <1>7, MintGoesOn

(* A step of the job, of those that start it over, or of the chain.        *)
LEMMA MintStepInv ==
  ASSUME MintConstants, MintInv, [Mints!MintNext]_(Mints!mintVars)
  PROVE  MintInv'
<1>1. CASE Mints!MineBlock
  <2>1. /\ head' = head + 1
        /\ UNCHANGED <<checked, request, awarded, job, failed>>
    BY <1>1 DEF Mints!MineBlock
  <2>2. MintTypes'
    BY <2>1 DEF MintInv, MintTypes, MintJob
  <2>3. Routed(job)'
    BY <2>1 DEF MintInv, Routed, AwardedBefore, Awarded
  <2> QED BY <2>1, <2>2, <2>3, MintGoesOn
<1>2. CASE Mints!RequestReindex
  <2>1. /\ request' \in FirstBlock..checked
        /\ UNCHANGED <<head, checked, awarded, job, failed>>
    BY <1>2 DEF Mints!RequestReindex
  <2>2. MintTypes'
    BY <2>1 DEF MintInv, MintTypes, MintConstants
  <2>3. Routed(job)'
    BY <2>1 DEF MintInv, Routed, AwardedBefore, Awarded
  <2> QED BY <2>1, <2>2, <2>3, MintGoesOn
<1>3. CASE Mints!StartJob
  BY <1>3, StartJobInv
<1>4. CASE Mints!QueryRange
  BY <1>4, MintRangeInv
<1>5. CASE Mints!RoutePast
  <2> PICK l : l = Mints!First(job.todo)
    OBVIOUS
  <2>1. /\ job \in MintJob /\ job.step = "route" /\ job.todo # {}
        /\ Mints!Route(l)
        /\ job' = [job EXCEPT !.todo = job.todo \ {l}]
        /\ UNCHANGED <<head, checked, request>>
    BY <1>5 DEF Mints!RoutePast, Mints!Step, MintInv, MintTypes
  <2>2. l \in job.todo /\ job.todo \in SUBSET Logs
    BY <2>1, FirstLogIsOne DEF MintJob
  <2>3. /\ job' \in MintJob /\ job'.current = job.current
        /\ job'.step = job.step /\ job'.from = job.from /\ job'.to = job.to
        /\ job'.todo = job.todo \ {l}
    BY <2>1, <2>2 DEF MintJob
  <2>4. /\ awarded \subseteq awarded' /\ failed \subseteq failed'
        /\ Awarded(l)'
    BY <2>1, RouteAwards DEF Awarded, Mints!Counts, Mints!Key
  <2>5. \A k \in Logs : Awarded(k) => Awarded(k)'
    BY <2>4 DEF Awarded
  <2>6. MintTypes'
    BY <2>1, <2>3 DEF MintInv, MintTypes
  <2>7. Routed(job)'
    BY <2>1, <2>3, <2>4, <2>5 DEF MintInv, Routed, AwardedBefore
  <2> QED BY <2>1, <2>4, <2>6, <2>7, MintGoesOn
<1>6. CASE Mints!SaveBlock
  <2>1. /\ job \in MintJob /\ job.step = "route" /\ job.todo = {}
        /\ job' = [job EXCEPT !.step = "range", !.from = job.to + 1]
        /\ checked' = Mints!Greater(checked, job.to)
        /\ UNCHANGED <<head, request, awarded, failed>>
        /\ checked \in Nat
    BY <1>6 DEF Mints!SaveBlock, Mints!Step, MintInv, MintTypes
  <2>2. /\ job' \in MintJob /\ job'.step = "range"
        /\ job'.from = job.to + 1 /\ job'.current = job.current
        /\ job.to \in Nat /\ job.from \in Nat
    <3>1. job.to \in Nat /\ job.from \in Nat /\ job.to + 1 \in Nat
      BY <2>1 DEF MintJob
    <3> QED BY <2>1, <3>1 DEF MintJob
  <2>3. MintTypes'
    BY <2>1, <2>2 DEF MintInv, MintTypes, Mints!Greater
  <2>4. AwardedBefore(job.to + 1)
    BY <2>1, <2>2 DEF MintInv, Routed, AwardedBefore, MintConstants
  <2>5. AwardedBefore(checked' + 1)
    BY <2>1, <2>2, <2>4 DEF MintInv, AwardedBefore, Mints!Greater, MintConstants
  <2>6. \A l : Awarded(l)' <=> Awarded(l)
    BY <2>1 DEF Awarded, Mints!Counts, Mints!Key
  <2>7. AwardedBefore(checked + 1)' /\ AwardedBefore(job.from)'
    BY <2>2, <2>4, <2>5, <2>6 DEF AwardedBefore
  <2>8. Routed(job)'
    BY <2>2, <2>7 DEF Routed
  <2> QED BY <2>3, <2>7, <2>8 DEF MintInv
<1>7. CASE Mints!StartStream
  <2>1. PICK at : job' = [Mints!Begun EXCEPT !.step = "watch",
                           !.seen = {l \in Mints!Happened : l.block <= at}]
    BY <1>7 DEF Mints!StartStream, Mints!Step
  <2>2. job' = [step |-> "watch", from |-> 0, to |-> 0, current |-> 0,
                todo |-> {}, seen |-> {l \in Mints!Happened : l.block <= at}]
    BY <2>1 DEF Mints!Begun
  <2>3. {l \in Mints!Happened : l.block <= at} \in SUBSET Logs
    BY DEF Mints!Happened
  <2>4. job' \in MintJob /\ job'.step = "watch" /\ job'.current <= head
    BY <2>2, <2>3 DEF MintJob, MintInv, MintTypes
  <2> QED BY <1>7, <2>4, MintBreaksOff DEF Mints!StartStream
<1>8. CASE Mints!StreamLog
  <2> PICK l : l = Mints!First(Mints!Happened \ job.seen)
    OBVIOUS
  <2>1. /\ job \in MintJob /\ job.step = "watch"
        /\ Mints!Happened \ job.seen # {}
        /\ Mints!Route(l)
        /\ job' = [job EXCEPT !.seen = job.seen \cup {l}]
        /\ UNCHANGED <<head, checked, request>>
    BY <1>8 DEF Mints!StreamLog, Mints!Step, MintInv, MintTypes
  <2>2. l \in Logs
    BY <2>1, FirstLogIsOne DEF Mints!Happened
  <2>3. job' \in MintJob /\ job'.step = "watch" /\ job'.current = job.current
    BY <2>1, <2>2 DEF MintJob
  <2>4. awarded \subseteq awarded' /\ failed \subseteq failed'
    BY <2>1, RouteAwards
  <2>5. MintTypes' /\ Routed(job)'
    BY <2>1, <2>3 DEF MintInv, MintTypes, Routed
  <2> QED BY <2>1, <2>4, <2>5, MintGoesOn
<1>9. CASE Mints!EndStream \/ Mints!StartOver
  <2>1. PICK step \in {"start", "ended"} :
          /\ job' = [Mints!Begun EXCEPT !.step = step]
          /\ UNCHANGED <<head, checked, request, awarded, failed>>
    <3>1. Mints!Begun = [Mints!Begun EXCEPT !.step = "start"]
      BY DEF Mints!Begun
    <3> QED BY <1>9, <3>1 DEF Mints!EndStream, Mints!StartOver, Mints!Step
  <2>2. job' \in MintJob /\ job'.step = step /\ job'.current = 0
    BY <2>1 DEF Mints!Begun, MintJob
  <2> QED BY <2>1, <2>2, MintBreaksOff DEF MintInv, MintTypes
<1>10. CASE UNCHANGED Mints!mintVars
  BY <1>10 DEF Mints!mintVars, MintInv, MintTypes, Routed, AwardedBefore, Awarded
<1> QED BY <1>1, <1>2, <1>3, <1>4, <1>5, <1>6, <1>7, <1>8, <1>9, <1>10
        DEF Mints!MintNext

(* The invariant of the mints holds in every reachable state, for any logs *)
(* and ranges of any size.                                                 *)
THEOREM MintInvariance ==
  ASSUME MintConstants
  PROVE  MintSpec => []MintInv
<1>1. Mints!MintInit => MintInv
  BY DEF MintConstants, Mints!MintInit, Mints!Begun, MintInv, MintTypes, MintJob,
         AwardedBefore, Routed
<1>2. MintInv /\ [Mints!MintNext]_(Mints!mintVars) => MintInv'
  BY MintStepInv
<1> QED BY <1>1, <1>2, PTL DEF MintSpec

(* A mint that counts and whose block is saved as checked is awarded,      *)
(* unless its insert failed.                                               *)
THEOREM CheckedMintsTheorem ==
  ASSUME MintConstants
  PROVE  MintSpec => []Mints!CheckedMintsAreAwarded
<1>1. MintInv => Mints!CheckedMintsAreAwarded
  BY DEF MintInv, MintTypes, MintConstants, AwardedBefore, Awarded, Mints!Happened,
         Mints!CheckedMintsAreAwarded
<1> QED BY <1>1, MintInvariance, PTL

-----------------------------------------------------------------------------
(***************************************************************************)
(* MetadataSync: the platforms and stamps that an admin syncs.             *)
(***************************************************************************)
SyncSpec == SyncInit /\ [][SyncNext]_syncVars

(* The metadata gives stamps platforms.                                    *)
SyncConstants ==
  /\ Nowhere \notin Platforms
  /\ \A by \in Metadata :
       /\ DOMAIN by \subseteq Stamps
       /\ \A s \in DOMAIN by : by[s] \in Platforms

SyncRecord ==
  [step : {"idle", "platforms", "stamps", "synced"},
   by : Metadata \cup {Nothing}, left : SUBSET Platforms, todo : SUBSET Stamps]

SyncTypes ==
  /\ platforms \in SUBSET Platforms
  /\ homes \in [Stamps -> Platforms \cup {Nowhere}]
  /\ syncing \in [Syncs -> SyncRecord]
  /\ relinked \in [Syncs -> SUBSET Stamps]

(* What a sync x has still to do, and what it may take as done unless it   *)
(* is among others.                                                        *)
Underway(x, others) ==
  /\ x.todo \subseteq DOMAIN x.by
  /\ x.step \in {"platforms", "synced"} => x.todo = {}
  /\ x.step = "synced" => x.left = {}
  /\ x.step # "idle" =>
       \A s \in DOMAIN x.by \ others :
         x.by[s] \in x.left \/ s \in x.todo \/ homes[s] = x.by[s]

SyncInv ==
  /\ SyncTypes
  /\ HomesExist
  /\ \A m \in Syncs : Underway(syncing[m], relinked[m])

(* A resting sync has nothing to do.                                       *)
LEMMA NoSyncFits ==
  ASSUME NEW others
  PROVE  NoSync \in SyncRecord /\ Underway(NoSync, others)
BY DEF NoSync, Nothing, SyncRecord, Underway

(* A metadata or none says of stamps only which platform they have.        *)
LEMMA MetadataType ==
  ASSUME SyncConstants, NEW by \in Metadata \cup {Nothing}
  PROVE  /\ DOMAIN by \subseteq Stamps
         /\ \A s \in DOMAIN by : by[s] \in Platforms
BY DEF SyncConstants, Nothing

(* The first sync of a state: nothing is linked, and nobody syncs.         *)
LEMMA SyncInitInv ==
  ASSUME SyncInit
  PROVE  SyncInv
BY NoSyncFits DEF SyncInit, SyncInv, SyncTypes, HomesExist

(* One sync goes on, and no row changes.                                   *)
LEMMA SyncGoesOn ==
  ASSUME SyncInv, NEW m \in Syncs, NEW x \in SyncRecord,
         NEW others \in SUBSET Stamps,
         Underway(x, others),
         syncing' = [syncing EXCEPT ![m] = x],
         relinked' = [relinked EXCEPT ![m] = others],
         homes' = homes, platforms' \in SUBSET Platforms,
         platforms \subseteq platforms'
  PROVE  SyncInv'
<1> USE DEF SyncInv, SyncTypes
<1>1. SyncTypes'
  OBVIOUS
<1>2. HomesExist'
  BY DEF HomesExist
<1>3. ASSUME NEW q \in Syncs PROVE Underway(syncing[q], relinked[q])'
  BY DEF Underway
<1> QED BY <1>1, <1>2, <1>3

(* Some stamps get other platforms, which the syncs but one that goes on   *)
(* learn of.                                                               *)
LEMMA OthersRelink ==
  ASSUME SyncInv, NEW lose \in SUBSET Stamps, NEW q \in Syncs,
         \A s \in Stamps \ lose : homes'[s] = homes[s],
         syncing'[q] = syncing[q], SyncConstants,
         relinked'[q] = IF syncing[q].step = "idle" THEN relinked[q]
                        ELSE relinked[q] \cup lose
  PROVE  Underway(syncing[q], relinked[q])'
<1>1. DOMAIN syncing[q].by \subseteq Stamps
  BY MetadataType DEF SyncInv, SyncTypes, SyncRecord
<1> QED BY <1>1 DEF SyncInv, Underway

(* A step of a sync or of an admin who deletes a platform.                 *)
LEMMA SyncStepInv ==
  ASSUME SyncConstants, SyncInv, [SyncNext]_syncVars
  PROVE  SyncInv'
<1>1. ASSUME NEW m \in Syncs, BeginSync(m) PROVE SyncInv'
  <2>1. PICK by \in Metadata : syncing' = [syncing EXCEPT ![m] =
          [NoSync EXCEPT !.step = "platforms", !.by = by,
             !.left = {by[s] : s \in DOMAIN by}]]
    BY <1>1 DEF BeginSync, Sync
  <2> DEFINE x == [NoSync EXCEPT !.step = "platforms", !.by = by,
                     !.left = {by[s] : s \in DOMAIN by}]
  <2> DEFINE all == {by[s] : s \in DOMAIN by}
  <2>2. all \subseteq Platforms /\ \A s \in DOMAIN by : by[s] \in all
    BY MetadataType
  <2>3. x = [step |-> "platforms", by |-> by, left |-> all, todo |-> {}]
    <3>1. x = [NoSync EXCEPT !.step = "platforms", !.by = by, !.left = all]
      OBVIOUS
    <3> HIDE DEF all, x
    <3> QED BY <3>1 DEF NoSync
  <2>4. x \in SyncRecord /\ Underway(x, {})
    <3> HIDE DEF all, x
    <3> QED BY <2>2, <2>3 DEF SyncRecord, Underway
  <2>5. /\ relinked' = [relinked EXCEPT ![m] = {}]
        /\ UNCHANGED <<platforms, homes>>
    BY <1>1 DEF BeginSync
  <2>6. platforms \in SUBSET Platforms
    BY DEF SyncInv, SyncTypes
  <2> HIDE DEF x
  <2> QED BY <2>1, <2>4, <2>5, <2>6, SyncGoesOn DEF x
<1>2. ASSUME NEW m \in Syncs, SyncPlatform(m) PROVE SyncInv'
  <2>1. PICK p \in syncing[m].left :
          /\ Sync(m, "platforms", [syncing[m] EXCEPT !.step = "stamps",
                    !.left = @ \ {p}, !.todo = StampsOf(syncing[m].by, p)])
          /\ platforms' = platforms \cup {p}
    BY <1>2 DEF SyncPlatform
  <2> DEFINE x == [syncing[m] EXCEPT !.step = "stamps",
                     !.left = @ \ {p}, !.todo = StampsOf(syncing[m].by, p)]
  <2>2. /\ syncing[m] \in SyncRecord /\ syncing[m].step = "platforms"
        /\ Underway(syncing[m], relinked[m])
        /\ DOMAIN syncing[m].by \subseteq Stamps
    BY <2>1, MetadataType DEF SyncInv, SyncTypes, Sync, SyncRecord
  <2>3. x \in SyncRecord /\ Underway(x, relinked[m])
    BY <2>2 DEF SyncRecord, StampsOf, Underway
  <2>4. /\ syncing' = [syncing EXCEPT ![m] = x]
        /\ UNCHANGED <<homes, relinked>>
        /\ p \in Platforms
    BY <1>2, <2>1, <2>2 DEF SyncPlatform, Sync, SyncRecord
  <2>5. /\ relinked[m] \in SUBSET Stamps
        /\ relinked' = [relinked EXCEPT ![m] = relinked[m]]
        /\ platforms' \in SUBSET Platforms
    BY <2>1, <2>4 DEF SyncInv, SyncTypes
  <2> HIDE DEF x
  <2> QED BY <2>1, <2>3, <2>4, <2>5, SyncGoesOn
<1>3. ASSUME NEW m \in Syncs, LinkStamp(m) PROVE SyncInv'
  <2>1. PICK s \in syncing[m].todo :
          LET p == syncing[m].by[s]
              rest == syncing[m].todo \ {s} IN
          IF p \in platforms
          THEN /\ Sync(m, "stamps", [syncing[m] EXCEPT !.todo = rest,
                    !.step = IF rest = {} THEN "platforms" ELSE "stamps"])
               /\ homes' = [homes EXCEPT ![s] = p]
               /\ Relink(m, {s})
          ELSE Sync(m, "stamps", NoSync) /\ UNCHANGED <<homes, relinked>>
    BY <1>3 DEF LinkStamp, LinkStampThen
  <2> DEFINE p == syncing[m].by[s]
             rest == syncing[m].todo \ {s}
             x == [syncing[m] EXCEPT !.todo = rest,
                    !.step = IF rest = {} THEN "platforms" ELSE "stamps"]
  <2>2. /\ syncing[m] \in SyncRecord
        /\ Underway(syncing[m], relinked[m])
        /\ DOMAIN syncing[m].by \subseteq Stamps
        /\ s \in Stamps /\ s \in DOMAIN syncing[m].by /\ p \in Platforms
        /\ platforms' = platforms /\ platforms \in SUBSET Platforms
        /\ relinked[m] \in SUBSET Stamps
    BY <1>3, MetadataType DEF SyncInv, SyncTypes, SyncRecord, Underway,
                              LinkStamp, LinkStampThen
  <2>3. CASE p \notin platforms
    <3>1. /\ syncing' = [syncing EXCEPT ![m] = NoSync]
          /\ relinked' = [relinked EXCEPT ![m] = relinked[m]]
          /\ homes' = homes
      BY <2>1, <2>3 DEF Sync, SyncInv, SyncTypes
    <3> QED BY <2>2, <3>1, NoSyncFits, SyncGoesOn
  <2>4. CASE p \in platforms
    <3>1. /\ syncing[m].step = "stamps"
          /\ syncing' = [syncing EXCEPT ![m] = x]
          /\ homes' = [homes EXCEPT ![s] = p]
          /\ Relink(m, {s})
      BY <2>1, <2>4 DEF Sync
    <3>2. x \in SyncRecord
      BY <2>2 DEF SyncRecord
    <3>3. SyncTypes'
      BY <2>2, <3>1, <3>2 DEF SyncInv, SyncTypes, Relink
    <3>4. HomesExist'
      BY <2>2, <2>4, <3>1 DEF SyncInv, SyncTypes, HomesExist
    <3>5. Underway(syncing[m], relinked[m])'
      <4>1. /\ syncing'[m] = x /\ relinked'[m] = relinked[m]
            /\ homes'[s] = p
            /\ \A t \in Stamps : t # s => homes'[t] = homes[t]
        BY <2>2, <3>1 DEF SyncInv, SyncTypes, Relink
      <4>2. /\ x.todo = rest /\ x.by = syncing[m].by /\ x.left = syncing[m].left
            /\ x.step = IF rest = {} THEN "platforms" ELSE "stamps"
        BY <2>2 DEF SyncRecord
      <4> HIDE DEF x
      <4> QED BY <2>2, <3>1, <4>1, <4>2 DEF Underway
    <3>6. ASSUME NEW q \in Syncs, q # m PROVE Underway(syncing[q], relinked[q])'
      <4>1. syncing'[q] = syncing[q]
        BY <3>1, <3>6 DEF SyncInv, SyncTypes
      <4>2. relinked'[q] = IF syncing[q].step = "idle" THEN relinked[q]
                           ELSE relinked[q] \cup {s}
        BY <3>1, <3>6 DEF Relink
      <4>3. \A t \in Stamps \ {s} : homes'[t] = homes[t]
        BY <3>1 DEF SyncInv, SyncTypes
      <4> HIDE DEF x
      <4> QED BY <2>2, <4>1, <4>2, <4>3, OthersRelink
    <3> HIDE DEF x
    <3> QED BY <3>3, <3>4, <3>5, <3>6 DEF SyncInv
  <2> QED BY <2>3, <2>4
<1>4. ASSUME NEW m \in Syncs, ReportSync(m) PROVE SyncInv'
  <2> DEFINE x == [syncing[m] EXCEPT !.step = "synced"]
  <2>1. /\ syncing[m] \in SyncRecord /\ syncing[m].step = "platforms"
        /\ Underway(syncing[m], relinked[m]) /\ syncing[m].left = {}
        /\ syncing' = [syncing EXCEPT ![m] = x]
        /\ UNCHANGED <<platforms, homes>>
        /\ relinked' = [relinked EXCEPT ![m] = relinked[m]]
        /\ relinked[m] \in SUBSET Stamps /\ platforms \in SUBSET Platforms
    BY <1>4 DEF ReportSync, Sync, SyncInv, SyncTypes
  <2>2. x \in SyncRecord /\ Underway(x, relinked[m])
    BY <2>1 DEF SyncRecord, Underway
  <2> HIDE DEF x
  <2> QED BY <2>1, <2>2, SyncGoesOn
<1>5. ASSUME NEW m \in Syncs, SyncEnds(m) PROVE SyncInv'
  <2>1. /\ syncing' = [syncing EXCEPT ![m] = NoSync]
        /\ UNCHANGED <<platforms, homes>>
        /\ relinked' = [relinked EXCEPT ![m] = relinked[m]]
        /\ relinked[m] \in SUBSET Stamps /\ platforms \in SUBSET Platforms
    BY <1>5 DEF SyncEnds, Sync, SyncInv, SyncTypes
  <2> QED BY <2>1, NoSyncFits, SyncGoesOn
<1>6. ASSUME DeletePlatform PROVE SyncInv'
  <2>1. PICK p \in platforms :
          LET lose == {s \in Stamps : homes[s] = p} IN
          /\ platforms' = platforms \ {p}
          /\ homes' = [s \in Stamps |-> IF s \in lose THEN Nowhere ELSE homes[s]]
          /\ relinked' = [q \in Syncs |->
                           IF syncing[q].step = "idle" THEN relinked[q]
                           ELSE relinked[q] \cup lose]
    BY <1>6 DEF DeletePlatform
  <2> DEFINE lose == {s \in Stamps : homes[s] = p}
  <2>2. syncing' = syncing
    BY <1>6 DEF DeletePlatform
  <2>3. SyncTypes'
    BY <2>1, <2>2 DEF SyncInv, SyncTypes
  <2>4. HomesExist'
    BY <2>1 DEF SyncInv, HomesExist
  <2>5. ASSUME NEW q \in Syncs PROVE Underway(syncing[q], relinked[q])'
    <3>1. /\ relinked'[q] = IF syncing[q].step = "idle" THEN relinked[q]
                            ELSE relinked[q] \cup lose
          /\ \A s \in Stamps \ lose : homes'[s] = homes[s]
          /\ lose \in SUBSET Stamps
      BY <2>1
    <3> HIDE DEF lose
    <3> QED BY <3>1, <2>2, OthersRelink
  <2> QED BY <2>3, <2>4, <2>5 DEF SyncInv
<1>7. CASE UNCHANGED syncVars
  BY <1>7 DEF syncVars, SyncInv, SyncTypes, HomesExist, Underway
<1> QED BY <1>1, <1>2, <1>3, <1>4, <1>5, <1>6, <1>7 DEF SyncNext

(* The invariant of the syncs holds in every reachable state, for any      *)
(* number of admins, stamps, platforms and versions of the metadata.       *)
THEOREM SyncInvariance ==
  ASSUME SyncConstants
  PROVE  SyncSpec => []SyncInv
<1>1. SyncInit => SyncInv
  BY SyncInitInv
<1>2. SyncInv /\ [SyncNext]_syncVars => SyncInv'
  BY SyncStepInv
<1> QED BY <1>1, <1>2, PTL DEF SyncSpec

(* No stamp is linked to a platform that is gone, also when a platform is  *)
(* deleted while syncs link stamps to it.                                  *)
THEOREM HomesTheorem ==
  ASSUME SyncConstants
  PROVE  SyncSpec => []HomesExist
<1>1. SyncInv => HomesExist
  BY DEF SyncInv
<1> QED BY <1>1, SyncInvariance, PTL

(* A sync that reports its success has linked every stamp of its metadata, *)
(* but those that another sync or the end of a platform came over.         *)
THEOREM SyncsTheorem ==
  ASSUME SyncConstants
  PROVE  SyncSpec => []SyncsAreWhole
<1>1. SyncInv => SyncsAreWhole
  BY DEF SyncInv, Underway, SyncsAreWhole
<1> QED BY <1>1, SyncInvariance, PTL

-----------------------------------------------------------------------------
(***************************************************************************)
(* Communities: the communities and keys of an account.                    *)
(***************************************************************************)
CommunitySpec ==
  CommunityInit /\ [][CommunityNext \/ KeyNext]_communityVars

(* The limits are numbers, and NoRow is no row.                            *)
AccountConstants ==
  /\ CommunityLimit \in Nat /\ KeyLimit \in Nat /\ MaxSerial \in Nat
  /\ NoRow \notin Community

Changing == {"rename", "threshold", "delete", "retype"}
EditRecord ==
  [op : {"none", "create", "key", "renamekey"} \cup Changing,
   step : {"idle", "count", "name", "scorer", "save", "drop"},
   id : 0..MaxSerial, name : Names \cup {NoRow},
   copy : Community \cup {NoRow}, scorer : 0..MaxSerial]

(* What a request x has read and asks for fits its operation; last is the  *)
(* last id that was given out.                                             *)
Fits(x, last) ==
  /\ x.op \in Changing =>
       /\ x.id \in 1..last
       /\ x.copy \in Community /\ ~x.copy.deleted /\ x.copy.scorer \in 1..last
  /\ x.op \in {"create", "rename", "key", "renamekey"} => x.name \in Names
  /\ x.op = "renamekey" => x.id \in 1..last
  /\ x.step = "drop" => x.op = "retype"
  /\ x.op \in {"create", "retype"} /\ x.step = "save" => x.scorer \in 1..last

RowTypes ==
  /\ communities \in [Ids -> Community \cup {NoRow}]
  /\ \A i \in Ids : communities[i] # NoRow =>
       i \in 1..serial /\ communities[i].scorer \in 1..serial
  /\ keys \in SUBSET Key /\ IsFiniteSet(keys)
  /\ \A k \in keys : k.id \in 1..serial
  /\ serial \in 0..MaxSerial
  /\ removed \subseteq 1..serial

AccountTypes ==
  /\ RowTypes
  /\ edit \in [Editors -> EditRecord]
  /\ \A e \in Editors : Fits(edit[e], serial)

(* A request that moves on, while the rows stay typed.                     *)
LEMMA EditorMoves ==
  ASSUME AccountTypes, RowTypes', serial <= serial',
         NEW e \in Editors, NEW x \in EditRecord, Fits(x, serial'),
         edit' = [edit EXCEPT ![e] = x]
  PROVE  AccountTypes'
<1>1. serial \in Int /\ serial' \in Int
  BY DEF AccountTypes, RowTypes
<1>2. ASSUME NEW d \in Editors PROVE Fits(edit'[d], serial')
  <2>1. CASE d = e
    BY <2>1 DEF AccountTypes
  <2>2. CASE d # e
    BY <1>1, <2>2 DEF AccountTypes, Fits
  <2> QED BY <2>1, <2>2
<1> QED BY <1>2 DEF AccountTypes

(* A request that has ended asks for nothing.                              *)
LEMMA IdleFits ==
  ASSUME AccountConstants, NEW last
  PROVE  Idle \in EditRecord /\ Fits(Idle, last)
BY DEF AccountConstants, Idle, EditRecord, Fits, Changing

(* Rows stay typed when they do not change, or some of them go.            *)
LEMMA RowsStay ==
  ASSUME RowTypes, UNCHANGED <<keys, serial, removed>>,
         communities' = communities
         \/ \E s : communities' = Cascade(s)
  PROVE  RowTypes'
BY DEF RowTypes, Cascade

(* The beginning of a request.                                             *)
LEMMA BeginRecord ==
  ASSUME NEW e \in Editors, NEW op, NEW step, NEW id, NEW name, NEW copy,
         Begin(e, op, step, id, name, copy),
         NEW x, x = [op |-> op, step |-> step, id |-> id, name |-> name,
                     copy |-> copy, scorer |-> 0]
  PROVE  /\ edit' = [edit EXCEPT ![e] = x]
         /\ UNCHANGED <<communities, scorers, keys, serial, removed, stale,
                        crowded>>
<1>1. PICK idle : idle = Idle
  OBVIOUS
<1>2. PICK y : y = [idle EXCEPT !.op = op, !.step = step, !.id = id,
                                !.name = name, !.copy = copy]
  OBVIOUS
<1>3. idle = [op |-> "none", step |-> "idle", id |-> 0, name |-> NoRow,
              copy |-> NoRow, scorer |-> 0]
  BY <1>1 DEF Idle
<1>4. DOMAIN idle = {"op", "step", "id", "name", "copy", "scorer"}
  BY <1>3
<1>5. /\ y.op = op /\ y.step = step /\ y.id = id /\ y.name = name
      /\ y.copy = copy /\ y.scorer = 0
  BY <1>2, <1>3, <1>4
<1>6. y = [f \in {"op", "step", "id", "name", "copy", "scorer"} |-> y[f]]
  BY <1>2, <1>4
<1>7. y = x
  BY <1>5, <1>6
<1> QED BY <1>1, <1>2, <1>7 DEF Begin

(* Types after it.                                                         *)
LEMMA BeginTypes ==
  ASSUME AccountConstants, AccountTypes, NEW e \in Editors,
         NEW x \in EditRecord, Fits(x, serial), edit' = [edit EXCEPT ![e] = x],
         UNCHANGED <<communities, keys, serial, removed>>
  PROVE  AccountTypes'
<1>1. RowTypes'
  BY RowsStay DEF AccountTypes
<1>2. serial <= serial'
  BY DEF AccountTypes, RowTypes
<1> QED BY <1>1, <1>2, EditorMoves

(* A request that goes to another step, or ends, with the rows as they     *)
(* were.                                                                   *)
LEMMA GoOnTypes ==
  ASSUME AccountConstants, AccountTypes, NEW e \in Editors,
         UNCHANGED <<communities, keys, serial, removed>>,
         \/ End(e)
         \/ \E step \in {"name", "scorer", "save"} :
              /\ GoOn(e, step)
              /\ ~(edit[e].op \in {"create", "retype"} /\ step = "save")
  PROVE  AccountTypes'
<1>1. RowTypes' /\ serial <= serial'
  BY RowsStay DEF AccountTypes, RowTypes
<1>2. CASE End(e)
  BY <1>1, <1>2, IdleFits, EditorMoves DEF End
<1>3. ASSUME NEW step \in {"name", "scorer", "save"}, GoOn(e, step),
             ~(edit[e].op \in {"create", "retype"} /\ step = "save")
      PROVE  AccountTypes'
  <2> DEFINE x == [edit[e] EXCEPT !.step = step]
  <2>1. edit[e] \in EditRecord /\ Fits(edit[e], serial)
    BY DEF AccountTypes
  <2>2. /\ x \in EditRecord /\ x.step = step
        /\ x.op = edit[e].op /\ x.id = edit[e].id /\ x.name = edit[e].name
        /\ x.copy = edit[e].copy /\ x.scorer = edit[e].scorer
    BY <2>1 DEF EditRecord
  <2>3. edit' = [edit EXCEPT ![e] = x]
    BY <1>3 DEF GoOn
  <2> HIDE DEF x
  <2>4. Fits(x, serial')
    BY <1>3, <2>1, <2>2 DEF Fits
  <2> QED BY <1>1, <2>2, <2>3, <2>4, EditorMoves
<1> QED BY <1>2, <1>3

(* What a request makes of the row it has read is a row.                   *)
LEMMA EditedType ==
  ASSUME AccountConstants, AccountTypes,
         NEW e \in Editors, edit[e].op \in Changing,
         edit[e].op = "retype" => edit[e].step = "save"
  PROVE  /\ Edited(edit[e]) \in Community
         /\ Edited(edit[e]).scorer \in 1..serial
         /\ edit[e].op # "retype" =>
              Edited(edit[e]).scorer = edit[e].copy.scorer
         /\ edit[e].op = "retype" => Edited(edit[e]).scorer = edit[e].scorer
         /\ Edited(edit[e]).deleted <=> edit[e].op = "delete"
<1> DEFINE x == edit[e]
<1>1. /\ x \in EditRecord /\ x.copy \in Community /\ ~x.copy.deleted
      /\ x.copy.scorer \in 1..serial
      /\ x.op = "rename" => x.name \in Names
      /\ x.op = "retype" => x.scorer \in 1..serial
      /\ 1..serial \subseteq Ids
  BY DEF AccountConstants, AccountTypes, RowTypes, Fits, Ids
<1> HIDE DEF x
<1>2. CASE x.op = "rename"
  BY <1>1, <1>2 DEF Edited, Community, x
<1>3. CASE x.op = "delete"
  BY <1>1, <1>3 DEF Edited, Community, x
<1>4. CASE x.op = "retype"
  BY <1>1, <1>4 DEF Edited, Community, x
<1>5. CASE x.op = "threshold"
  BY <1>1, <1>5 DEF Edited, Community, x
<1> QED BY <1>2, <1>3, <1>4, <1>5 DEF Changing, x

(* Each step keeps what requests read and ask for in order.                *)
LEMMA AccountStepTypes ==
  ASSUME AccountConstants, AccountTypes,
         [CommunityNext \/ KeyNext]_communityVars
  PROVE  AccountTypes'
<1> USE DEF Changing
<1>1. ASSUME NEW e \in Editors, StartCreate(e) \/ StartKey(e) PROVE AccountTypes'
  <2>1. PICK op \in {"create", "key"}, n \in Names :
          Begin(e, op, "count", 0, n, NoRow)
    BY <1>1 DEF StartCreate, StartKey
  <2>2. PICK x : x = [op |-> op, step |-> "count", id |-> 0, name |-> n,
                      copy |-> NoRow, scorer |-> 0]
    OBVIOUS
  <2>3. x \in EditRecord /\ Fits(x, serial)
    BY <2>2 DEF EditRecord, Fits, AccountConstants
  <2> QED BY <2>1, <2>2, <2>3, BeginRecord, BeginTypes
<1>2. ASSUME NEW e \in Editors, StartChange(e) PROVE AccountTypes'
  <2>1. PICK i \in Live, op \in Changing, step \in {"name", "scorer", "save"},
             n \in Names \cup {NoRow} :
          /\ Begin(e, op, step, i, n, communities[i])
          /\ op = "rename" => n \in Names
          /\ op = "retype" => step = "scorer"
    BY <1>2 DEF StartChange
  <2>2. PICK x : x = [op |-> op, step |-> step, id |-> i, name |-> n,
                      copy |-> communities[i], scorer |-> 0]
    OBVIOUS
  <2>3. /\ i \in Ids /\ communities[i] \in Community /\ ~communities[i].deleted
        /\ i \in 1..serial /\ communities[i].scorer \in 1..serial
    BY DEF Live, IsLive, AccountTypes, RowTypes
  <2>4. x \in EditRecord
    BY <2>2, <2>3 DEF EditRecord, AccountConstants, Ids
  <2>5. Fits(x, serial)
    BY <2>1, <2>2, <2>3 DEF Fits
  <2> QED BY <2>1, <2>2, <2>4, <2>5, BeginRecord, BeginTypes
<1>3. ASSUME NEW e \in Editors, CountCommunities(e) \/ CountKeys(e)
      PROVE  AccountTypes'
  BY <1>3, GoOnTypes DEF CountCommunities, CountKeys, CountOf
<1>4. ASSUME NEW e \in Editors, CheckName(e) PROVE AccountTypes'
  <2>1. UNCHANGED <<communities, keys, serial, removed>>
    BY <1>4 DEF CheckName
  <2> QED BY <1>4, <2>1, GoOnTypes DEF CheckName
<1>5. ASSUME NEW e \in Editors, SaveScorer(e) PROVE AccountTypes'
  <2> DEFINE x == [edit[e] EXCEPT !.step = "save", !.scorer = serial + 1]
  <2>1. /\ edit[e].op \in {"create", "retype"}
        /\ serial < MaxSerial /\ serial' = serial + 1
        /\ edit' = [edit EXCEPT ![e] = x]
        /\ UNCHANGED <<communities, keys, removed>>
    BY <1>5 DEF SaveScorer, NewScorer, AccountTypes, EditRecord
  <2>2. /\ edit[e] \in EditRecord /\ Fits(edit[e], serial)
        /\ serial \in 0..MaxSerial /\ serial + 1 \in 0..MaxSerial
        /\ serial <= serial'
    BY <2>1 DEF AccountTypes, RowTypes, AccountConstants
  <2>3. /\ x \in EditRecord /\ x.step = "save" /\ x.scorer = serial + 1
        /\ x.op = edit[e].op /\ x.id = edit[e].id /\ x.name = edit[e].name
        /\ x.copy = edit[e].copy
    BY <2>2 DEF EditRecord
  <2> HIDE DEF x
  <2>4. Fits(x, serial')
    BY <2>1, <2>2, <2>3 DEF Fits
  <2>5. RowTypes'
    BY <2>1, <2>2 DEF AccountTypes, RowTypes, AccountConstants
  <2> QED BY <2>1, <2>2, <2>3, <2>4, <2>5, EditorMoves
<1>6. ASSUME NEW e \in Editors, SaveThreshold(e) PROVE AccountTypes'
  BY <1>6, GoOnTypes DEF SaveThreshold
<1>7. ASSUME NEW e \in Editors, InsertCommunity(e) PROVE AccountTypes'
  <2>1. edit' = [edit EXCEPT ![e] = Idle] /\ UNCHANGED <<keys, removed>>
    BY <1>7 DEF InsertCommunity, End
  <2>2. CASE UNCHANGED <<communities, serial>>
    BY <2>1, <2>2, GoOnTypes DEF End
  <2>3. CASE /\ serial < MaxSerial /\ serial' = serial + 1
             /\ communities' = [communities EXCEPT ![serial + 1] =
                  [name |-> edit[e].name, deleted |-> FALSE,
                   scorer |-> edit[e].scorer]]
    <3>1. /\ edit[e].name \in Names /\ edit[e].scorer \in 1..serial
          /\ serial \in 0..MaxSerial
      BY <1>7 DEF InsertCommunity, AccountTypes, RowTypes, Fits
    <3>2. [name |-> edit[e].name, deleted |-> FALSE, scorer |-> edit[e].scorer]
            \in Community
      BY <3>1 DEF Community, Ids, AccountConstants
    <3>3. communities' \in [Ids -> Community \cup {NoRow}]
      BY <2>3, <3>2 DEF AccountTypes, RowTypes
    <3>4. \A i \in Ids : communities'[i] # NoRow =>
            i \in 1..serial' /\ communities'[i].scorer \in 1..serial'
      BY <2>3, <3>1 DEF AccountTypes, RowTypes, AccountConstants
    <3>5. RowTypes' /\ serial <= serial'
      BY <2>1, <2>3, <3>1, <3>3, <3>4 DEF AccountTypes, RowTypes, AccountConstants
    <3> QED BY <2>1, <3>5, IdleFits, EditorMoves
  <2> QED BY <1>7, <2>2, <2>3 DEF InsertCommunity
<1>8. ASSUME NEW e \in Editors, SaveCommunity(e) PROVE AccountTypes'
  <2>1. /\ edit[e].op \in Changing /\ edit[e].step = "save"
        /\ UNCHANGED <<keys, serial, removed>>
        /\ serial \in 0..MaxSerial /\ serial <= serial'
    BY <1>8 DEF SaveCommunity, AccountTypes, RowTypes
  <2>2. CASE End(e) /\ communities' = communities
    BY <2>1, <2>2, GoOnTypes
  <2>3. CASE /\ communities' = [communities EXCEPT ![edit[e].id] = Edited(edit[e])]
             /\ IF edit[e].op = "retype" THEN GoOn(e, "drop") ELSE End(e)
    <3>1. /\ edit[e].id \in 1..serial /\ Edited(edit[e]) \in Community
          /\ Edited(edit[e]).scorer \in 1..serial
      BY <2>1, EditedType DEF AccountTypes, Fits
    <3>2. RowTypes'
      BY <2>1, <2>3, <3>1 DEF AccountTypes, RowTypes
    <3>3. CASE End(e)
      BY <2>1, <3>2, <3>3, IdleFits, EditorMoves DEF End
    <3>4. CASE edit[e].op = "retype" /\ GoOn(e, "drop")
      <4> DEFINE x == [edit[e] EXCEPT !.step = "drop"]
      <4>1. edit[e] \in EditRecord /\ Fits(edit[e], serial)
        BY DEF AccountTypes
      <4>2. /\ x \in EditRecord /\ x.step = "drop"
            /\ x.op = edit[e].op /\ x.id = edit[e].id /\ x.name = edit[e].name
            /\ x.copy = edit[e].copy
        BY <4>1 DEF EditRecord
      <4>3. edit' = [edit EXCEPT ![e] = x]
        BY <3>4 DEF GoOn
      <4> HIDE DEF x
      <4>4. Fits(x, serial')
        BY <2>1, <3>4, <4>1, <4>2 DEF Fits
      <4> QED BY <2>1, <3>2, <4>2, <4>3, <4>4, EditorMoves
    <3> QED BY <2>3, <3>3, <3>4
  <2> QED BY <1>8, <2>2, <2>3 DEF SaveCommunity
<1>9. ASSUME NEW e \in Editors, DropScorer(e) PROVE AccountTypes'
  <2>1. /\ UNCHANGED <<keys, serial, removed>>
        /\ communities' = Cascade(edit[e].copy.scorer)
        /\ edit' = [edit EXCEPT ![e] = Idle]
    BY <1>9 DEF DropScorer, End
  <2>2. RowTypes' /\ serial <= serial'
    BY <2>1, RowsStay DEF AccountTypes, RowTypes
  <2> QED BY <2>1, <2>2, IdleFits, EditorMoves
<1>10. ASSUME NEW e \in Editors, CheckKeyName(e) PROVE AccountTypes'
  <2>1. UNCHANGED <<communities, keys, serial, removed>>
    BY <1>10 DEF CheckKeyName
  <2> QED BY <1>10, <2>1, GoOnTypes DEF CheckKeyName
<1>11. ASSUME NEW e \in Editors, InsertKey(e) PROVE AccountTypes'
  <2>1. /\ edit' = [edit EXCEPT ![e] = Idle]
        /\ serial < MaxSerial /\ serial' = serial + 1
        /\ keys' = keys \cup {[id |-> serial + 1, name |-> edit[e].name]}
        /\ UNCHANGED <<communities, removed>>
        /\ serial \in 0..MaxSerial /\ edit[e].name \in Names
    BY <1>11 DEF InsertKey, End, AccountTypes, RowTypes, Fits
  <2>2. [id |-> serial + 1, name |-> edit[e].name] \in Key
    BY <2>1 DEF Key, Ids, AccountConstants
  <2>3. PICK k : k = [id |-> serial + 1, name |-> edit[e].name]
    OBVIOUS
  <2>4. IsFiniteSet(keys \cup {k})
    BY FS_AddElement DEF AccountTypes, RowTypes
  <2>5. RowTypes' /\ serial <= serial'
    BY <2>1, <2>2, <2>3, <2>4 DEF AccountTypes, RowTypes, AccountConstants
  <2> QED BY <2>1, <2>5, IdleFits, EditorMoves
<1>12. ASSUME NEW e \in Editors, StartRenameKey(e) PROVE AccountTypes'
  <2>1. PICK k \in keys, n \in Names :
          Begin(e, "renamekey", "save", k.id, n, NoRow)
    BY <1>12 DEF StartRenameKey
  <2>2. PICK x : x = [op |-> "renamekey", step |-> "save", id |-> k.id,
                      name |-> n, copy |-> NoRow, scorer |-> 0]
    OBVIOUS
  <2>3. k.id \in 1..serial /\ serial \in 0..MaxSerial
    BY DEF AccountTypes, RowTypes
  <2>4. x \in EditRecord /\ Fits(x, serial)
    BY <2>2, <2>3 DEF EditRecord, Fits, AccountConstants
  <2> QED BY <2>1, <2>2, <2>4, BeginRecord, BeginTypes
<1>13. ASSUME NEW e \in Editors, SaveKey(e) PROVE AccountTypes'
  <2>1. /\ edit' = [edit EXCEPT ![e] = Idle]
        /\ keys' = {k \in keys : k.id # edit[e].id}
                     \cup {[id |-> edit[e].id, name |-> edit[e].name]}
        /\ UNCHANGED <<communities, serial, removed>>
        /\ edit[e].id \in 1..serial /\ edit[e].name \in Names
        /\ serial \in 0..MaxSerial
    BY <1>13 DEF SaveKey, End, AccountTypes, RowTypes, Fits
  <2> DEFINE others == {k \in keys : k.id # edit[e].id}
  <2>2. others \subseteq keys /\ IsFiniteSet(others)
    BY FS_Subset DEF AccountTypes, RowTypes
  <2>3. [id |-> edit[e].id, name |-> edit[e].name] \in Key
    BY <2>1 DEF Key, Ids, AccountConstants
  <2> HIDE DEF others
  <2>4. IsFiniteSet(others \cup {[id |-> edit[e].id, name |-> edit[e].name]})
    BY <2>2, FS_AddElement
  <2>5. RowTypes' /\ serial <= serial'
    BY <2>1, <2>2, <2>3, <2>4 DEF AccountTypes, RowTypes, others
  <2> QED BY <2>1, <2>5, IdleFits, EditorMoves
<1>14. CASE DeleteKey
  <2>1. PICK k \in keys : /\ keys' = keys \ {k}
                          /\ removed' = removed \cup {k.id}
                          /\ UNCHANGED <<communities, serial, edit>>
    BY <1>14 DEF DeleteKey
  <2>2. IsFiniteSet(keys')
    BY <2>1, FS_Subset DEF AccountTypes, RowTypes
  <2> QED BY <2>1, <2>2 DEF AccountTypes, RowTypes
<1>15. CASE UNCHANGED communityVars
  BY <1>15 DEF communityVars, AccountTypes, RowTypes
<1> QED BY <1>1, <1>2, <1>3, <1>4, <1>5, <1>6, <1>7, <1>8, <1>9, <1>10, <1>11,
           <1>12, <1>13, <1>14, <1>15 DEF CommunityNext, KeyNext


(***************************************************************************)
(* Keys.  A rename that goes on has the id of a key that is there, or of   *)
(* one that was deleted meanwhile.                                         *)
(***************************************************************************)
KeyInv ==
  /\ \A k, l \in keys : k.id = l.id => k = l
  /\ DeletedKeysAreGone
  /\ \A e \in Editors : edit[e].op = "renamekey" =>
       (\E k \in keys : k.id = edit[e].id) \/ edit[e].id \in stale

(* A request that moves on, with the keys as they were.                    *)
LEMMA KeysStay ==
  ASSUME AccountTypes, KeyInv, NEW e \in Editors, NEW x,
         edit' = [edit EXCEPT ![e] = x],
         x.op = "renamekey" => \E k \in keys : k.id = x.id,
         UNCHANGED <<keys, removed>>, stale \subseteq stale'
  PROVE  KeyInv'
<1>1. \A d \in Editors : edit'[d] = IF d = e THEN x ELSE edit[d]
  BY DEF AccountTypes
<1>2. DeletedKeysAreGone'
  BY DEF KeyInv, DeletedKeysAreGone
<1> QED BY <1>1, <1>2 DEF KeyInv

(* What each step makes of the record of the request that takes it: what   *)
(* the record x after the step has to do with the one before.              *)
GoesOnTo(e, x) ==
  \/ x = Idle
  \/ \E step \in {"name", "scorer", "save"} :
       /\ ~(edit[e].op \in {"create", "retype"} /\ step = "save")
       /\ edit[e].step \notin {"idle", "drop"}
       /\ edit[e].step = "count" => edit[e].op \notin {"create", "key"}
       /\ x = [edit[e] EXCEPT !.step = step]

(* A request that ends is at rest, and one that goes on keeps what it has  *)
(* read.                                                                   *)
LEMMA WhereItGoes ==
  ASSUME AccountTypes, NEW e \in Editors, NEW x, GoesOnTo(e, x)
  PROVE  /\ x.op = edit[e].op \/ x.op = "none"
         /\ x.op # "none" => /\ x.id = edit[e].id /\ x.copy = edit[e].copy
                             /\ x.scorer = edit[e].scorer
         /\ x.step # "drop"
         /\ ~(x.op \in {"create", "retype"} /\ x.step = "save")
         /\ x.op \in {"create", "key"} => edit[e].step \in {"name", "scorer", "save"}
<1>1. CASE x = Idle
  BY <1>1 DEF Idle
<1>2. ASSUME NEW step \in {"name", "scorer", "save"},
             ~(edit[e].op \in {"create", "retype"} /\ step = "save"),
             edit[e].step \notin {"idle", "drop"},
             edit[e].step = "count" => edit[e].op \notin {"create", "key"},
             x = [edit[e] EXCEPT !.step = step]
      PROVE  /\ x.op = edit[e].op /\ x.id = edit[e].id
             /\ x.copy = edit[e].copy /\ x.scorer = edit[e].scorer
             /\ x.step = step
             /\ edit[e].step \in {"idle", "count", "name", "scorer", "save", "drop"}
  <2>1. edit[e] \in EditRecord
    BY DEF AccountTypes
  <2> QED BY <1>2, <2>1 DEF EditRecord
<1> QED BY <1>1, <1>2 DEF GoesOnTo


(* A request that begins.                                                  *)
BeginsWith(x) ==
  /\ x.op \in Changing =>
       /\ x.id \in Live /\ x.copy = communities[x.id]
       /\ x.step \in {"name", "scorer", "save"}
  /\ x.op = "retype" => x.step = "scorer"
  /\ x.op \in {"create", "key"} => x.step = "count"
  /\ x.op = "renamekey" => x.step = "save" /\ \E k \in keys : k.id = x.id

(* A step that writes nothing but the record of its request.               *)
OnlyMoves(e, x) ==
  /\ edit' = [edit EXCEPT ![e] = x]
  /\ UNCHANGED <<communities, keys, serial, removed, stale, crowded>>

(* The steps: those that write nothing, and the others by name.            *)
LEMMA AccountSteps ==
  ASSUME AccountTypes, [CommunityNext \/ KeyNext]_communityVars
  PROVE  \/ UNCHANGED communityVars
         \/ DeleteKey
         \/ \E e \in Editors, x \in {edit'[d] : d \in Editors} :
              OnlyMoves(e, x) /\ (BeginsWith(x) \/ GoesOnTo(e, x))
         \/ \E e \in Editors :
              \/ CountCommunities(e) \/ CountKeys(e) \/ SaveScorer(e)
              \/ InsertCommunity(e) \/ SaveCommunity(e) \/ DropScorer(e)
              \/ InsertKey(e) \/ SaveKey(e)
<1> DEFINE Quiet == \E e \in Editors, x \in {edit'[d] : d \in Editors} :
                      OnlyMoves(e, x) /\ (BeginsWith(x) \/ GoesOnTo(e, x))
<1>0. ASSUME NEW e \in Editors, NEW x, OnlyMoves(e, x),
             BeginsWith(x) \/ GoesOnTo(e, x)
      PROVE  Quiet
  BY <1>0 DEF OnlyMoves, AccountTypes
<1> HIDE DEF Quiet
<1>1. ASSUME NEW e \in Editors, StartCreate(e) \/ StartKey(e) PROVE Quiet
  <2>1. PICK op \in {"create", "key"}, n \in Names :
          Begin(e, op, "count", 0, n, NoRow)
    BY <1>1 DEF StartCreate, StartKey
  <2>2. PICK x : x = [op |-> op, step |-> "count", id |-> 0, name |-> n,
                      copy |-> NoRow, scorer |-> 0]
    OBVIOUS
  <2>3. BeginsWith(x)
    BY <2>2 DEF BeginsWith, Changing
  <2>4. OnlyMoves(e, x)
    BY <2>1, <2>2, BeginRecord DEF OnlyMoves
  <2> QED BY <2>3, <2>4, <1>0
<1>2. ASSUME NEW e \in Editors, StartChange(e) PROVE Quiet
  <2>1. PICK i \in Live, op \in Changing, step \in {"name", "scorer", "save"},
             n \in Names \cup {NoRow} :
          /\ Begin(e, op, step, i, n, communities[i])
          /\ op = "retype" => step = "scorer"
    BY <1>2 DEF StartChange, Changing
  <2>2. PICK x : x = [op |-> op, step |-> step, id |-> i, name |-> n,
                      copy |-> communities[i], scorer |-> 0]
    OBVIOUS
  <2>3. BeginsWith(x)
    BY <2>1, <2>2 DEF BeginsWith, Changing
  <2>4. OnlyMoves(e, x)
    BY <2>1, <2>2, BeginRecord DEF OnlyMoves
  <2> QED BY <2>3, <2>4, <1>0
<1>3. ASSUME NEW e \in Editors, StartRenameKey(e) PROVE Quiet
  <2>1. PICK k \in keys, n \in Names :
          Begin(e, "renamekey", "save", k.id, n, NoRow)
    BY <1>3 DEF StartRenameKey
  <2>2. PICK x : x = [op |-> "renamekey", step |-> "save", id |-> k.id,
                      name |-> n, copy |-> NoRow, scorer |-> 0]
    OBVIOUS
  <2>3. BeginsWith(x)
    BY <2>2 DEF BeginsWith, Changing
  <2>4. OnlyMoves(e, x)
    BY <2>1, <2>2, BeginRecord DEF OnlyMoves
  <2> QED BY <2>3, <2>4, <1>0
<1>4. ASSUME NEW e \in Editors,
             CheckName(e) \/ SaveThreshold(e) \/ CheckKeyName(e)
      PROVE  Quiet
  <2>1. UNCHANGED <<communities, keys, serial, removed, stale, crowded>>
    BY <1>4 DEF CheckName, SaveThreshold, CheckKeyName
  <2>2. \/ End(e)
        \/ \E step \in {"name", "scorer", "save"} :
             /\ GoOn(e, step)
             /\ ~(edit[e].op \in {"create", "retype"} /\ step = "save")
    BY <1>4 DEF CheckName, SaveThreshold, CheckKeyName
  <2>3. edit[e].step \in {"name", "scorer"}
    BY <1>4 DEF CheckName, SaveThreshold, CheckKeyName
  <2>4. CASE End(e)
    BY <2>1, <2>4, <1>0 DEF End, OnlyMoves, GoesOnTo
  <2>5. ASSUME NEW step \in {"name", "scorer", "save"}, GoOn(e, step),
               ~(edit[e].op \in {"create", "retype"} /\ step = "save")
        PROVE  Quiet
    <3>1. PICK x : x = [edit[e] EXCEPT !.step = step]
      OBVIOUS
    <3>2. OnlyMoves(e, x)
      BY <2>1, <2>5, <3>1 DEF GoOn, OnlyMoves
    <3>3. GoesOnTo(e, x)
      BY <2>3, <2>5, <3>1 DEF GoesOnTo
    <3> QED BY <3>2, <3>3, <1>0
  <2> QED BY <2>2, <2>4, <2>5
<1> QED BY <1>1, <1>2, <1>3, <1>4 DEF CommunityNext, KeyNext, Quiet

(* What counting makes of the record of its request.                       *)
LEMMA CountMoves ==
  ASSUME AccountTypes, NEW e \in Editors, NEW op \in {"create", "key"},
         NEW n, NEW limit, CountOf(e, op, n, limit)
  PROVE  \E x : /\ edit' = [edit EXCEPT ![e] = x]
                /\ \/ x = Idle
                   \/ x.op = op /\ x.step = "name" /\ ~(n >= limit)
<1>1. CASE End(e)
  BY <1>1 DEF End
<1>2. CASE GoOn(e, "name") /\ ~(n >= limit)
  <2>1. PICK x : x = [edit[e] EXCEPT !.step = "name"]
    OBVIOUS
  <2>2. x.op = op /\ x.step = "name"
    BY <2>1 DEF AccountTypes, EditRecord, CountOf
  <2>3. edit' = [edit EXCEPT ![e] = x]
    BY <1>2, <2>1 DEF GoOn
  <2> QED BY <1>2, <2>2, <2>3
<1> QED BY <1>1, <1>2 DEF CountOf


(* Each step keeps the keys.                                               *)
LEMMA KeyStepInv ==
  ASSUME AccountConstants, AccountTypes, KeyInv,
         [CommunityNext \/ KeyNext]_communityVars
  PROVE  KeyInv'
<1>1. CASE UNCHANGED communityVars
  BY <1>1 DEF communityVars, KeyInv, DeletedKeysAreGone
<1>2. CASE DeleteKey
  <2>1. PICK k \in keys :
          /\ keys' = keys \ {k} /\ removed' = removed \cup {k.id}
          /\ stale' = stale \cup {i \in {k.id} : \E e \in Editors :
                              edit[e].op = "renamekey" /\ edit[e].id = i}
          /\ edit' = edit
    BY <1>2 DEF DeleteKey
  <2>2. \A l \in keys' : l \in keys /\ l.id # k.id
    BY <2>1 DEF KeyInv
  <2>3. DeletedKeysAreGone'
    BY <2>1, <2>2 DEF KeyInv, DeletedKeysAreGone
  <2>4. ASSUME NEW e \in Editors, edit[e].op = "renamekey"
        PROVE  (\E l \in keys' : l.id = edit[e].id) \/ edit[e].id \in stale'
    <3>1. CASE edit[e].id = k.id
      BY <2>1, <2>4, <3>1
    <3>2. CASE edit[e].id # k.id
      BY <2>1, <2>4, <3>2 DEF KeyInv
    <3> QED BY <3>1, <3>2
  <2> QED BY <2>1, <2>2, <2>3, <2>4 DEF KeyInv
<1>3. ASSUME NEW e \in Editors, NEW x, OnlyMoves(e, x), BeginsWith(x)
      PROVE  KeyInv'
  BY <1>3, KeysStay DEF OnlyMoves, BeginsWith
<1>4. ASSUME NEW e \in Editors, NEW x, edit' = [edit EXCEPT ![e] = x],
             x.op \in {edit[e].op, "none"}, x.op # "none" => x.id = edit[e].id,
             UNCHANGED <<keys, removed>>, stale \subseteq stale'
      PROVE  KeyInv'
  <2>1. \A d \in Editors : edit'[d] = IF d = e THEN x ELSE edit[d]
    BY <1>4 DEF AccountTypes
  <2>2. DeletedKeysAreGone'
    BY <1>4 DEF KeyInv, DeletedKeysAreGone
  <2>3. \A d \in Editors : edit'[d].op = "renamekey" =>
          edit[d].op = "renamekey" /\ edit'[d].id = edit[d].id
    BY <1>4, <2>1
  <2> QED BY <1>4, <2>2, <2>3 DEF KeyInv
<1>5. ASSUME NEW e \in Editors, NEW x, OnlyMoves(e, x), GoesOnTo(e, x)
      PROVE  KeyInv'
  BY <1>5, <1>4, WhereItGoes DEF OnlyMoves
<1>6. ASSUME NEW e \in Editors, CountCommunities(e) \/ CountKeys(e)
      PROVE  KeyInv'
  <2>0. PICK op \in {"create", "key"} : \E n, limit : CountOf(e, op, n, limit)
    BY <1>6 DEF CountCommunities, CountKeys
  <2>1. PICK n, limit : CountOf(e, op, n, limit)
    BY <2>0
  <2>2. PICK x : edit' = [edit EXCEPT ![e] = x] /\ x.op \in {op, "none"}
    BY <2>1, CountMoves DEF Idle
  <2>3. UNCHANGED <<keys, removed, stale>>
    BY <2>1 DEF CountOf
  <2> QED BY <2>2, <2>3, KeysStay
<1>7. ASSUME NEW e \in Editors,
             \/ SaveScorer(e) \/ InsertCommunity(e) \/ SaveCommunity(e)
             \/ DropScorer(e)
      PROVE  KeyInv'
  <2>1. UNCHANGED <<keys, removed>> /\ stale \subseteq stale'
    BY <1>7 DEF SaveScorer, NewScorer, InsertCommunity, SaveCommunity, DropScorer
  <2>2. edit[e] \in EditRecord
    BY DEF AccountTypes
  <2>3. CASE SaveScorer(e)
    <3>1. PICK x : x = [edit[e] EXCEPT !.step = "save", !.scorer = serial + 1]
      OBVIOUS
    <3>2. x.op = edit[e].op /\ x.id = edit[e].id
      BY <3>1, <2>2 DEF EditRecord
    <3>3. edit' = [edit EXCEPT ![e] = x]
      BY <2>3, <3>1 DEF SaveScorer, NewScorer, AccountTypes, EditRecord
    <3> QED BY <2>1, <3>2, <3>3, <1>4
  <2>4. CASE End(e)
    BY <2>1, <2>4, <1>4 DEF End, Idle
  <2>5. CASE GoOn(e, "drop")
    <3>1. PICK x : x = [edit[e] EXCEPT !.step = "drop"]
      OBVIOUS
    <3>2. x.op = edit[e].op /\ x.id = edit[e].id
      BY <3>1, <2>2 DEF EditRecord
    <3>3. edit' = [edit EXCEPT ![e] = x]
      BY <2>5, <3>1 DEF GoOn
    <3> QED BY <2>1, <3>2, <3>3, <1>4
  <2> QED BY <1>7, <2>3, <2>4, <2>5
        DEF InsertCommunity, SaveCommunity, DropScorer
<1>8. ASSUME NEW e \in Editors, InsertKey(e) PROVE KeyInv'
  <2>1. PICK k : k = [id |-> serial + 1, name |-> edit[e].name]
    OBVIOUS
  <2>2. /\ keys' = keys \cup {k} /\ UNCHANGED <<removed, stale>>
        /\ edit' = [edit EXCEPT ![e] = Idle]
    BY <1>8, <2>1 DEF InsertKey, End
  <2>3. k.id = serial + 1 /\ serial \in Nat
    BY <2>1 DEF AccountTypes, RowTypes
  <2>4. k.id \notin removed /\ \A l \in keys : l.id # k.id
    BY <2>3 DEF AccountTypes, RowTypes
  <2>5. \A d \in Editors : edit'[d] = IF d = e THEN Idle ELSE edit[d]
    BY <2>2 DEF AccountTypes
  <2>6. DeletedKeysAreGone'
    BY <2>2, <2>4 DEF KeyInv, DeletedKeysAreGone
  <2> QED BY <2>2, <2>4, <2>5, <2>6 DEF KeyInv, Idle
<1>9. ASSUME NEW e \in Editors, SaveKey(e) PROVE KeyInv'
  <2>1. PICK k : k = [id |-> edit[e].id, name |-> edit[e].name]
    OBVIOUS
  <2>2. /\ keys' = {l \in keys : l.id # edit[e].id} \cup {k}
        /\ UNCHANGED <<removed, stale>> /\ edit' = [edit EXCEPT ![e] = Idle]
        /\ k.id = edit[e].id /\ edit[e].op = "renamekey"
    BY <1>9, <2>1 DEF SaveKey, End
  <2>3. k.id \in removed => k.id \in stale
    BY <2>2 DEF KeyInv, DeletedKeysAreGone
  <2>4. \A d \in Editors : edit'[d] = IF d = e THEN Idle ELSE edit[d]
    BY <2>2 DEF AccountTypes
  <2>5. DeletedKeysAreGone'
    BY <2>2, <2>3 DEF KeyInv, DeletedKeysAreGone
  <2>6. \A l \in keys : \E m \in keys' : m.id = l.id
    BY <2>2
  <2>7. \A d \in Editors : edit'[d].op = "renamekey" =>
          (\E m \in keys' : m.id = edit'[d].id) \/ edit'[d].id \in stale'
    BY <2>2, <2>4, <2>6 DEF KeyInv, Idle
  <2>8. \A m, l \in keys' : m.id = l.id => m = l
    BY <2>2 DEF KeyInv
  <2> QED BY <2>5, <2>7, <2>8 DEF KeyInv
<1> QED BY <1>1, <1>2, <1>3, <1>5, <1>6, <1>7, <1>8, <1>9, AccountSteps


(***************************************************************************)
(* Limits.  While nobody counted beside another, at most one request has   *)
(* counted and has still to insert, and there is room for its row.         *)
(***************************************************************************)
Counted(x, op) == x.op = op /\ x.step \in {"name", "scorer", "save"}

Within(op, n, limit) ==
  op \notin crowded =>
    /\ \A d, e \in Editors :
         Counted(edit[d], op) /\ Counted(edit[e], op) => d = e
    /\ stale = {} =>
         n <= limit /\ \A e \in Editors : Counted(edit[e], op) => n < limit

LimitInv ==
  /\ Within("create", Cardinality(Live), CommunityLimit)
  /\ Within("key", Cardinality(keys), KeyLimit)

(* A step after which no more rows are there, and nobody else has counted. *)
LEMMA WithinStays ==
  ASSUME AccountTypes, NEW op, NEW n \in Nat, NEW m \in Nat,
         NEW limit \in Nat, Within(op, n, limit),
         NEW e \in Editors, NEW x, edit' = [edit EXCEPT ![e] = x],
         Counted(x, op) => Counted(edit[e], op),
         crowded \subseteq crowded', stale \subseteq stale',
         stale' = {} => m <= n
  PROVE  Within(op, m, limit)'
<1>1. \A d \in Editors : Counted(edit'[d], op) => Counted(edit[d], op)
  BY DEF AccountTypes
<1> QED BY <1>1 DEF Within

(* Counting.                                                               *)
LEMMA WithinCount ==
  ASSUME AccountTypes, NEW op \in {"create", "key"}, NEW n \in Nat,
         NEW limit \in Nat, Within(op, n, limit),
         NEW e \in Editors, CountOf(e, op, n, limit)
  PROVE  Within(op, n, limit)'
<1>1. PICK x : /\ edit' = [edit EXCEPT ![e] = x]
               /\ \/ x = Idle
                  \/ x.op = op /\ x.step = "name" /\ ~(n >= limit)
  BY CountMoves
<1>2. /\ UNCHANGED stale
      /\ op \notin crowded' =>
           op \notin crowded
           /\ \A d \in Editors \ {e} : ~Counted(edit[d], op)
  BY DEF CountOf, Creating, Counted
<1>3. CASE x = Idle
  <2>1. ~Counted(x, op) /\ crowded \subseteq crowded'
    BY <1>3 DEF Counted, Idle, CountOf
  <2>2. n <= n /\ stale \subseteq stale'
    BY <1>2
  <2> QED BY <1>1, <2>1, <2>2, WithinStays
<1>4. CASE x.op = op /\ x.step = "name" /\ ~(n >= limit)
  <2>1. op \notin crowded' =>
          \A d \in Editors : Counted(edit'[d], op) => d = e
    BY <1>1, <1>2 DEF AccountTypes
  <2> QED BY <1>2, <1>4, <2>1 DEF Within
<1> QED BY <1>1, <1>3, <1>4

(* Inserting: the one that has counted ends.                               *)
LEMMA WithinInsert ==
  ASSUME AccountTypes, NEW op, NEW n \in Nat, NEW m \in Nat,
         NEW limit \in Nat, Within(op, n, limit),
         NEW e \in Editors, Counted(edit[e], op),
         NEW x, edit' = [edit EXCEPT ![e] = x], ~Counted(x, op),
         UNCHANGED <<crowded, stale>>, m <= n + 1
  PROVE  Within(op, m, limit)'
<1>1. \A d \in Editors :
        Counted(edit'[d], op) => d # e /\ Counted(edit[d], op)
  BY DEF AccountTypes
<1>2. op \notin crowded' => \A d \in Editors : ~Counted(edit'[d], op)
  BY <1>1 DEF Within
<1> QED BY <1>2 DEF Within

(* What is counted is a number, before and after a step.                   *)
LEMMA SetsOfIds ==
  ASSUME AccountConstants, NEW S \in SUBSET Ids
  PROVE  IsFiniteSet(S) /\ Cardinality(S) \in Nat
<1>1. IsFiniteSet(Ids)
  BY FS_Interval DEF Ids, AccountConstants
<1> QED BY <1>1, FS_Subset, FS_CardinalityType

(* A count is a number.                                                   *)
LEMMA CountsAreNumbers ==
  ASSUME AccountConstants, AccountTypes, AccountTypes'
  PROVE  /\ Cardinality(Live) \in Nat /\ Cardinality(Live') \in Nat
         /\ Cardinality(keys) \in Nat /\ Cardinality(keys') \in Nat
         /\ IsFiniteSet(Live) /\ IsFiniteSet(Live')
         /\ IsFiniteSet(keys) /\ IsFiniteSet(keys')
<1>1. Live \in SUBSET Ids /\ Live' \in SUBSET Ids
  BY DEF Live
<1>2. IsFiniteSet(keys) /\ IsFiniteSet(keys')
  BY DEF AccountTypes, RowTypes
<1> QED BY <1>1, <1>2, SetsOfIds, FS_CardinalityType


(* Where as many rows or fewer are live: nothing new is.                   *)
LEMMA FewerLive ==
  ASSUME AccountConstants, AccountTypes, AccountTypes', Live' \subseteq Live
  PROVE  Cardinality(Live') <= Cardinality(Live)
BY CountsAreNumbers, FS_Subset

(* A step that moves one request on, leaves the same or fewer rows, and    *)
(* lets nobody have counted who had not.                                   *)
LEMMA LimitsStay ==
  ASSUME AccountConstants, AccountTypes, AccountTypes', LimitInv,
         NEW e \in Editors, NEW x, edit' = [edit EXCEPT ![e] = x],
         Counted(x, "create") => Counted(edit[e], "create"),
         Counted(x, "key") => Counted(edit[e], "key"),
         crowded \subseteq crowded', stale \subseteq stale',
         stale' = {} => Cardinality(Live') <= Cardinality(Live),
         stale' = {} => Cardinality(keys') <= Cardinality(keys)
  PROVE  LimitInv'
<1>1. PICK n : n = Cardinality(Live)
  OBVIOUS
<1>2. PICK m : m = Cardinality(Live')
  OBVIOUS
<1>3. PICK k : k = Cardinality(keys)
  OBVIOUS
<1>4. PICK l : l = Cardinality(keys')
  OBVIOUS
<1>5. n \in Nat /\ m \in Nat /\ k \in Nat /\ l \in Nat
  BY <1>1, <1>2, <1>3, <1>4, CountsAreNumbers
<1>6. CommunityLimit \in Nat /\ KeyLimit \in Nat
  BY DEF AccountConstants
<1>7. Within("create", n, CommunityLimit) /\ Within("key", k, KeyLimit)
  BY <1>1, <1>3 DEF LimitInv
<1>8. Within("create", m, CommunityLimit)'
  BY <1>1, <1>2, <1>5, <1>6, <1>7, WithinStays
<1>9. Within("key", l, KeyLimit)'
  BY <1>3, <1>4, <1>5, <1>6, <1>7, WithinStays
<1> QED BY <1>2, <1>4, <1>8, <1>9 DEF LimitInv, Within


(* One more element.                                                       *)
LEMMA OneMore ==
  ASSUME NEW S, IsFiniteSet(S), NEW x
  PROVE  /\ IsFiniteSet(S \cup {x})
         /\ Cardinality(S) \in Nat /\ Cardinality(S \cup {x}) \in Nat
         /\ Cardinality(S \cup {x}) <= Cardinality(S) + 1
BY FS_AddElement, FS_CardinalityType

(* A rename of a key that is there leaves as many keys.                    *)
LEMMA RenameKeeps ==
  ASSUME AccountConstants, AccountTypes, AccountTypes', KeyInv,
         NEW e \in Editors, SaveKey(e), stale = {}
  PROVE  Cardinality(keys') <= Cardinality(keys)
<1>1. PICK l : l = [id |-> edit[e].id, name |-> edit[e].name]
  OBVIOUS
<1>2. keys' = {k \in keys : k.id # edit[e].id} \cup {l}
  BY <1>1 DEF SaveKey
<1>3. PICK k \in keys : k.id = edit[e].id
  BY DEF SaveKey, KeyInv
<1>4. {m \in keys : m.id # edit[e].id} = keys \ {k}
  BY <1>3 DEF KeyInv
<1>5. IsFiniteSet(keys \ {k}) /\ Cardinality(keys \ {k}) = Cardinality(keys) - 1
  BY CountsAreNumbers, FS_RemoveElement
<1>6. Cardinality((keys \ {k}) \cup {l}) <= Cardinality(keys \ {k}) + 1
  BY <1>5, OneMore
<1>7. keys' = (keys \ {k}) \cup {l}
  BY <1>2, <1>4
<1>8. Cardinality(keys) \in Nat /\ Cardinality(keys \ {k}) \in Nat
  BY <1>5, FS_CardinalityType, CountsAreNumbers
<1>9. PICK n : n = Cardinality((keys \ {k}) \cup {l})
  OBVIOUS
<1>10. n <= Cardinality(keys)
  BY <1>5, <1>6, <1>8, <1>9
<1> QED BY <1>7, <1>9, <1>10

(* Each step keeps the limits.                                             *)
LEMMA LimitStepInv ==
  ASSUME AccountConstants, AccountTypes, AccountTypes', KeyInv, LimitInv,
         [CommunityNext \/ KeyNext]_communityVars
  PROVE  LimitInv'
<1>0. /\ CommunityLimit \in Nat /\ KeyLimit \in Nat
      /\ Cardinality(Live) \in Nat /\ Cardinality(keys) \in Nat
  BY CountsAreNumbers DEF AccountConstants
<1>1. CASE UNCHANGED communityVars
  BY <1>1 DEF communityVars, LimitInv, Within, Live, IsLive
<1>2. CASE DeleteKey
  <2>1. /\ keys' \subseteq keys /\ Live' = Live
        /\ UNCHANGED <<edit, crowded>> /\ stale \subseteq stale'
    BY <1>2 DEF DeleteKey, Live, IsLive
  <2>2. Cardinality(keys') <= Cardinality(keys)
    BY <2>1, CountsAreNumbers, FS_Subset
  <2> QED BY <1>0, <2>1, <2>2, CountsAreNumbers DEF LimitInv, Within
<1>3. ASSUME NEW e \in Editors, NEW x, OnlyMoves(e, x),
             BeginsWith(x) \/ GoesOnTo(e, x)
      PROVE  LimitInv'
  <2>1. /\ Counted(x, "create") => Counted(edit[e], "create")
        /\ Counted(x, "key") => Counted(edit[e], "key")
    BY <1>3, WhereItGoes DEF BeginsWith, Counted
  <2>2. /\ Live' = Live /\ keys' = keys
        /\ crowded \subseteq crowded' /\ stale \subseteq stale'
    BY <1>3 DEF OnlyMoves, Live, IsLive
  <2>3. /\ Cardinality(Live') <= Cardinality(Live)
        /\ Cardinality(keys') <= Cardinality(keys)
    BY <1>0, <2>2
  <2> QED BY <1>3, <2>1, <2>2, <2>3, LimitsStay DEF OnlyMoves
<1>4. ASSUME NEW e \in Editors, CountCommunities(e) PROVE LimitInv'
  <2>1. PICK n : n = Cardinality(Live)
    OBVIOUS
  <2>2. CountOf(e, "create", n, CommunityLimit)
    BY <1>4, <2>1 DEF CountCommunities
  <2>3. Within("create", n, CommunityLimit)'
    BY <1>0, <2>1, <2>2, WithinCount DEF LimitInv
  <2>4. Live' = Live /\ keys' = keys
    BY <2>2 DEF CountOf, Live, IsLive
  <2>5. PICK k : k = Cardinality(keys)
    OBVIOUS
  <2>6. PICK x : /\ edit' = [edit EXCEPT ![e] = x]
                 /\ x.op \in {"create", "none"}
    BY <2>2, CountMoves DEF Idle
  <2>7. Within("key", k, KeyLimit)'
    <3>1. ~Counted(x, "key") /\ k <= k /\ k \in Nat /\ Within("key", k, KeyLimit)
      BY <1>0, <2>5, <2>6 DEF Counted, LimitInv
    <3>2. crowded \subseteq crowded' /\ stale \subseteq stale'
      BY <2>2 DEF CountOf
    <3> QED BY <1>0, <2>6, <3>1, <3>2, WithinStays
  <2> QED BY <2>1, <2>3, <2>4, <2>5, <2>7 DEF LimitInv, Within
<1>5. ASSUME NEW e \in Editors, CountKeys(e) PROVE LimitInv'
  <2>1. PICK n : n = Cardinality(keys)
    OBVIOUS
  <2>2. CountOf(e, "key", n, KeyLimit)
    BY <1>5, <2>1 DEF CountKeys
  <2>3. Within("key", n, KeyLimit)'
    BY <1>0, <2>1, <2>2, WithinCount DEF LimitInv
  <2>4. Live' = Live /\ keys' = keys
    BY <2>2 DEF CountOf, Live, IsLive
  <2>5. PICK k : k = Cardinality(Live)
    OBVIOUS
  <2>6. PICK x : edit' = [edit EXCEPT ![e] = x] /\ x.op \in {"key", "none"}
    BY <2>2, CountMoves DEF Idle
  <2>7. Within("create", k, CommunityLimit)'
    <3>1. /\ ~Counted(x, "create") /\ k <= k /\ k \in Nat
          /\ Within("create", k, CommunityLimit)
      BY <1>0, <2>5, <2>6 DEF Counted, LimitInv
    <3>2. crowded \subseteq crowded' /\ stale \subseteq stale'
      BY <2>2 DEF CountOf
    <3> QED BY <1>0, <2>6, <3>1, <3>2, WithinStays
  <2> QED BY <2>1, <2>3, <2>4, <2>5, <2>7 DEF LimitInv, Within
<1>6. ASSUME NEW e \in Editors, SaveScorer(e) PROVE LimitInv'
  <2>1. PICK x : x = [edit[e] EXCEPT !.step = "save", !.scorer = serial + 1]
    OBVIOUS
  <2>2. x.op = edit[e].op /\ edit[e].step = "scorer"
    BY <1>6, <2>1 DEF AccountTypes, EditRecord, SaveScorer, NewScorer
  <2>3. edit' = [edit EXCEPT ![e] = x]
    BY <1>6, <2>1 DEF SaveScorer, NewScorer, AccountTypes, EditRecord
  <2>4. /\ Live' = Live /\ keys' = keys
        /\ crowded \subseteq crowded' /\ stale \subseteq stale'
    BY <1>6 DEF SaveScorer, NewScorer, Live, IsLive
  <2>5. /\ Cardinality(Live') <= Cardinality(Live)
        /\ Cardinality(keys') <= Cardinality(keys)
    BY <1>0, <2>4
  <2>6. /\ Counted(x, "create") => Counted(edit[e], "create")
        /\ Counted(x, "key") => Counted(edit[e], "key")
    BY <2>2 DEF Counted
  <2> QED BY <2>3, <2>4, <2>5, <2>6, LimitsStay
<1>7. ASSUME NEW e \in Editors, InsertCommunity(e) PROVE LimitInv'
  <2>1. /\ edit' = [edit EXCEPT ![e] = Idle] /\ keys' = keys
        /\ UNCHANGED <<crowded, stale>>
        /\ ~Counted(Idle, "create") /\ ~Counted(Idle, "key")
        /\ Counted(edit[e], "create")
    BY <1>7 DEF InsertCommunity, End, Idle, Counted
  <2>2. PICK n : n = Cardinality(Live)
    OBVIOUS
  <2>3. PICK m : m = Cardinality(Live')
    OBVIOUS
  <2>4. m <= n + 1
    <3>1. Live' \subseteq Live \cup {serial + 1}
      BY <1>7 DEF InsertCommunity, Live, IsLive, AccountTypes, RowTypes
    <3>2. /\ IsFiniteSet(Live \cup {serial + 1})
          /\ Cardinality(Live \cup {serial + 1}) <= n + 1
      BY <1>0, <2>2, CountsAreNumbers, OneMore
    <3>3. /\ m <= Cardinality(Live \cup {serial + 1})
          /\ Cardinality(Live \cup {serial + 1}) \in Nat
      BY <2>3, <3>1, <3>2, FS_Subset, FS_CardinalityType
    <3> QED BY <1>0, <2>2, <2>3, <3>2, <3>3, CountsAreNumbers
  <2>5. Within("create", m, CommunityLimit)'
    BY <1>0, <2>1, <2>2, <2>3, <2>4, CountsAreNumbers, WithinInsert DEF LimitInv
  <2>6. PICK k : k = Cardinality(keys)
    OBVIOUS
  <2>7. Within("key", k, KeyLimit)'
    <3>1. k \in Nat /\ k <= k /\ Within("key", k, KeyLimit)
      BY <1>0, <2>6 DEF LimitInv
    <3> QED BY <1>0, <2>1, <3>1, WithinStays
  <2> QED BY <2>1, <2>3, <2>5, <2>6, <2>7 DEF LimitInv, Within
<1>8. ASSUME NEW e \in Editors, SaveCommunity(e) \/ DropScorer(e)
      PROVE  LimitInv'
  <2>1. PICK x : /\ edit' = [edit EXCEPT ![e] = x]
                 /\ x = Idle \/ x.step = "drop"
    <3>1. CASE End(e)
      BY <3>1 DEF End
    <3>2. CASE GoOn(e, "drop")
      <4>1. PICK x : x = [edit[e] EXCEPT !.step = "drop"]
        OBVIOUS
      <4>2. x.step = "drop"
        BY <4>1 DEF AccountTypes, EditRecord
      <4> QED BY <3>2, <4>1, <4>2 DEF GoOn
    <3> QED BY <1>8, <3>1, <3>2 DEF SaveCommunity, DropScorer
  <2>2. ~Counted(x, "create") /\ ~Counted(x, "key")
    BY <2>1 DEF Counted, Idle
  <2>3. keys' = keys /\ crowded \subseteq crowded' /\ stale \subseteq stale'
    BY <1>8 DEF SaveCommunity, DropScorer
  <2>4. Cardinality(keys') <= Cardinality(keys)
    BY <1>0, <2>3
  <2>5. CASE SaveCommunity(e)
    <3>1. CASE communities' = communities
      <4>1. Live' = Live
        BY <3>1 DEF Live, IsLive
      <4>2. Cardinality(Live') <= Cardinality(Live)
        BY <1>0, <4>1
      <4> QED BY <2>1, <2>2, <2>3, <2>4, <4>2, LimitsStay
    <3>2. CASE /\ communities' = [communities EXCEPT ![edit[e].id] = Edited(edit[e])]
               /\ stale' = IF communities[edit[e].id] = edit[e].copy THEN stale
                           ELSE stale \cup {edit[e].id}
      <4>1. /\ edit[e].op \in Changing /\ edit[e].copy \in Community
            /\ ~edit[e].copy.deleted
        BY <2>5 DEF SaveCommunity, AccountTypes, Fits, Changing
      <4>2. stale' = {} => Live' \subseteq Live
        <5>1. ASSUME stale' = {}, NEW i \in Ids, IsLive(i)' PROVE IsLive(i)
          <6>1. communities[edit[e].id] = edit[e].copy
            BY <3>2, <5>1
          <6>2. CASE i = edit[e].id
            BY <4>1, <6>1, <6>2 DEF IsLive, AccountConstants
          <6>3. CASE i # edit[e].id
            BY <3>2, <5>1, <6>3 DEF IsLive, AccountTypes, RowTypes
          <6> QED BY <6>2, <6>3
        <5> QED BY <5>1 DEF Live
      <4>3. stale' = {} => Cardinality(Live') <= Cardinality(Live)
        BY <4>2, FewerLive
      <4> QED BY <2>1, <2>2, <2>3, <2>4, <4>3, LimitsStay
    <3> QED BY <2>5, <3>1, <3>2 DEF SaveCommunity
  <2>6. CASE DropScorer(e)
    <3>1. Live' \subseteq Live
      BY <2>6 DEF DropScorer, Cascade, Live, IsLive
    <3>2. Cardinality(Live') <= Cardinality(Live)
      BY <3>1, FewerLive
    <3> QED BY <2>1, <2>2, <2>3, <2>4, <3>2, LimitsStay
  <2> QED BY <1>8, <2>5, <2>6
<1>9. ASSUME NEW e \in Editors, InsertKey(e) PROVE LimitInv'
  <2>1. PICK x : x = [id |-> serial + 1, name |-> edit[e].name]
    OBVIOUS
  <2>2. /\ edit' = [edit EXCEPT ![e] = Idle] /\ keys' = keys \cup {x}
        /\ UNCHANGED <<crowded, stale>> /\ Live' = Live
        /\ ~Counted(Idle, "create") /\ ~Counted(Idle, "key")
        /\ Counted(edit[e], "key")
    BY <1>9, <2>1 DEF InsertKey, End, Idle, Counted, Live, IsLive
  <2>3. PICK n : n = Cardinality(keys)
    OBVIOUS
  <2>4. PICK m : m = Cardinality(keys')
    OBVIOUS
  <2>5. m <= n + 1
    <3>1. Cardinality(keys \cup {x}) <= Cardinality(keys) + 1
      BY CountsAreNumbers, OneMore
    <3> QED BY <2>2, <2>3, <2>4, <3>1
  <2>6. Within("key", m, KeyLimit)'
    BY <1>0, <2>2, <2>3, <2>4, <2>5, CountsAreNumbers, WithinInsert DEF LimitInv
  <2>7. PICK k : k = Cardinality(Live)
    OBVIOUS
  <2>8. Within("create", k, CommunityLimit)'
    <3>1. k \in Nat /\ k <= k /\ Within("create", k, CommunityLimit)
      BY <1>0, <2>7 DEF LimitInv
    <3> QED BY <1>0, <2>2, <3>1, WithinStays
  <2> QED BY <2>2, <2>4, <2>6, <2>7, <2>8 DEF LimitInv, Within
<1>10. ASSUME NEW e \in Editors, SaveKey(e) PROVE LimitInv'
  <2>1. /\ edit' = [edit EXCEPT ![e] = Idle] /\ Live' = Live
        /\ UNCHANGED <<crowded, stale>>
        /\ ~Counted(Idle, "create") /\ ~Counted(Idle, "key")
    BY <1>10 DEF SaveKey, End, Idle, Counted, Live, IsLive
  <2>2. stale = {} => Cardinality(keys') <= Cardinality(keys)
    BY <1>10, RenameKeeps
  <2>3. /\ crowded \subseteq crowded' /\ stale \subseteq stale'
        /\ (stale' = {} => Cardinality(Live') <= Cardinality(Live))
    BY <1>0, <2>1
  <2>4. stale' = {} => Cardinality(keys') <= Cardinality(keys)
    BY <2>1, <2>2
  <2> QED BY <2>1, <2>3, <2>4, LimitsStay
<1> QED BY <1>1, <1>2, <1>3, <1>4, <1>5, <1>6, <1>7, <1>8, <1>9, <1>10,
           AccountSteps


(***************************************************************************)
(* Scorers.  A scorer belongs to one community: a row, or a request that   *)
(* has read the row, refers to it, or a request that has just made it will *)
(* give it to its row.  Who drops a scorer leaves no row without having    *)
(* been overtaken by a save of an older reading.                           *)
(***************************************************************************)
RefersBy(x, i, s) == x.op \in Changing /\ x.id = i /\ x.copy.scorer = s
Refers(i, s) ==
  \/ communities[i] # NoRow /\ communities[i].scorer = s
  \/ \E e \in Editors : RefersBy(edit[e], i, s)

(* A scorer that was made and has no row yet.                              *)
Fresh(x) == x.op \in {"create", "retype"} /\ x.step = "save"

StayInv ==
  /\ \A i, j, s \in Ids : Refers(i, s) /\ Refers(j, s) => i = j
  /\ \A e \in Editors : Fresh(edit[e]) =>
       \A i \in Ids : ~Refers(i, edit[e].scorer)
  /\ \A d, e \in Editors :
       Fresh(edit[d]) /\ Fresh(edit[e]) /\ edit[d].scorer = edit[e].scorer
         => d = e
  /\ \A e \in Editors : edit[e].step = "drop" =>
       \A i \in Ids :
         communities[i] # NoRow /\ communities[i].scorer = edit[e].copy.scorer
           => i \in stale

(* A step that moves one request on and gives no row or request a scorer   *)
(* that was not its own.                                                   *)
LEMMA ScorersStay ==
  ASSUME AccountConstants, AccountTypes, StayInv, NEW e \in Editors, NEW x,
         edit' = [edit EXCEPT ![e] = x],
         \A i, s \in Ids : RefersBy(x, i, s) => Refers(i, s),
         \A i \in Ids : communities'[i] # NoRow =>
           /\ Refers(i, communities'[i].scorer)
           /\ \/ /\ communities[i] # NoRow
                 /\ communities'[i].scorer = communities[i].scorer
              \/ i \in stale',
         Fresh(x) => Fresh(edit[e]) /\ x.scorer = edit[e].scorer,
         x.step = "drop" => edit[e].step = "drop" /\ x.copy = edit[e].copy,
         stale \subseteq stale', RowTypes'
  PROVE  StayInv'
<1>1. \A d \in Editors : edit'[d] = IF d = e THEN x ELSE edit[d]
  BY DEF AccountTypes
<1>2. ASSUME NEW i \in Ids, NEW s \in Ids, Refers(i, s)' PROVE Refers(i, s)
  <2>1. CASE communities'[i] # NoRow /\ communities'[i].scorer = s
    BY <2>1
  <2>2. ASSUME NEW d \in Editors, RefersBy(edit'[d], i, s) PROVE Refers(i, s)
    BY <1>1, <2>2 DEF Refers
  <2> QED BY <1>2, <2>1, <2>2 DEF Refers
<1>3. \A i, j, s \in Ids : Refers(i, s)' /\ Refers(j, s)' => i = j
  BY <1>2 DEF StayInv
<1>4. ASSUME NEW d \in Editors, Fresh(edit'[d]), NEW i \in Ids,
             Refers(i, edit[d].scorer)'
      PROVE  FALSE
  <2>1. PICK s : s = edit[d].scorer
    OBVIOUS
  <2>2. Fresh(edit[d]) /\ edit'[d].scorer = s
    BY <1>1, <1>4, <2>1
  <2>3. s \in Ids
    BY <2>1, <2>2 DEF AccountTypes, RowTypes, Fits, Fresh, Ids,
               AccountConstants
  <2>4. Refers(i, s)'
    BY <1>4, <2>2 DEF Refers
  <2> QED BY <1>2, <2>1, <2>2, <2>3, <2>4 DEF StayInv
<1>5. ASSUME NEW c \in Editors, NEW d \in Editors,
             Fresh(edit'[c]), Fresh(edit'[d]), edit'[c].scorer = edit'[d].scorer
      PROVE  c = d
  BY <1>1, <1>5 DEF StayInv
<1>6. ASSUME NEW d \in Editors, edit'[d].step = "drop", NEW i \in Ids,
             communities'[i] # NoRow,
             communities'[i].scorer = edit'[d].copy.scorer
      PROVE  i \in stale'
  <2>1. edit[d].step = "drop" /\ edit'[d].copy = edit[d].copy
    BY <1>1, <1>6
  <2> QED BY <1>6, <2>1 DEF StayInv
<1> QED BY <1>3, <1>4, <1>5, <1>6 DEF StayInv

(* A step that changes nothing in the rows of communities.                 *)
LEMMA OnlyAddsStale ==
  ASSUME StayInv, UNCHANGED <<communities, edit>>, stale \subseteq stale'
  PROVE  StayInv'
BY DEF StayInv, Refers


(* A request that has made a scorer gives it to a row.                     *)
LEMMA ScorerGiven ==
  ASSUME AccountConstants, AccountTypes, StayInv, NEW e \in Editors,
         Fresh(edit[e]), NEW i0 \in Ids, NEW row \in Community,
         row.scorer = edit[e].scorer,
         communities' = [communities EXCEPT ![i0] = row],
         NEW x, edit' = [edit EXCEPT ![e] = x], ~Fresh(x),
         \A i, s \in Ids : RefersBy(x, i, s) => RefersBy(edit[e], i, s),
         x.step = "drop" => RefersBy(edit[e], i0, x.copy.scorer),
         stale \subseteq stale'
  PROVE  StayInv'
<1>1. \A d \in Editors : edit'[d] = IF d = e THEN x ELSE edit[d]
  BY DEF AccountTypes
<1>2. \A i \in Ids : communities'[i] = IF i = i0 THEN row ELSE communities[i]
  BY DEF AccountTypes, RowTypes
<1>3. PICK f : f = edit[e].scorer
  OBVIOUS
<1>4. f \in Ids /\ \A i \in Ids : ~Refers(i, f)
  BY <1>3 DEF AccountTypes, RowTypes, Fits, Fresh, Ids, AccountConstants, StayInv
<1>5. ASSUME NEW i \in Ids, NEW s \in Ids, Refers(i, s)'
      PROVE  Refers(i, s) \/ (i = i0 /\ s = f)
  <2>1. CASE communities'[i] # NoRow /\ communities'[i].scorer = s
    BY <1>2, <1>3, <2>1 DEF Refers
  <2>2. ASSUME NEW d \in Editors, RefersBy(edit'[d], i, s) PROVE Refers(i, s)
    BY <1>1, <2>2 DEF Refers
  <2> QED BY <1>5, <2>1, <2>2 DEF Refers
<1>6. \A i, j, s \in Ids : Refers(i, s)' /\ Refers(j, s)' => i = j
  BY <1>4, <1>5 DEF StayInv
<1>7. ASSUME NEW d \in Editors, Fresh(edit'[d]), NEW i \in Ids,
             Refers(i, edit[d].scorer)'
      PROVE  FALSE
  <2>1. PICK s : s = edit[d].scorer
    OBVIOUS
  <2>2. d # e /\ Fresh(edit[d]) /\ edit'[d].scorer = s
    BY <1>1, <1>7, <2>1
  <2>3. s \in Ids
    BY <2>1, <2>2 DEF AccountTypes, RowTypes, Fits, Fresh, Ids,
                      AccountConstants
  <2>4. s # f
    BY <1>3, <2>1, <2>2 DEF StayInv
  <2>5. Refers(i, s)'
    BY <1>7, <2>2 DEF Refers
  <2> QED BY <1>5, <2>1, <2>2, <2>3, <2>4, <2>5 DEF StayInv
<1>8. ASSUME NEW c \in Editors, NEW d \in Editors,
             Fresh(edit'[c]), Fresh(edit'[d]), edit'[c].scorer = edit'[d].scorer
      PROVE  c = d
  BY <1>1, <1>8 DEF StayInv
<1>9. ASSUME NEW d \in Editors, edit'[d].step = "drop", NEW i \in Ids,
             communities'[i] # NoRow,
             communities'[i].scorer = edit'[d].copy.scorer
      PROVE  i \in stale'
  <2>1. CASE d = e
    <3>1. PICK s : s = x.copy.scorer
      OBVIOUS
    <3>2. RefersBy(edit[e], i0, s)
      BY <1>1, <1>9, <2>1, <3>1
    <3>3. s \in Ids
      BY <3>2 DEF RefersBy, AccountTypes, Fits, RowTypes, Ids, AccountConstants
    <3>4. Refers(i0, s) /\ s # f
      BY <1>4, <3>2 DEF Refers
    <3>5. i # i0
      BY <1>2, <1>3, <1>1, <1>9, <2>1, <3>1, <3>4
    <3>6. Refers(i, s)
      BY <1>1, <1>2, <1>9, <2>1, <3>1, <3>5 DEF Refers
    <3> QED BY <3>3, <3>4, <3>5, <3>6 DEF StayInv
  <2>2. CASE d # e
    <3>1. edit'[d] = edit[d]
      BY <1>1, <2>2
    <3>2. /\ edit[d].op = "retype" /\ edit[d].id \in Ids
      BY <1>9, <3>1 DEF AccountTypes, Fits, RowTypes, Ids, AccountConstants, Changing
    <3>3. Refers(edit[d].id, edit[d].copy.scorer)
      BY <3>2 DEF Refers, RefersBy, Changing
    <3>4. i # i0
      BY <1>2, <1>3, <1>4, <1>9, <3>1, <3>2, <3>3
    <3> QED BY <1>2, <1>9, <3>1, <3>4 DEF StayInv
  <2> QED BY <2>1, <2>2
<1> QED BY <1>6, <1>7, <1>8, <1>9 DEF StayInv

(* A request makes a scorer: no row refers to it, nor any request.         *)
LEMMA ScorerMade ==
  ASSUME AccountConstants, AccountTypes, StayInv, NEW e \in Editors,
         SaveScorer(e)
  PROVE  StayInv'
<1>1. PICK x : x = [edit[e] EXCEPT !.step = "save", !.scorer = serial + 1]
  OBVIOUS
<1>2. /\ x.op = edit[e].op /\ x.id = edit[e].id /\ x.copy = edit[e].copy
      /\ x.step = "save" /\ x.scorer = serial + 1
  BY <1>1 DEF AccountTypes, EditRecord
<1>3. edit' = [edit EXCEPT ![e] = x]
  BY <1>1 DEF SaveScorer, NewScorer, AccountTypes, EditRecord
<1>4. \A d \in Editors : edit'[d] = IF d = e THEN x ELSE edit[d]
  BY <1>3 DEF AccountTypes
<1>5. communities' = communities /\ stale' = stale
  BY DEF SaveScorer, NewScorer
<1>6. \A i, s : Refers(i, s)' <=> Refers(i, s)
  BY <1>2, <1>4, <1>5 DEF Refers, RefersBy
<1>7. \A i \in Ids : ~Refers(i, serial + 1)
  BY DEF Refers, RefersBy, AccountTypes, RowTypes, Fits
<1>8. \A d \in Editors : Fresh(edit[d]) => edit[d].scorer # serial + 1
  BY DEF Fresh, AccountTypes, RowTypes, Fits
<1>9. \A d \in Editors : Fresh(edit'[d]) =>
        \A i \in Ids : ~Refers(i, edit'[d].scorer)
  BY <1>2, <1>4, <1>7 DEF StayInv
<1>10. \A c, d \in Editors :
         Fresh(edit'[c]) /\ Fresh(edit'[d]) /\ edit'[c].scorer = edit'[d].scorer
           => c = d
  BY <1>2, <1>4, <1>8 DEF StayInv
<1>11. \A d \in Editors : edit'[d].step = "drop" =>
         edit[d].step = "drop" /\ edit'[d].copy = edit[d].copy
  BY <1>2, <1>4
<1>12. \A i, j, s \in Ids : Refers(i, s)' /\ Refers(j, s)' => i = j
  BY <1>6 DEF StayInv
<1>13. ASSUME NEW d \in Editors, Fresh(edit'[d]), NEW i \in Ids
       PROVE  ~Refers(i, edit[d].scorer)'
  <2>1. PICK s : s = edit'[d].scorer
    OBVIOUS
  <2>2. ~Refers(i, s)
    BY <1>9, <1>13, <2>1
  <2>3. ~Refers(i, s)'
    BY <1>6, <2>2
  <2> QED BY <2>1, <2>3 DEF Refers
<1> QED BY <1>5, <1>10, <1>11, <1>12, <1>13 DEF StayInv


(* Each step keeps a scorer to its community.                              *)
LEMMA StayStepInv ==
  ASSUME AccountConstants, AccountTypes, AccountTypes', StayInv,
         [CommunityNext \/ KeyNext]_communityVars
  PROVE  StayInv'
<1>0. RowTypes'
  BY DEF AccountTypes
<1>1. CASE UNCHANGED communityVars \/ DeleteKey
  BY <1>1, OnlyAddsStale DEF communityVars, DeleteKey
<1>2. ASSUME NEW e \in Editors, NEW x, edit' = [edit EXCEPT ![e] = x],
             x.op \notin Changing, ~Fresh(x), x.step # "drop",
             communities' = communities, stale \subseteq stale'
      PROVE  StayInv'
  <2>1. \A i, s \in Ids : RefersBy(x, i, s) => Refers(i, s)
    BY <1>2 DEF RefersBy
  <2>2. \A i \in Ids : communities'[i] # NoRow =>
          /\ Refers(i, communities'[i].scorer)
          /\ communities[i] # NoRow
          /\ communities'[i].scorer = communities[i].scorer
    BY <1>2 DEF Refers
  <2> QED BY <1>0, <1>2, <2>1, <2>2, ScorersStay
<1>3. Idle.op \notin Changing /\ ~Fresh(Idle) /\ Idle.step # "drop"
  BY DEF Idle, Changing, Fresh
<1>4. ASSUME NEW e \in Editors, NEW x, OnlyMoves(e, x),
             BeginsWith(x) \/ GoesOnTo(e, x)
      PROVE  StayInv'
  <2>1. \A i, s \in Ids : RefersBy(x, i, s) => Refers(i, s)
    <3>1. CASE BeginsWith(x)
      BY <3>1 DEF BeginsWith, RefersBy, Refers, Live, IsLive
    <3>2. CASE GoesOnTo(e, x)
      BY <3>2, WhereItGoes DEF RefersBy, Refers, Changing
    <3> QED BY <1>4, <3>1, <3>2
  <2>2. ~Fresh(x)
    BY <1>4, WhereItGoes DEF BeginsWith, Fresh
  <2>3. x.step = "drop" => x.op \notin Changing
    BY <1>4, WhereItGoes DEF BeginsWith
  <2>4. x.step # "drop"
    <3>1. AccountTypes' => Fits(edit'[e], serial')
      BY DEF AccountTypes
    <3>2. edit'[e] = x
      BY <1>4 DEF OnlyMoves, AccountTypes
    <3> QED BY <2>3, <3>1, <3>2 DEF Fits, Changing
  <2>5. \A i \in Ids : communities'[i] # NoRow =>
          /\ Refers(i, communities'[i].scorer)
          /\ communities[i] # NoRow
          /\ communities'[i].scorer = communities[i].scorer
    BY <1>4 DEF Refers, OnlyMoves
  <2>6. stale \subseteq stale'
    BY <1>4 DEF OnlyMoves
  <2> QED BY <1>0, <1>4, <2>1, <2>2, <2>4, <2>5, <2>6, ScorersStay DEF OnlyMoves
<1>5. ASSUME NEW e \in Editors, CountCommunities(e) \/ CountKeys(e)
      PROVE  StayInv'
  <2>1. PICK op \in {"create", "key"} : \E n, limit : CountOf(e, op, n, limit)
    BY <1>5 DEF CountCommunities, CountKeys
  <2>2. PICK n, limit : CountOf(e, op, n, limit)
    BY <2>1
  <2>3. PICK x : /\ edit' = [edit EXCEPT ![e] = x]
                 /\ x = Idle \/ (x.op = op /\ x.step = "name")
    BY <2>2, CountMoves
  <2>4. communities' = communities /\ stale \subseteq stale'
    BY <2>2 DEF CountOf
  <2>5. x.op \notin Changing /\ ~Fresh(x) /\ x.step # "drop"
    BY <1>3, <2>3 DEF Changing, Fresh
  <2> QED BY <1>2, <2>3, <2>4, <2>5
<1>6. ASSUME NEW e \in Editors, InsertCommunity(e) PROVE StayInv'
  <2>1. CASE UNCHANGED <<communities, serial>>
    BY <1>2, <1>3, <1>6, <2>1 DEF InsertCommunity, End
  <2>2. CASE serial < MaxSerial /\ communities' = [communities EXCEPT ![serial + 1] =
               [name |-> edit[e].name, deleted |-> FALSE,
                scorer |-> edit[e].scorer]]
    <3>1. PICK row : row = [name |-> edit[e].name, deleted |-> FALSE,
                            scorer |-> edit[e].scorer]
      OBVIOUS
    <3>2. /\ edit[e].name \in Names /\ edit[e].scorer \in Ids
          /\ serial + 1 \in Ids /\ Fresh(edit[e])
      BY <1>6, <2>2 DEF InsertCommunity, AccountTypes, RowTypes, Fits, Ids, Fresh,
                        AccountConstants
    <3>3. row \in Community /\ row.scorer = edit[e].scorer
      BY <3>1, <3>2 DEF Community
    <3>4. edit' = [edit EXCEPT ![e] = Idle] /\ stale \subseteq stale'
      BY <1>6 DEF InsertCommunity, End
    <3>5. \A i, s \in Ids : ~RefersBy(Idle, i, s)
      BY <1>3 DEF RefersBy
    <3>6. communities' = [communities EXCEPT ![serial + 1] = row]
      BY <2>2, <3>1
    <3>7. PICK i0 \in Ids : i0 = serial + 1
      BY <3>2
    <3> QED BY <1>3, <3>2, <3>3, <3>4, <3>5, <3>6, <3>7, ScorerGiven
  <2> QED BY <1>6, <2>1, <2>2 DEF InsertCommunity
<1>7. ASSUME NEW e \in Editors, SaveCommunity(e) PROVE StayInv'
  <2>1. CASE End(e) /\ communities' = communities /\ stale' = stale
    BY <1>2, <1>3, <2>1 DEF End
  <2> DEFINE row == Edited(edit[e])
  <2>2. /\ edit[e].op \in Changing /\ edit[e].step = "save"
        /\ row \in Community /\ edit[e].id \in Ids
        /\ edit[e].copy.scorer \in Ids
        /\ edit[e].op # "retype" => row.scorer = edit[e].copy.scorer
        /\ edit[e].op = "retype" => row.scorer = edit[e].scorer
    BY <1>7, EditedType DEF SaveCommunity, AccountTypes, RowTypes, Fits, Ids,
                            AccountConstants, Changing
  <2> HIDE DEF row
  <2>3. ASSUME communities' = [communities EXCEPT ![edit[e].id] = row],
               stale' = IF communities[edit[e].id] = edit[e].copy THEN stale
                        ELSE stale \cup {edit[e].id},
               End(e), edit[e].op # "retype"
        PROVE  StayInv'
    <3>1. Refers(edit[e].id, row.scorer)
      BY <2>2, <2>3 DEF Refers, RefersBy
    <3>2. ASSUME NEW i \in Ids, communities'[i] # NoRow
          PROVE  /\ Refers(i, communities'[i].scorer)
                 /\ \/ /\ communities[i] # NoRow
                       /\ communities'[i].scorer = communities[i].scorer
                    \/ i \in stale'
      <4>1. CASE i = edit[e].id
        <5>1. communities'[i] = row
          BY <2>2, <2>3, <4>1 DEF AccountTypes, RowTypes
        <5>2. CASE communities[i] = edit[e].copy
          BY <2>2, <2>3, <3>1, <4>1, <5>1, <5>2
             DEF AccountTypes, Fits, AccountConstants
        <5>3. CASE communities[i] # edit[e].copy
          BY <2>3, <3>1, <4>1, <5>1, <5>3
        <5> QED BY <5>2, <5>3
      <4>2. CASE i # edit[e].id
        <5>1. communities'[i] = communities[i]
          BY <2>3, <4>2 DEF AccountTypes, RowTypes
        <5> QED BY <3>2, <5>1 DEF Refers
      <4> QED BY <4>1, <4>2
    <3>3. edit' = [edit EXCEPT ![e] = Idle] /\ stale \subseteq stale'
      BY <2>3 DEF End
    <3>4. \A i, s \in Ids : ~RefersBy(Idle, i, s)
      BY <1>3 DEF RefersBy
    <3> QED BY <1>0, <1>3, <3>2, <3>3, <3>4, ScorersStay
  <2>4. ASSUME communities' = [communities EXCEPT ![edit[e].id] = row],
               stale \subseteq stale', GoOn(e, "drop"), edit[e].op = "retype"
        PROVE  StayInv'
    <3>1. PICK x : x = [edit[e] EXCEPT !.step = "drop"]
      OBVIOUS
    <3>2. /\ x.op = edit[e].op /\ x.id = edit[e].id /\ x.copy = edit[e].copy
          /\ x.step = "drop"
      BY <3>1 DEF AccountTypes, EditRecord
    <3>3. edit' = [edit EXCEPT ![e] = x]
      BY <2>4, <3>1 DEF GoOn
    <3>4. Fresh(edit[e]) /\ ~Fresh(x)
      BY <2>2, <2>4, <3>2 DEF Fresh
    <3>5. \A i, s \in Ids : RefersBy(x, i, s) => RefersBy(edit[e], i, s)
      BY <3>2 DEF RefersBy
    <3>6. RefersBy(edit[e], edit[e].id, x.copy.scorer)
      BY <2>2, <3>2 DEF RefersBy
    <3>7. PICK i0 \in Ids : i0 = edit[e].id
      BY <2>2
    <3> QED BY <2>2, <2>4, <3>3, <3>4, <3>5, <3>6, <3>7, ScorerGiven
  <2> QED BY <1>7, <2>1, <2>3, <2>4 DEF SaveCommunity, row
<1>8. ASSUME NEW e \in Editors, DropScorer(e) PROVE StayInv'
  <2>1. edit' = [edit EXCEPT ![e] = Idle] /\ stale \subseteq stale'
    BY <1>8 DEF DropScorer, End
  <2>2. \A i \in Ids : communities'[i] # NoRow => communities'[i] = communities[i]
    BY <1>8 DEF DropScorer, Cascade
  <2>3. \A i \in Ids : communities'[i] # NoRow =>
          /\ Refers(i, communities'[i].scorer)
          /\ communities[i] # NoRow
          /\ communities'[i].scorer = communities[i].scorer
    BY <2>2 DEF Refers
  <2>4. \A i, s \in Ids : ~RefersBy(Idle, i, s)
    BY <1>3 DEF RefersBy
  <2> QED BY <1>0, <1>3, <2>1, <2>3, <2>4, ScorersStay
<1>9. ASSUME NEW e \in Editors, InsertKey(e) \/ SaveKey(e) PROVE StayInv'
  BY <1>2, <1>3, <1>9 DEF InsertKey, SaveKey, End
<1> QED BY <1>1, <1>4, <1>5, <1>6, <1>7, <1>8, <1>9, AccountSteps, ScorerMade

(* What a step does to the rows.                                           *)
LEMMA RowsThatGo ==
  ASSUME AccountConstants, AccountTypes, StayInv,
         [CommunityNext \/ KeyNext]_communityVars
  PROVE  CommunitiesStay
<1>1. CASE communities' = communities
  BY <1>1 DEF CommunitiesStay
<1>2. ASSUME NEW e \in Editors, InsertCommunity(e) PROVE CommunitiesStay
  BY <1>1, <1>2 DEF InsertCommunity, CommunitiesStay, AccountTypes, RowTypes
<1>3. ASSUME NEW e \in Editors, SaveCommunity(e),
             communities' = [communities EXCEPT ![edit[e].id] = Edited(edit[e])],
             stale' = IF communities[edit[e].id] = edit[e].copy THEN stale
                      ELSE stale \cup {edit[e].id}
      PROVE  CommunitiesStay
  <2>1. /\ Edited(edit[e]) \in Community
        /\ edit[e].copy \in Community /\ ~edit[e].copy.deleted
    BY <1>3, EditedType DEF SaveCommunity, AccountTypes, Fits, Changing
  <2>2. ASSUME NEW i \in Ids, communities[i] # NoRow
        PROVE  \/ communities'[i] # NoRow
                  /\ (communities[i].deleted => communities'[i].deleted)
               \/ i \in stale'
    <3>1. CASE i = edit[e].id
      BY <1>3, <2>1, <3>1 DEF AccountTypes, RowTypes, AccountConstants
    <3>2. CASE i # edit[e].id
      BY <1>3, <2>2, <3>2 DEF AccountTypes, RowTypes
    <3> QED BY <3>1, <3>2
  <2> QED BY <2>2 DEF CommunitiesStay
<1>4. ASSUME NEW e \in Editors, DropScorer(e) PROVE CommunitiesStay
  BY <1>4 DEF DropScorer, Cascade, CommunitiesStay, StayInv
<1>5. CASE DeleteKey \/ UNCHANGED communityVars
  BY <1>1, <1>5 DEF DeleteKey, communityVars
<1>6. ASSUME NEW e \in Editors,
             \/ CountCommunities(e) \/ CountKeys(e) \/ SaveScorer(e)
             \/ InsertKey(e) \/ SaveKey(e)
      PROVE  CommunitiesStay
  BY <1>1, <1>6 DEF CountCommunities, CountKeys, CountOf, SaveScorer, InsertKey,
                    SaveKey
<1>7. ASSUME NEW e \in Editors, NEW x, OnlyMoves(e, x) PROVE CommunitiesStay
  BY <1>1, <1>7 DEF OnlyMoves
<1>8. ASSUME NEW e \in Editors, SaveCommunity(e) PROVE CommunitiesStay
  BY <1>1, <1>3, <1>8 DEF SaveCommunity
<1> QED BY <1>2, <1>4, <1>5, <1>6, <1>7, <1>8, AccountSteps

(***************************************************************************)
(* The account.                                                            *)
(***************************************************************************)
AccountInv == AccountTypes /\ KeyInv /\ LimitInv /\ StayInv

(* The invariant holds at the start.                                       *)
LEMMA AccountInitInv ==
  ASSUME AccountConstants, CommunityInit
  PROVE  AccountInv
<1>1. AccountTypes
  <2>1. RowTypes
    BY FS_EmptySet DEF CommunityInit, AccountConstants, RowTypes
  <2>2. Idle \in EditRecord /\ Fits(Idle, serial)
    BY IdleFits
  <2> QED BY <2>1, <2>2 DEF CommunityInit, AccountTypes
<1>2. KeyInv
  BY DEF CommunityInit, KeyInv, DeletedKeysAreGone, Idle
<1>3. LimitInv
  <2>1. Live = {}
    BY DEF CommunityInit, Live, IsLive
  <2>2. Cardinality(Live) = 0 /\ Cardinality(keys) = 0
    BY <2>1, FS_EmptySet DEF CommunityInit
  <2>3. \A e \in Editors : \A op : Counted(edit[e], op) => FALSE
    BY DEF CommunityInit, Idle, Counted
  <2> QED BY <2>2, <2>3 DEF AccountConstants, LimitInv, Within
<1>4. StayInv
  BY DEF CommunityInit, StayInv, Refers, RefersBy, Idle, Fresh, Changing
<1> QED BY <1>1, <1>2, <1>3, <1>4 DEF AccountInv

(* The invariant holds in every state.                                     *)
THEOREM AccountInvariance ==
  ASSUME AccountConstants
  PROVE  CommunitySpec => []AccountInv
<1>1. CommunityInit => AccountInv
  BY AccountInitInv
<1>2. AccountInv /\ [CommunityNext \/ KeyNext]_communityVars => AccountInv'
  <2> SUFFICES ASSUME AccountInv, [CommunityNext \/ KeyNext]_communityVars
               PROVE  AccountInv'
    OBVIOUS
  <2>1. AccountTypes'
    BY AccountStepTypes DEF AccountInv
  <2>2. KeyInv'
    BY KeyStepInv DEF AccountInv
  <2>3. LimitInv' /\ StayInv'
    BY <2>1, LimitStepInv, StayStepInv DEF AccountInv
  <2> QED BY <2>1, <2>2, <2>3 DEF AccountInv
<1> QED BY <1>1, <1>2, PTL DEF CommunitySpec

(* An account goes past its limits only when two requests counted beside   *)
(* each other, or a row came back that another request had read before it  *)
(* was deleted.                                                            *)
THEOREM LimitsTheorem ==
  ASSUME AccountConstants
  PROVE  CommunitySpec => []LimitsHold
<1>1. AccountInv => LimitsHold
  <2>1. SUFFICES ASSUME AccountInv PROVE LimitsHold
    OBVIOUS
  <2>2. Cardinality(Live) \in Nat /\ Cardinality(keys) \in Nat
    BY <2>1, SetsOfIds, FS_CardinalityType
       DEF AccountInv, AccountTypes, RowTypes, Live
  <2> QED BY <2>1, <2>2 DEF AccountInv, LimitInv, Within, LimitsHold, AccountConstants
<1> QED BY <1>1, AccountInvariance, PTL

(* A key that was deleted stays so, but for a rename that had read it.     *)
THEOREM DeletedKeysTheorem ==
  ASSUME AccountConstants
  PROVE  CommunitySpec => []DeletedKeysAreGone
<1>1. AccountInv => DeletedKeysAreGone
  BY DEF AccountInv, KeyInv
<1> QED BY <1>1, AccountInvariance, PTL

(* No step takes a community away, with its scores, or brings a deleted    *)
(* one back, unless a save has put an older reading over its row.          *)
THEOREM CommunitiesTheorem ==
  ASSUME AccountConstants
  PROVE  CommunitySpec => [][CommunitiesStay]_communityVars
<1>1. AccountInv /\ [CommunityNext \/ KeyNext]_communityVars
        => [CommunitiesStay]_communityVars
  BY RowsThatGo DEF AccountInv
<1> QED BY <1>1, AccountInvariance, PTL DEF CommunitySpec

-----------------------------------------------------------------------------
(***************************************************************************)
(* Rescoring: the recalculation of many communities.                       *)
(***************************************************************************)
RescoreNext ==
  \/ Activate
  \/ \E k \in Commands : CommandNext(k)
  \/ \E s \in Scorers : ScoringNext(s)
RescoreSpec == RescoreInit /\ [][RescoreNext]_rescoreVars

(* Communities are numbered, there is one, and a batch has a passport or   *)
(* more.                                                                   *)
RescoreConstants ==
  /\ \E n \in Nat \ {0} : Groups = 1..n
  /\ Binary \subseteq Groups
  /\ \E n \in Nat : FirstPassports \in [1..n -> Groups]
  /\ BatchLimit \in Nat \ {0}

AnyWeights == Versions \cup {0}
RunRecord ==
  [step : {"ready", "weights", "threshold", "weighted", "binary", "create",
           "community", "batch", "write", "count", "over"},
   weights : AnyWeights, threshold : AnyWeights, at : Nat, last : Nat,
   batch : SUBSET Nat, done : Nat,
   status : {"none", "RUNNING", "SUCCESS", "FAILED"}, sure : SUBSET Nat]

RescoreTypes ==
  /\ config \in Versions
  /\ weights \in [Groups -> AnyWeights] /\ threshold \in [Groups -> AnyWeights]
  /\ \E n \in Nat : /\ passports \in [1..n -> Groups]
                    /\ scored \in [1..n -> AnyWeights]
  /\ command \in [Commands -> RunRecord]
  /\ scoring \in [Scorers -> [passport : Nat, weights : AnyWeights]]

(* The score of p, if it has one, is of the weights of its scorer.         *)
Current(p) ==
  scored[p] \in {Unscored, weights[passports[p]]} \/ p \in late

(* What a run x has done in the communities whose weights have not changed *)
(* since it loaded their scorer: their scores are current, but for those   *)
(* of the community it is at that it holds, or has still to read.          *)
Reached(x) ==
  /\ x.step \in {"community", "batch", "write", "count"} => x.at \in Groups
  /\ \A p \in PassportIds :
       passports[p] \in x.sure /\ ~Current(p) =>
         /\ passports[p] = x.at /\ x.step \in {"batch", "write"}
         /\ p > x.last \/ (x.step = "write" /\ p \in x.batch)

RescoreInv ==
  /\ RescoreTypes
  /\ \A k \in Commands : Reached(command[k])
  /\ SuccessReachesAll
  /\ ScorersAreConsistent

(* The passports are numbered.                                             *)
LEMMA PassportNumbers ==
  ASSUME RescoreTypes
  PROVE  \E n \in Nat :
           /\ PassportIds = 1..n /\ IsFiniteSet(PassportIds)
           /\ Cardinality(PassportIds) = n
           /\ passports \in [1..n -> Groups] /\ scored \in [1..n -> AnyWeights]
<1>1. PICK n \in Nat : /\ passports \in [1..n -> Groups]
                       /\ scored \in [1..n -> AnyWeights]
  BY DEF RescoreTypes
<1>2. IsFiniteSet(1..n) /\ Cardinality(1..n) = n
  BY FS_Interval
<1> QED BY <1>1, <1>2 DEF PassportIds

(* A run that stays where it is has reached what it had, when scores that  *)
(* were current in its communities stay so.                                *)
LEMMA StaysReached ==
  ASSUME NEW x, NEW y, Reached(x),
         /\ y.step = x.step /\ y.at = x.at /\ y.last = x.last
         /\ y.batch = x.batch /\ y.sure \subseteq x.sure,
         \A p \in PassportIds' :
           \/ /\ p \in PassportIds /\ passports'[p] = passports[p]
              /\ Current(p) /\ passports[p] \in y.sure => Current(p)'
           \/ Current(p)'
  PROVE  Reached(y)'
BY DEF Reached

(* A step of one run that leaves the scores, the weights and the passports *)
(* as they are.                                                            *)
LEMMA RunMoves ==
  ASSUME RescoreInv, NEW k \in Commands, NEW x \in RunRecord, Reached(x),
         command' = [command EXCEPT ![k] = x],
         UNCHANGED <<config, weights, threshold, passports, scored, scoring,
                     torn, outdated, late>>
  PROVE  RescoreInv'
<1>1. \A c \in Commands : command'[c] = IF c = k THEN x ELSE command[c]
  BY DEF RescoreInv, RescoreTypes
<1>2. RescoreTypes'
  BY DEF RescoreInv, RescoreTypes
<1>3. PassportIds' = PassportIds
  BY DEF PassportIds
<1>4. \A p : Current(p)' <=> Current(p)
  BY DEF Current
<1>5. ASSUME NEW c \in Commands PROVE Reached(command'[c])
  BY <1>1 DEF RescoreInv
<1>6. \A y : Reached(y) <=> Reached(y)'
  BY <1>3, <1>4 DEF Reached
<1>7. \A c \in Commands : Reached(command[c])'
  BY <1>5, <1>6 DEF Reached
<1>8. SuccessReachesAll' /\ ScorersAreConsistent'
  BY <1>3 DEF RescoreInv, SuccessReachesAll, ScorersAreConsistent
<1> QED BY <1>2, <1>7, <1>8 DEF RescoreInv


(* One run ends, and what it is sure of is no longer outdated.             *)
LEMMA RunSucceeds ==
  ASSUME RescoreInv, NEW k \in Commands, NEW x \in RunRecord, x.sure = {},
         x.step \notin {"community", "batch", "write", "count"},
         command' = [command EXCEPT ![k] = x],
         command[k].step = "count", outdated' = outdated \ command[k].sure,
         UNCHANGED <<config, weights, threshold, passports, scored, scoring,
                     torn, late>>
  PROVE  RescoreInv'
<1>1. \A c \in Commands : command'[c] = IF c = k THEN x ELSE command[c]
  BY DEF RescoreInv, RescoreTypes
<1>2. RescoreTypes'
  BY DEF RescoreInv, RescoreTypes
<1>3. PassportIds' = PassportIds /\ \A p : Current(p)' <=> Current(p)
  BY DEF PassportIds, Current
<1>4. \A c \in Commands : Reached(command[c])'
  BY <1>1, <1>3 DEF Reached, RescoreInv
<1>5. SuccessReachesAll'
  <2>1. \A p \in PassportIds : ~Current(p) => passports[p] \notin command[k].sure
    BY DEF RescoreInv, Reached
  <2>2. \A p \in PassportIds : ~Current(p) => passports[p] \in outdated
    BY DEF RescoreInv, SuccessReachesAll, Current
  <2> QED BY <1>3, <2>1, <2>2 DEF SuccessReachesAll, Current
<1>6. ScorersAreConsistent'
  BY DEF RescoreInv, ScorersAreConsistent
<1> QED BY <1>2, <1>4, <1>5, <1>6 DEF RescoreInv

(* What a score that is written leaves current.                            *)
LEMMA ScoresWritten ==
  ASSUME RescoreTypes, NEW ps, NEW v \in AnyWeights, Score(ps, v),
         UNCHANGED <<weights, passports>>
  PROVE  /\ PassportIds' = PassportIds
         /\ \A p \in PassportIds : Current(p) \/ p \in ps => Current(p)'
         /\ \E n \in Nat : /\ passports' \in [1..n -> Groups]
                           /\ scored' \in [1..n -> AnyWeights]
<1>1. PICK n \in Nat :
        /\ PassportIds = 1..n
        /\ passports \in [1..n -> Groups] /\ scored \in [1..n -> AnyWeights]
  BY PassportNumbers
<1>2. PassportIds' = PassportIds
  BY DEF PassportIds
<1>3. scored' \in [1..n -> AnyWeights]
  BY <1>1 DEF Score
<1>4. ASSUME NEW p \in PassportIds, Current(p) \/ p \in ps PROVE Current(p)'
  <2>1. CASE p \in ps
    <3>1. scored'[p] = v
      BY <2>1 DEF Score
    <3>2. weights[passports[p]] # v => p \in late'
      BY <2>1 DEF Score
    <3> QED BY <3>1, <3>2 DEF Current
  <2>2. CASE p \notin ps
    <3>1. scored'[p] = scored[p]
      BY <2>2 DEF Score
    <3>2. p \in late => p \in late'
      BY <2>2 DEF Score
    <3> QED BY <1>4, <2>2, <3>1, <3>2 DEF Current
  <2> QED BY <2>1, <2>2
<1> QED BY <1>1, <1>2, <1>3, <1>4

(* The batch of a run is written.                                          *)
LEMMA BatchWritten ==
  ASSUME RescoreInv, NEW k \in Commands, WriteScores(k)
  PROVE  RescoreInv'
<1>1. PICK x : x = [At(k, "batch") EXCEPT !.batch = {}]
  OBVIOUS
<1>2. /\ command' = [command EXCEPT ![k] = x] /\ command[k].step = "write"
      /\ Score(command[k].batch, command[k].weights)
      /\ UNCHANGED <<config, weights, threshold, passports, scoring, torn,
                     outdated>>
  BY <1>1 DEF WriteScores, Move
<1>3. command[k] \in RunRecord /\ command[k].weights \in AnyWeights
  BY DEF RescoreInv, RescoreTypes, RunRecord
<1>4. /\ x \in RunRecord /\ x.step = "batch" /\ x.at = command[k].at
      /\ x.last = command[k].last /\ x.sure = command[k].sure
  BY <1>1, <1>3 DEF At, RunRecord
<1>5. \A c \in Commands : command'[c] = IF c = k THEN x ELSE command[c]
  BY <1>2 DEF RescoreInv, RescoreTypes
<1>6. /\ PassportIds' = PassportIds
      /\ \A p \in PassportIds : Current(p) \/ p \in command[k].batch => Current(p)'
      /\ \E n \in Nat : /\ passports' \in [1..n -> Groups]
                        /\ scored' \in [1..n -> AnyWeights]
  BY <1>2, <1>3, ScoresWritten DEF RescoreInv
<1>7. RescoreTypes'
  BY <1>2, <1>4, <1>6 DEF RescoreInv, RescoreTypes
<1>8. Reached(x)'
  BY <1>2, <1>4, <1>6 DEF RescoreInv, Reached
<1>9. \A c \in Commands : Reached(command[c])'
  <2>1. ASSUME NEW c \in Commands, c # k PROVE Reached(command[c])'
    <3>1. PICK y : y = command[c]
      OBVIOUS
    <3>2. Reached(y)'
      BY <1>2, <1>6, <3>1, StaysReached DEF RescoreInv
    <3> QED BY <1>5, <2>1, <3>1, <3>2 DEF Reached
  <2> QED BY <1>5, <1>8, <2>1 DEF Reached
<1>10. SuccessReachesAll'
  BY <1>2, <1>6 DEF RescoreInv, SuccessReachesAll, Current
<1>11. ScorersAreConsistent'
  BY <1>2 DEF RescoreInv, ScorersAreConsistent
<1> QED BY <1>7, <1>9, <1>10, <1>11 DEF RescoreInv


(* A step that leaves the runs alone, and every current score current.     *)
LEMMA RunsStay ==
  ASSUME RescoreInv, RescoreTypes',
         UNCHANGED <<weights, threshold, command, torn, outdated>>,
         \A p \in PassportIds' :
           \/ /\ p \in PassportIds /\ passports'[p] = passports[p]
              /\ Current(p) => Current(p)'
           \/ Current(p)'
  PROVE  RescoreInv'
<1>1. ASSUME NEW k \in Commands PROVE Reached(command[k])'
  <2>1. PICK y : y = command[k]
    OBVIOUS
  <2>2. Reached(y)'
    BY <2>1, StaysReached DEF RescoreInv
  <2> QED BY <2>1, <2>2 DEF Reached
<1>2. SuccessReachesAll'
  BY DEF RescoreInv, SuccessReachesAll, Current
<1>3. ScorersAreConsistent'
  BY DEF RescoreInv, ScorersAreConsistent
<1> QED BY <1>1, <1>2, <1>3 DEF RescoreInv

(* A scoring request saves its score, or not.                              *)
LEMMA ScoringEnds ==
  ASSUME RescoreInv, NEW s \in Scorers, EndScoring(s)
  PROVE  RescoreInv'
<1>1. PICK x : x = scoring[s]
  OBVIOUS
<1>2. x \in [passport : Nat, weights : AnyWeights]
  BY <1>1 DEF RescoreInv, RescoreTypes
<1>3. /\ scoring' = [scoring EXCEPT ![s] = Resting]
      /\ Score({x.passport}, x.weights) \/ UNCHANGED <<scored, late>>
      /\ UNCHANGED <<config, weights, threshold, passports, command, torn,
                     outdated>>
  BY <1>1 DEF EndScoring
<1>4. scoring' \in [Scorers -> [passport : Nat, weights : AnyWeights]]
  BY <1>3 DEF RescoreInv, RescoreTypes, Resting, AnyWeights
<1>5. CASE Score({x.passport}, x.weights)
  <2>1. /\ PassportIds' = PassportIds
        /\ \A p \in PassportIds : Current(p) => Current(p)'
        /\ \E n \in Nat : /\ passports' \in [1..n -> Groups]
                          /\ scored' \in [1..n -> AnyWeights]
    BY <1>2, <1>3, <1>5, ScoresWritten DEF RescoreInv
  <2>2. RescoreTypes'
    BY <1>3, <1>4, <2>1 DEF RescoreInv, RescoreTypes
  <2> QED BY <1>3, <2>1, <2>2, RunsStay
<1>6. CASE UNCHANGED <<scored, late>>
  <2>1. RescoreTypes'
    BY <1>3, <1>4, <1>6 DEF RescoreInv, RescoreTypes
  <2>2. PassportIds' = PassportIds /\ \A p : Current(p) => Current(p)'
    BY <1>3, <1>6 DEF PassportIds, Current
  <2> QED BY <1>3, <2>1, <2>2, RunsStay
<1> QED BY <1>3, <1>5, <1>6

(* A scoring request begins; its passport may be new.                      *)
LEMMA ScoringBegins ==
  ASSUME RescoreConstants, RescoreInv, NEW s \in Scorers, StartScoring(s)
  PROVE  RescoreInv'
<1>1. PICK n \in Nat :
        /\ PassportIds = 1..n /\ Cardinality(PassportIds) = n
        /\ passports \in [1..n -> Groups] /\ scored \in [1..n -> AnyWeights]
  BY PassportNumbers DEF RescoreInv
<1>2. UNCHANGED <<config, weights, threshold, command, torn, outdated, late>>
  BY DEF StartScoring
<1>3. CASE \E p \in PassportIds :
          /\ scoring' = [scoring EXCEPT ![s] =
               [passport |-> p, weights |-> weights[passports[p]]]]
          /\ UNCHANGED <<passports, scored>>
  <2>1. PICK p \in PassportIds :
          /\ scoring' = [scoring EXCEPT ![s] =
               [passport |-> p, weights |-> weights[passports[p]]]]
          /\ UNCHANGED <<passports, scored>>
    BY <1>3
  <2>2. p \in Nat /\ weights[passports[p]] \in AnyWeights
    BY <1>1 DEF RescoreInv, RescoreTypes
  <2>3. RescoreTypes'
    BY <1>2, <2>1, <2>2 DEF RescoreInv, RescoreTypes
  <2>4. PassportIds' = PassportIds /\ \A q : Current(q) => Current(q)'
    BY <1>2, <2>1 DEF PassportIds, Current
  <2> QED BY <1>2, <2>1, <2>3, <2>4, RunsStay
<1>4. ASSUME NEW g \in Groups, NEW p, p = Cardinality(PassportIds) + 1,
             passports' = [q \in 1..p |-> IF q = p THEN g ELSE passports[q]],
             scored' = [q \in 1..p |-> IF q = p THEN Unscored ELSE scored[q]],
             scoring' = [scoring EXCEPT ![s] =
               [passport |-> p, weights |-> weights[g]]]
      PROVE  RescoreInv'
  <2>1. p = n + 1 /\ p \in Nat /\ weights[g] \in AnyWeights
    BY <1>1, <1>4 DEF RescoreInv, RescoreTypes
  <2>2. /\ passports' \in [1..p -> Groups] /\ scored' \in [1..p -> AnyWeights]
        /\ PassportIds' = 1..p
    BY <1>1, <1>4, <2>1 DEF AnyWeights, Unscored, PassportIds
  <2>3. scoring' \in [Scorers -> [passport : Nat, weights : AnyWeights]]
    BY <1>4, <2>1 DEF RescoreInv, RescoreTypes
  <2>4. RescoreTypes'
    BY <1>2, <2>1, <2>2, <2>3 DEF RescoreInv, RescoreTypes
  <2>5. ASSUME NEW q \in 1..n
        PROVE  q \in PassportIds /\ passports'[q] = passports[q]
               /\ (Current(q) => Current(q)')
    BY <1>1, <1>2, <1>4, <2>1 DEF Current
  <2>6. Current(p)'
    BY <1>4, <2>1 DEF Current
  <2>7. \A q \in PassportIds' : q = p \/ q \in 1..n
    BY <2>1, <2>2
  <2> QED BY <1>2, <2>4, <2>5, <2>6, <2>7, RunsStay
<1> QED BY <1>3, <1>4 DEF StartScoring

(* The weights of some scorers are set.                                    *)
LEMMA WeightsCopied ==
  ASSUME RescoreInv, NEW k \in Commands, NEW groups, NEW from,
         NEW next \in {"binary", "create"}, from \in {"weighted", "binary"},
         Copy(k, groups, from, next),
         threshold' \in [Groups -> AnyWeights], ScorersAreConsistent'
  PROVE  RescoreInv'
<1>1. PICK v : v = command[k].weights
  OBVIOUS
<1>2. PICK changed : changed = {g \in groups : weights[g] # v}
  OBVIOUS
<1>3. /\ command[k].step = from
      /\ weights' = [g \in Groups |-> IF g \in groups THEN v ELSE weights[g]]
      /\ outdated' = outdated \cup changed
      /\ command' = [c \in Commands |->
           [IF c = k THEN At(k, next) ELSE command[c] EXCEPT !.sure = @ \ changed]]
      /\ UNCHANGED <<config, passports, scored, scoring, late>>
  BY <1>1, <1>2 DEF Copy
<1>4. v \in AnyWeights /\ command[k] \in RunRecord
  BY <1>1 DEF RescoreInv, RescoreTypes, RunRecord
<1>5. PICK n \in Nat :
        /\ PassportIds = 1..n
        /\ passports \in [1..n -> Groups] /\ scored \in [1..n -> AnyWeights]
  BY PassportNumbers DEF RescoreInv
<1>6. PassportIds' = PassportIds
  BY <1>3 DEF PassportIds
<1>7. \A p \in PassportIds :
        passports[p] \notin changed => (Current(p)' <=> Current(p))
  BY <1>2, <1>3, <1>5 DEF Current
<1>8. ASSUME NEW c \in Commands
      PROVE  command'[c] \in RunRecord /\ Reached(command[c])'
  <2>1. PICK x : x = IF c = k THEN At(k, next) ELSE command[c]
    OBVIOUS
  <2>2. /\ x \in RunRecord /\ x.at = command[c].at /\ x.last = command[c].last
        /\ x.batch = command[c].batch /\ x.sure = command[c].sure
        /\ x.step = IF c = k THEN next ELSE command[c].step
    BY <1>4, <2>1 DEF At, RunRecord, RescoreInv, RescoreTypes
  <2>3. PICK y : y = [x EXCEPT !.sure = @ \ changed]
    OBVIOUS
  <2>4. /\ y \in RunRecord /\ y.at = x.at /\ y.last = x.last /\ y.batch = x.batch
        /\ y.sure = x.sure \ changed /\ y.step = x.step
    BY <2>2, <2>3 DEF RunRecord
  <2>5. command'[c] = y
    BY <1>3, <2>1, <2>3
  <2>6. Reached(command[c])
    BY DEF RescoreInv
  <2>7. command[c].step \notin {"batch", "write"} => Reached(y)'
    BY <1>3, <1>6, <1>7, <2>2, <2>4, <2>6 DEF Reached
  <2>8. command[c].step \in {"batch", "write"} => Reached(y)'
    <3>1. command[c].step \in {"batch", "write"} => c # k
      BY <1>3
    <3> QED BY <1>3, <1>6, <1>7, <2>2, <2>4, <2>6, <3>1 DEF Reached
  <2> QED BY <2>4, <2>5, <2>7, <2>8 DEF Reached
<1>9. RescoreTypes'
  <2>1. weights' \in [Groups -> AnyWeights]
    BY <1>3, <1>4 DEF RescoreInv, RescoreTypes
  <2>2. command' \in [Commands -> RunRecord]
    BY <1>3, <1>8
  <2> QED BY <1>3, <2>1, <2>2 DEF RescoreInv, RescoreTypes
<1>10. SuccessReachesAll'
  <2>1. \A p \in PassportIds : ~Current(p) => passports[p] \in outdated
    BY DEF RescoreInv, SuccessReachesAll, Current
  <2>2. \A p \in PassportIds : ~Current(p)' => passports[p] \in outdated'
    BY <1>3, <1>7, <2>1
  <2> QED BY <1>3, <1>6, <2>2 DEF SuccessReachesAll, Current
<1> QED BY <1>8, <1>9, <1>10 DEF RescoreInv


(* The next passports of a community are read: those up to the last of     *)
(* them are in the batch, or were in one before.                           *)
LEMMA PassportsRead ==
  ASSUME RescoreConstants, RescoreInv, NEW k \in Commands, ReadPassports(k)
  PROVE  RescoreInv'
<1>1. PICK n \in Nat :
        /\ PassportIds = 1..n
        /\ passports \in [1..n -> Groups] /\ scored \in [1..n -> AnyWeights]
  BY PassportNumbers DEF RescoreInv
<1>2. PICK rest : rest = {p \in Of(command[k].at) : p > command[k].last}
  OBVIOUS
<1>3. PICK page : page = {p \in rest :
                       Cardinality({q \in rest : q <= p}) <= BatchLimit}
  OBVIOUS
<1>4. PICK last : last = CHOOSE p \in page : \A q \in page : q <= p
  OBVIOUS
<1>5. PICK x : x = IF page = {} THEN At(k, "count")
                   ELSE [At(k, "write") EXCEPT !.batch = page, !.last = last]
  OBVIOUS
<1>6. /\ command[k].step = "batch" /\ command' = [command EXCEPT ![k] = x]
      /\ UNCHANGED <<config, weights, threshold, passports, scored, scoring,
                     torn, outdated, late>>
  BY <1>2, <1>3, <1>4, <1>5 DEF ReadPassports, Move
<1>7. command[k] \in RunRecord
  BY DEF RescoreInv, RescoreTypes
<1>8. rest \in SUBSET (0..n)
  BY <1>1, <1>2 DEF Of
<1>9. /\ page \subseteq rest
      /\ rest # {} => page # {}
      /\ \A i \in page : \A j \in rest : j <= i => j \in page
  <2>1. page = FirstOf(rest, BatchLimit)
    BY <1>3 DEF FirstOf
  <2> QED BY <1>8, <2>1, FirstOnes DEF RescoreConstants
<1>10. page # {} => last \in page /\ \A q \in page : q <= last
  <2>1. page \in SUBSET (0..n)
    BY <1>8, <1>9
  <2>2. page # {} => \E m \in page : \A q \in page : q <= m
    BY <2>1, GreatestNumber
  <2> QED BY <1>4, <2>2
<1>11. page \in SUBSET Nat
  BY <1>8, <1>9
<1>12. CASE page = {}
  <2>1. x \in RunRecord /\ x.step = "count" /\ x.at = command[k].at
        /\ x.sure = command[k].sure
    BY <1>5, <1>7, <1>12 DEF At, RunRecord
  <2>2. \A p \in PassportIds : passports[p] = command[k].at => ~(p > command[k].last)
    BY <1>2, <1>9, <1>12 DEF Of
  <2>3. Reached(x)
    BY <1>6, <2>1, <2>2 DEF RescoreInv, Reached
  <2> QED BY <1>6, <2>1, <2>3, RunMoves
<1>13. CASE page # {}
  <2>1. /\ x \in RunRecord /\ x.step = "write" /\ x.at = command[k].at
        /\ x.sure = command[k].sure /\ x.batch = page /\ x.last = last
    <3>1. last \in Nat
      BY <1>10, <1>11, <1>13
    <3>2. x = [At(k, "write") EXCEPT !.batch = page, !.last = last]
      BY <1>5, <1>13
    <3> QED BY <1>7, <1>11, <3>1, <3>2 DEF At, RunRecord
  <2>2. ASSUME NEW p \in PassportIds, passports[p] = command[k].at,
               p > command[k].last
        PROVE  p > last \/ p \in page
    <3>1. p \in rest
      BY <1>2, <2>2 DEF Of
    <3>2. p \in Nat /\ last \in Nat
      <4>1. last \in page
        BY <1>10, <1>13
      <4> QED BY <1>1, <1>11, <4>1
    <3> QED BY <1>9, <1>10, <1>13, <3>1, <3>2
  <2>3. Reached(x)
    BY <1>6, <2>1, <2>2 DEF RescoreInv, Reached
  <2> QED BY <1>6, <2>1, <2>3, RunMoves
<1> QED BY <1>12, <1>13

(* The other steps of a run that write nothing but its own record.         *)
LEMMA RunSteps ==
  ASSUME RescoreConstants, RescoreInv, NEW k \in Commands,
         \/ StartCommand(k) \/ StartRescore(k) \/ ReadWeights(k)
         \/ ReadThreshold(k) \/ CreateRequest(k) \/ LoadScorer(k)
         \/ CountCommunity(k) \/ CommandFails(k) \/ CommandDies(k)
  PROVE  RescoreInv'
<1>1. command[k] \in RunRecord /\ config \in AnyWeights /\ Reached(command[k])
  BY DEF RescoreInv, RescoreTypes, AnyWeights
<1> DEFINE Walking == {"community", "batch", "write", "count"}
<1>2. ASSUME NEW x \in RunRecord, command' = [command EXCEPT ![k] = x],
             x.step \in Walking => x.at \in Groups,
             x.sure = {} \/ (/\ x.sure = command[k].sure
                             /\ command[k].step \notin {"batch", "write"}),
             UNCHANGED <<config, weights, threshold, passports, scored, scoring,
                         torn, outdated, late>>
      PROVE  RescoreInv'
  <2>1. Reached(x)
    BY <1>1, <1>2 DEF Reached
  <2> QED BY <1>2, <2>1, RunMoves
<1>3. ASSUME NEW step \in {"weights", "create"}, Move(k, "ready", At(k, step)),
             UNCHANGED <<config, weights, threshold, passports, scored, scoring,
                         torn, outdated, late>>
      PROVE  RescoreInv'
  <2>1. PICK x : x = At(k, step)
    OBVIOUS
  <2>2. x \in RunRecord /\ x.sure = command[k].sure /\ x.step \notin Walking
    BY <1>1, <2>1 DEF At, RunRecord
  <2> QED BY <1>2, <1>3, <2>1, <2>2 DEF Move
<1>4. CASE StartCommand(k) \/ StartRescore(k)
  BY <1>3, <1>4 DEF StartCommand, StartRescore
<1>5. CASE ReadWeights(k)
  <2>1. PICK x : x = [At(k, "threshold") EXCEPT !.weights = config]
    OBVIOUS
  <2>2. x \in RunRecord /\ x.sure = command[k].sure /\ x.step \notin Walking
    BY <1>1, <2>1 DEF At, RunRecord
  <2> QED BY <1>2, <1>5, <2>1, <2>2 DEF ReadWeights, Move
<1>6. CASE ReadThreshold(k)
  <2>1. PICK x : x = [At(k, "weighted") EXCEPT !.threshold = config]
    OBVIOUS
  <2>2. x \in RunRecord /\ x.sure = command[k].sure /\ x.step \notin Walking
    BY <1>1, <2>1 DEF At, RunRecord
  <2> QED BY <1>2, <1>6, <2>1, <2>2 DEF ReadThreshold, Move
<1>7. CASE CreateRequest(k)
  <2>1. PICK x : x = [At(k, "community") EXCEPT !.at = 1, !.status = "RUNNING"]
    OBVIOUS
  <2>2. x \in RunRecord /\ x.sure = command[k].sure /\ x.at = 1
    BY <1>1, <2>1 DEF At, RunRecord
  <2>3. x.at \in Groups
    BY <2>2 DEF RescoreConstants
  <2>4. /\ command' = [command EXCEPT ![k] = x] /\ command[k].step = "create"
        /\ UNCHANGED <<config, weights, threshold, passports, scored, scoring,
                       torn, outdated, late>>
    BY <1>7, <2>1 DEF CreateRequest, Move
  <2> QED BY <1>2, <2>2, <2>3, <2>4
<1>8. CASE LoadScorer(k)
  <2>1. PICK g : g = command[k].at
    OBVIOUS
  <2>2. PICK w : w = weights[g]
    OBVIOUS
  <2>3. PICK x : x = [At(k, "batch") EXCEPT !.weights = w, !.last = 0,
                                            !.sure = @ \cup {g}]
    OBVIOUS
  <2>4. /\ command[k].step = "community" /\ command' = [command EXCEPT ![k] = x]
        /\ UNCHANGED <<config, weights, threshold, passports, scored, scoring,
                       torn, outdated, late>>
    BY <1>8, <2>1, <2>2, <2>3 DEF LoadScorer, LoadScorerAt, Move
  <2>5. g \in Groups /\ g \in Nat /\ w \in AnyWeights
    BY <1>1, <2>1, <2>2, <2>4
       DEF Reached, RescoreInv, RescoreTypes, RescoreConstants
  <2>6. /\ x \in RunRecord /\ x.step = "batch" /\ x.at = g /\ x.last = 0
        /\ x.sure = command[k].sure \cup {g}
    BY <1>1, <2>1, <2>3, <2>5 DEF At, RunRecord
  <2>7. \A p \in PassportIds : p > 0
    BY PassportNumbers DEF RescoreInv
  <2>8. Reached(x)
    BY <1>1, <2>4, <2>5, <2>6, <2>7 DEF Reached
  <2> QED BY <2>4, <2>6, <2>8, RunMoves
<1>9. CASE CountCommunity(k)
  <2>1. PICK g : g = command[k].at
    OBVIOUS
  <2>2. PICK n \in Nat : Groups = 1..n /\ Cardinality(Groups) = n
    BY FS_Interval DEF RescoreConstants
  <2>3. g \in 1..n
    BY <1>1, <1>9, <2>1, <2>2
       DEF Reached, CountCommunity, CountCommunityAs
  <2>4. CASE g < n
    <3>1. PICK x : x = [At(k, "community") EXCEPT !.at = @ + 1, !.done = g]
      OBVIOUS
    <3>2. x \in RunRecord /\ x.sure = command[k].sure /\ x.at = g + 1
      <4>1. g \in Nat /\ g + 1 \in Nat
        BY <2>3
      <4>2. PICK y : y = At(k, "community")
        OBVIOUS
      <4>3. y \in RunRecord /\ y.sure = command[k].sure /\ y.at = g
        BY <1>1, <2>1, <4>2 DEF At, RunRecord
      <4>4. x = [y EXCEPT !.at = g + 1, !.done = g]
        BY <3>1, <4>2, <4>3
      <4> QED BY <4>1, <4>3, <4>4 DEF RunRecord
    <3>3. x.at \in Groups
      BY <2>2, <2>3, <2>4, <3>2
    <3>4. /\ command' = [command EXCEPT ![k] = x] /\ command[k].step = "count"
          /\ UNCHANGED <<config, weights, threshold, passports, scored, scoring,
                         torn, outdated, late>>
      BY <1>9, <2>1, <2>2, <2>4, <3>1 DEF CountCommunity, CountCommunityAs
    <3> QED BY <1>2, <3>2, <3>3, <3>4
  <2>5. CASE ~(g < n)
    <3>1. PICK x : x = [Over(k, "SUCCESS") EXCEPT !.done = g]
      OBVIOUS
    <3>2. x \in RunRecord /\ x.sure = {}
      BY <1>1, <2>1, <2>3, <3>1 DEF Over, Ready, RunRecord, AnyWeights
    <3>3. /\ command' = [command EXCEPT ![k] = x] /\ command[k].step = "count"
          /\ outdated' = outdated \ command[k].sure
          /\ UNCHANGED <<config, weights, threshold, passports, scored, scoring,
                         torn, late>>
      BY <1>9, <2>1, <2>2, <2>5, <3>1 DEF CountCommunity, CountCommunityAs
    <3>4. x.step \notin Walking
      BY <1>1, <3>1 DEF Over, Ready, RunRecord
    <3> QED BY <3>2, <3>3, <3>4, RunSucceeds
  <2> QED BY <2>4, <2>5
<1>10. CASE CommandFails(k) \/ CommandDies(k)
  <2>1. PICK left \in {"none", "RUNNING", "SUCCESS", "FAILED"} :
          /\ command' = [command EXCEPT ![k] = Over(k, left)]
          /\ UNCHANGED <<config, weights, threshold, passports, scored, scoring,
                         torn, outdated, late>>
    BY <1>1, <1>10 DEF CommandFails, CommandDies, RunRecord
  <2>2. PICK x : x = Over(k, left)
    OBVIOUS
  <2>3. x \in RunRecord /\ x.sure = {} /\ x.step \notin Walking
    BY <1>1, <2>2 DEF Over, Ready, RunRecord, AnyWeights
  <2> QED BY <1>2, <2>1, <2>2, <2>3
<1> QED BY <1>4, <1>5, <1>6, <1>7, <1>8, <1>9, <1>10


(* The copy of weights to the scorers.                                     *)
LEMMA WeightSteps ==
  ASSUME RescoreConstants, RescoreInv, NEW k \in Commands,
         UpdateWeighted(k) \/ UpdateBinary(k)
  PROVE  RescoreInv'
<1>1. /\ command[k].weights \in AnyWeights /\ command[k].threshold \in AnyWeights
      /\ Binary \subseteq Groups
  BY DEF RescoreInv, RescoreTypes, RunRecord, RescoreConstants
<1>2. CASE UpdateWeighted(k)
  <2>1. Copy(k, Groups \ Binary, "weighted", "binary")
        /\ UNCHANGED <<threshold, torn>>
    BY <1>2 DEF UpdateWeighted
  <2>2. \A g \in Binary : weights'[g] = weights[g]
    BY <1>1, <2>1 DEF Copy
  <2>3. ScorersAreConsistent' /\ threshold' \in [Groups -> AnyWeights]
    BY <2>1, <2>2 DEF RescoreInv, RescoreTypes, ScorersAreConsistent
  <2> QED BY <2>1, <2>3, WeightsCopied
<1>3. CASE UpdateBinary(k)
  <2>1. /\ Copy(k, Binary, "binary", "create")
        /\ threshold' = [g \in Groups |->
             IF g \in Binary THEN command[k].threshold ELSE threshold[g]]
        /\ torn' = IF command[k].weights = command[k].threshold
                   THEN torn \ Binary ELSE torn \cup Binary
    BY <1>3 DEF UpdateBinary, UpdateBinaryTo
  <2>2. \A g \in Binary : /\ weights'[g] = command[k].weights
                          /\ threshold'[g] = command[k].threshold
    BY <1>1, <2>1 DEF Copy
  <2>3. ScorersAreConsistent'
    BY <2>1, <2>2 DEF ScorersAreConsistent
  <2>4. threshold' \in [Groups -> AnyWeights]
    BY <1>1, <2>1 DEF RescoreInv, RescoreTypes
  <2> QED BY <2>1, <2>3, <2>4, WeightsCopied
<1> QED BY <1>2, <1>3

(* The invariant holds at the start, and every step keeps it.              *)
LEMMA RescoreInitInv ==
  ASSUME RescoreConstants, RescoreInit
  PROVE  RescoreInv
<1>1. PICK n \in Nat : FirstPassports \in [1..n -> Groups]
  BY DEF RescoreConstants
<1>2. RescoreTypes
  <2>1. /\ passports \in [1..n -> Groups] /\ scored \in [1..n -> AnyWeights]
        /\ config \in Versions
        /\ weights \in [Groups -> AnyWeights] /\ threshold \in [Groups -> AnyWeights]
    BY <1>1 DEF RescoreInit, AnyWeights
  <2>2. Ready \in RunRecord
    BY DEF Ready, RunRecord, AnyWeights
  <2>3. Resting \in [passport : Nat, weights : AnyWeights]
    BY DEF Resting, AnyWeights
  <2> QED BY <2>1, <2>2, <2>3 DEF RescoreInit, RescoreTypes
<1>3. \A p \in PassportIds : Current(p) /\ scored[p] = weights[passports[p]]
  BY <1>1 DEF RescoreInit, PassportIds, Current
<1>4. \A k \in Commands : Reached(command[k])
  BY <1>3 DEF RescoreInit, Ready, Reached
<1>5. SuccessReachesAll
  BY <1>3 DEF SuccessReachesAll
<1>6. ScorersAreConsistent
  BY DEF RescoreInit, RescoreConstants, ScorersAreConsistent
<1> QED BY <1>2, <1>4, <1>5, <1>6 DEF RescoreInv

(* Every step of the task, a request or the passport keeps the invariant.  *)
LEMMA RescoreStepInv ==
  ASSUME RescoreConstants, RescoreInv, [RescoreNext]_rescoreVars
  PROVE  RescoreInv'
<1>1. CASE Activate \/ UNCHANGED rescoreVars
  <2>1. UNCHANGED <<weights, threshold, passports, scored, command, scoring,
                    torn, outdated, late>>
        /\ config' \in Versions
    BY <1>1 DEF Activate, rescoreVars, RescoreInv, RescoreTypes
  <2>2. RescoreTypes'
    BY <2>1 DEF RescoreInv, RescoreTypes
  <2>3. PassportIds' = PassportIds /\ \A p : Current(p) => Current(p)'
    BY <2>1 DEF PassportIds, Current
  <2> QED BY <2>1, <2>2, <2>3, RunsStay
<1>2. ASSUME NEW k \in Commands, CommandNext(k) PROVE RescoreInv'
  BY <1>2, RunSteps, WeightSteps, PassportsRead, BatchWritten DEF CommandNext
<1>3. ASSUME NEW s \in Scorers, ScoringNext(s) PROVE RescoreInv'
  BY <1>3, ScoringBegins, ScoringEnds DEF ScoringNext
<1> QED BY <1>1, <1>2, <1>3 DEF RescoreNext

(* The invariant holds in every state.                                     *)
THEOREM RescoreInvariance ==
  ASSUME RescoreConstants
  PROVE  RescoreSpec => []RescoreInv
<1>1. RescoreInit => RescoreInv
  BY RescoreInitInv
<1>2. RescoreInv /\ [RescoreNext]_rescoreVars => RescoreInv'
  BY RescoreStepInv
<1> QED BY <1>1, <1>2, PTL DEF RescoreSpec

(* A recalculation that is recorded as a success has reached every score   *)
(* of its communities (recalculate_scores): none is of other weights than  *)
(* its scorer has, but one that was written with weights read before, or   *)
(* in a community whose weights have changed since.                        *)
THEOREM SuccessTheorem ==
  ASSUME RescoreConstants
  PROVE  RescoreSpec => []SuccessReachesAll
<1>1. RescoreInv => SuccessReachesAll
  BY DEF RescoreInv
<1> QED BY <1>1, RescoreInvariance, PTL

(* A binary scorer has its weights and its threshold from one              *)
(* configuration, unless an activation came between the two reads of the   *)
(* run that set them.                                                      *)
THEOREM ScorersTheorem ==
  ASSUME RescoreConstants
  PROVE  RescoreSpec => []ScorersAreConsistent
<1>1. RescoreInv => ScorersAreConsistent
  BY DEF RescoreInv
<1> QED BY <1>1, RescoreInvariance, PTL

-----------------------------------------------------------------------------
(***************************************************************************)
(* Pagination: the pages of a client that walks while rows come and go.    *)
(***************************************************************************)
PageSpec == PageInit /\ [][PageNext]_pageVars

(* There is room for the first three rows, and a page shows some.          *)
PageConstants == LastRow \in Nat /\ LastRow >= 3 /\ Limit \in Nat \ {0}

Ways == {"none", "down", "up", "ids", "times"}
WalkSteps == {"ask", "links", "end"}
Walking == [way : Ways, at : Nat, page : SUBSET RowIds, step : WalkSteps]

PageTypes ==
  /\ newest \in Nat /\ newest <= LastRow
  /\ rows \subseteq 1..newest /\ staying \subseteq rows
  /\ time \in Nat /\ times \in [RowIds -> Nat] /\ \A i \in RowIds : times[i] <= time
  /\ walk \in Walking /\ seen \subseteq RowIds

(* By cursors: what was shown is on one side of the cursor, and so is all  *)
(* that stayed and was not shown on the other.                             *)
CursorInv ==
  /\ walk.way = "none" => seen = {} /\ walk.step = "end"
  /\ walk.way \in {"none", "down", "up"} => ~repeated
  /\ walk.way = "down" =>
       /\ \A i \in seen : i >= walk.at
       /\ \A i \in staying : i >= walk.at => i \in seen
  /\ walk.way = "up" =>
       /\ \A i \in seen : i <= walk.at
       /\ \A i \in staying : i <= walk.at => i \in seen
  /\ walk.way \in {"down", "up"} /\ walk.step = "links" => walk.page # {}
  /\ walk.way \in {"down", "up"} /\ walk.step = "end" => staying \subseteq seen

(* By offsets: the place of a row among the rows, in the order of a key.   *)
Place(key, i) == Cardinality({j \in rows : key[j] <= key[i]})
SortKey == IF walk.way = "ids" THEN [i \in RowIds |-> i] ELSE times

(* The rows that were shown are those before the offset: the order is that *)
(* of the ids, or of timestamps that differ.                               *)
OffsetInv ==
  walk.way = "ids" \/ (walk.way = "times" /\ ~mixed) =>
    /\ ~repeated /\ walk.step # "links"
    /\ \A i, j \in rows : i # j => SortKey[i] # SortKey[j]
    /\ walk.step = "ask" =>
         /\ seen = {i \in rows : Place(SortKey, i) <= walk.at}
         /\ walk.at <= Cardinality(rows)
    /\ walk.step = "end" => staying \subseteq seen

PageInv == PageTypes /\ CursorInv /\ OffsetInv

(* The rows are numbers up to a bound, and finitely many.                  *)
LEMMA RowNumbers ==
  ASSUME PageConstants, PageTypes
  PROVE  /\ rows \subseteq RowIds /\ rows \in SUBSET (0..LastRow) /\ rows \subseteq Nat
         /\ IsFiniteSet(rows) /\ Cardinality(rows) \in Nat
         /\ RowIds \subseteq Nat /\ 0 \notin RowIds
<1>1. rows \subseteq RowIds /\ RowIds \subseteq 0..LastRow /\ RowIds \subseteq Nat
  BY DEF PageTypes, PageConstants, RowIds
<1>2. IsFiniteSet(0..LastRow)
  BY FS_Interval DEF PageConstants
<1>3. IsFiniteSet(rows)
  BY <1>1, <1>2, FS_Subset
<1> QED BY <1>1, <1>3, FS_CardinalityType DEF RowIds

(* The last n of some ids, when there are any, are some of them, and no id *)
(* after one of them is left out.                                          *)
LEMMA LastOnes ==
  ASSUME NEW N \in Nat, NEW S \in SUBSET (0..N), NEW n \in Nat \ {0}
  PROVE  /\ Greatest(S, n) \subseteq S
         /\ S # {} => Greatest(S, n) # {}
         /\ \A i \in Greatest(S, n) : \A j \in S : i <= j => j \in Greatest(S, n)
<1> DEFINE From(i) == {j \in S : j >= i}
<1>1. IsFiniteSet(S)
  <2>1. IsFiniteSet(0..N)
    BY FS_Interval
  <2> QED BY <2>1, FS_Subset
<1>2. S \in SUBSET Nat
  OBVIOUS
<1>3. \A i \in S : IsFiniteSet(From(i)) /\ Cardinality(From(i)) \in Nat
  <2>1. \A i \in S : From(i) \subseteq S
    OBVIOUS
  <2> HIDE DEF From
  <2> QED BY <1>1, <2>1, FS_Subset, FS_CardinalityType
<1>4. ASSUME S # {} PROVE Greatest(S, n) # {}
  <2>1. PICK m \in S : \A k \in S : k <= m
    BY <1>4, GreatestNumber
  <2>2. From(m) = {m}
    <3>1. \A k \in S : k >= m => k = m
      BY <1>2, <2>1
    <3>2. m >= m
      BY <1>2
    <3> QED BY <3>1, <3>2
  <2>3. Cardinality(From(m)) <= n
    <3>1. Cardinality(From(m)) = 1
      BY <2>2, FS_Singleton
    <3> QED BY <3>1
  <2> QED BY <2>3 DEF Greatest
<1>5. ASSUME NEW i \in Greatest(S, n), NEW j \in S, i <= j PROVE j \in Greatest(S, n)
  <2>1. i \in S /\ Cardinality(From(i)) <= n
    BY DEF Greatest
  <2>2. From(j) \subseteq From(i)
    <3>1. \A k \in S : k >= j => k >= i
      BY <1>2, <1>5, <2>1
    <3> QED BY <3>1
  <2>3. Cardinality(From(j)) <= Cardinality(From(i))
    <3> HIDE DEF From
    <3> QED BY <1>3, <2>1, <2>2, FS_Subset
  <2>4. Cardinality(From(j)) <= n
    <3>1. Cardinality(From(j)) \in Nat /\ Cardinality(From(i)) \in Nat
      BY <1>3, <2>1
    <3> HIDE DEF From
    <3> QED BY <2>1, <2>3, <3>1
  <2> QED BY <2>4 DEF Greatest
<1> QED BY <1>4, <1>5 DEF Greatest

(* The ends of a page.                                                     *)
LEMMA PageEnds ==
  ASSUME PageConstants, NEW S \in SUBSET RowIds, S # {}
  PROVE  /\ Lowest(S) \in S /\ \A j \in S : Lowest(S) <= j
         /\ Highest(S) \in S /\ \A j \in S : j <= Highest(S)
         /\ Lowest(S) \in Nat /\ Highest(S) \in Nat
<1>1. S \in SUBSET (0..LastRow) /\ S \in SUBSET Nat
  BY DEF RowIds, PageConstants
<1>2. \E m \in S : \A n \in S : m <= n
  BY <1>1, LeastNumber
<1>3. \E m \in S : \A n \in S : n <= m
  BY <1>1, GreatestNumber DEF PageConstants
<1>4. Lowest(S) \in S /\ \A j \in S : Lowest(S) <= j
  BY <1>2 DEF Lowest
<1>5. Highest(S) \in S /\ \A j \in S : j <= Highest(S)
  BY <1>3 DEF Highest
<1> QED BY <1>1, <1>4, <1>5

(* What a page is shown as, field by field.                                *)
LEMMA ShownWalk ==
  ASSUME PageTypes, NEW page \in SUBSET RowIds, NEW at \in Nat, NEW step \in WalkSteps,
         Show(page, at, step)
  PROVE  /\ walk' \in Walking /\ walk'.way = walk.way /\ walk'.at = at
         /\ walk'.page = page /\ walk'.step = step
         /\ seen' = seen \cup page /\ repeated' = (repeated \/ seen \cap page # {})
         /\ UNCHANGED <<rows, newest, times, time, staying, mixed>>
         /\ PageTypes'
<1>1. walk' = [walk EXCEPT !.page = page, !.at = at, !.step = step] /\ walk \in Walking
  BY DEF Show, PageTypes
<1>2. /\ walk' \in Walking /\ walk'.way = walk.way /\ walk'.at = at
      /\ walk'.page = page /\ walk'.step = step
  BY <1>1 DEF Walking
<1>3. /\ seen' = seen \cup page /\ repeated' = (repeated \/ seen \cap page # {})
      /\ UNCHANGED <<rows, newest, times, time, staying, mixed>>
  BY DEF Show
<1> QED BY <1>2, <1>3 DEF PageTypes, RowIds

(* A page downwards leaves nothing out that stayed, and repeats nothing.   *)
LEMMA DownStep ==
  ASSUME PageConstants, PageInv, PageDown
  PROVE  PageInv'
<1> USE DEF PageInv
<1>1. PICK S : S = {i \in rows : i < walk.at}
  OBVIOUS
<1>2. PICK page : page = Greatest(S, Limit)
  OBVIOUS
<1>3. /\ walk.way = "down" /\ walk.step = "ask"
      /\ IF page = {} THEN Show({}, walk.at, "end") ELSE Show(page, Lowest(page), "links")
  BY <1>1, <1>2 DEF PageDown, Asks, ShowFrom
<1>4. walk.at \in Nat /\ S \in SUBSET (0..LastRow) /\ S \subseteq RowIds /\ Limit \in Nat \ {0}
  BY <1>1, RowNumbers DEF PageTypes, Walking, PageConstants
<1>5. /\ page \subseteq S
      /\ S # {} => page # {}
      /\ \A i \in page : \A j \in S : i <= j => j \in page
  BY <1>2, <1>4, LastOnes DEF PageConstants
<1>6. /\ ~repeated /\ \A i \in seen : i >= walk.at
      /\ \A i \in staying : i >= walk.at => i \in seen
      /\ staying \subseteq rows /\ rows \subseteq Nat
  BY <1>3, RowNumbers DEF CursorInv, PageTypes
<1>7. CASE page = {}
  <2>1. {} \in SUBSET RowIds /\ "end" \in WalkSteps
    BY DEF WalkSteps
  <2>2. /\ walk'.way = "down" /\ walk'.at = walk.at /\ walk'.step = "end"
        /\ seen' = seen \cup {} /\ repeated' = (repeated \/ seen \cap {} # {})
        /\ staying' = staying /\ PageTypes'
    BY <1>3, <1>4, <1>7, <2>1, ShownWalk
  <2>3. seen' = seen /\ ~repeated'
    BY <1>6, <2>2
  <2>4. \A i \in staying : i \in seen
    BY <1>1, <1>4, <1>5, <1>6, <1>7
  <2> QED BY <1>6, <2>2, <2>3, <2>4 DEF CursorInv, OffsetInv
<1>8. CASE page # {}
  <2>1. page \in SUBSET RowIds /\ "links" \in WalkSteps
    BY <1>4, <1>5 DEF WalkSteps
  <2>2. PICK low : low = Lowest(page)
    OBVIOUS
  <2>3. low \in page /\ low \in Nat /\ \A j \in page : low <= j
    BY <1>8, <2>1, <2>2, PageEnds
  <2>4. /\ walk'.way = "down" /\ walk'.at = low /\ walk'.step = "links"
        /\ walk'.page = page
        /\ seen' = seen \cup page /\ repeated' = (repeated \/ seen \cap page # {})
        /\ staying' = staying /\ PageTypes'
    BY <1>3, <1>8, <2>1, <2>2, <2>3, ShownWalk
  <2>5. \A i \in page : i < walk.at /\ i \in Nat
    BY <1>1, <1>4, <1>5 DEF RowIds
  <2>6. seen \cap page = {}
    BY <1>4, <1>6, <2>5
  <2>7. ~repeated'
    BY <1>6, <2>4, <2>6
  <2>8. \A i \in seen' : i >= low
    <3>1. ASSUME NEW i \in seen PROVE i >= low
      <4>1. i >= walk.at /\ low < walk.at
        BY <1>6, <2>3, <2>5
      <4>2. i \in Nat
        BY RowNumbers DEF PageTypes
      <4> QED BY <1>4, <2>3, <4>1, <4>2
    <3> QED BY <2>3, <2>4, <2>5, <3>1
  <2>9. \A i \in staying : i >= low => i \in seen'
    <3>1. ASSUME NEW i \in staying, i >= low PROVE i \in seen'
      <4>1. i \in Nat /\ i \in rows
        BY <1>6
      <4>2. CASE i >= walk.at
        BY <1>6, <2>4, <4>2
      <4>3. CASE i < walk.at
        BY <1>1, <1>5, <2>3, <2>4, <3>1, <4>1, <4>3
      <4> QED BY <1>4, <4>1, <4>2, <4>3
    <3> QED BY <3>1
  <2> QED BY <1>8, <2>4, <2>7, <2>8, <2>9 DEF CursorInv, OffsetInv
<1> QED BY <1>7, <1>8

(* A page upwards, likewise.                                               *)
LEMMA UpStep ==
  ASSUME PageConstants, PageInv, PageUp
  PROVE  PageInv'
<1> USE DEF PageInv
<1>1. PICK S : S = {i \in rows : i > walk.at}
  OBVIOUS
<1>2. PICK page : page = Least(S, Limit)
  OBVIOUS
<1>3. /\ walk.way = "up" /\ walk.step = "ask"
      /\ IF page = {} THEN Show({}, walk.at, "end") ELSE Show(page, Highest(page), "links")
  BY <1>1, <1>2 DEF PageUp, Asks, ShowFrom
<1>4. walk.at \in Nat /\ S \in SUBSET (0..LastRow) /\ S \subseteq RowIds /\ Limit \in Nat \ {0}
  BY <1>1, RowNumbers DEF PageTypes, Walking, PageConstants
<1>5. /\ page \subseteq S
      /\ S # {} => page # {}
      /\ \A i \in page : \A j \in S : j <= i => j \in page
  <2>1. page = FirstOf(S, Limit)
    BY <1>2 DEF FirstOf, Least
  <2> QED BY <1>4, <2>1, FirstOnes DEF PageConstants
<1>6. /\ ~repeated /\ \A i \in seen : i <= walk.at
      /\ \A i \in staying : i <= walk.at => i \in seen
      /\ staying \subseteq rows /\ rows \subseteq Nat
  BY <1>3, RowNumbers DEF CursorInv, PageTypes
<1>7. CASE page = {}
  <2>1. {} \in SUBSET RowIds /\ "end" \in WalkSteps
    BY DEF WalkSteps
  <2>2. /\ walk'.way = "up" /\ walk'.at = walk.at /\ walk'.step = "end"
        /\ seen' = seen \cup {} /\ repeated' = (repeated \/ seen \cap {} # {})
        /\ staying' = staying /\ PageTypes'
    BY <1>3, <1>4, <1>7, <2>1, ShownWalk
  <2>3. seen' = seen /\ ~repeated'
    BY <1>6, <2>2
  <2>4. \A i \in staying : i \in seen
    BY <1>1, <1>4, <1>5, <1>6, <1>7
  <2> QED BY <1>6, <2>2, <2>3, <2>4 DEF CursorInv, OffsetInv
<1>8. CASE page # {}
  <2>1. page \in SUBSET RowIds /\ "links" \in WalkSteps
    BY <1>4, <1>5 DEF WalkSteps
  <2>2. PICK top : top = Highest(page)
    OBVIOUS
  <2>3. top \in page /\ top \in Nat /\ \A j \in page : j <= top
    BY <1>8, <2>1, <2>2, PageEnds
  <2>4. /\ walk'.way = "up" /\ walk'.at = top /\ walk'.step = "links"
        /\ walk'.page = page
        /\ seen' = seen \cup page /\ repeated' = (repeated \/ seen \cap page # {})
        /\ staying' = staying /\ PageTypes'
    BY <1>3, <1>8, <2>1, <2>2, <2>3, ShownWalk
  <2>5. \A i \in page : i > walk.at /\ i \in Nat
    BY <1>1, <1>4, <1>5 DEF RowIds
  <2>6. seen \cap page = {}
    BY <1>4, <1>6, <2>5
  <2>7. ~repeated'
    BY <1>6, <2>4, <2>6
  <2>8. \A i \in seen' : i <= top
    <3>1. ASSUME NEW i \in seen PROVE i <= top
      <4>1. i <= walk.at /\ top > walk.at
        BY <1>6, <2>3, <2>5
      <4>2. i \in Nat
        BY RowNumbers DEF PageTypes
      <4> QED BY <1>4, <2>3, <4>1, <4>2
    <3> QED BY <2>3, <2>4, <2>5, <3>1
  <2>9. \A i \in staying : i <= top => i \in seen'
    <3>1. ASSUME NEW i \in staying, i <= top PROVE i \in seen'
      <4>1. i \in Nat /\ i \in rows
        BY <1>6
      <4>2. CASE i <= walk.at
        BY <1>6, <2>4, <4>2
      <4>3. CASE i > walk.at
        BY <1>1, <1>5, <2>3, <2>4, <3>1, <4>1, <4>3
      <4> QED BY <1>4, <4>1, <4>2, <4>3
    <3> QED BY <3>1
  <2> QED BY <1>8, <2>4, <2>7, <2>8, <2>9 DEF CursorInv, OffsetInv
<1> QED BY <1>7, <1>8

(* A row that comes is after all others, by its id and by its timestamp.   *)
LEMMA InsertStep ==
  ASSUME PageConstants, PageInv, InsertRow
  PROVE  PageInv'
<1> USE DEF PageInv
<1>1. PICK m : m = newest + 1
  OBVIOUS
<1>2. PICK now : now = time + 1
  OBVIOUS
<1>3. /\ m \in RowIds /\ m \in Nat /\ newest \in Nat /\ now \in Nat /\ time \in Nat
      /\ time' = now /\ newest' = m /\ rows' = rows \cup {m}
      /\ times' = [times EXCEPT ![m] = now]
      /\ UNCHANGED <<walk, seen, repeated, staying, mixed>>
  BY <1>1, <1>2 DEF InsertRow, NewTime, PageTypes, PageConstants, RowIds
<1>4. /\ m \notin rows /\ \A i \in rows : i < m
  BY <1>1, <1>3 DEF PageTypes
<1>5. /\ times' \in [RowIds -> Nat] /\ times'[m] = now
      /\ \A i \in RowIds : i # m => times'[i] = times[i]
      /\ \A i \in RowIds : times[i] \in Nat /\ times[i] <= time
  BY <1>3 DEF PageTypes
<1>6. PageTypes'
  <2>1. \A i \in RowIds : times'[i] <= now
    BY <1>2, <1>3, <1>5
  <2>2. rows' \subseteq 1..m /\ m <= LastRow
    <3>1. rows \subseteq 1..newest
      BY DEF PageTypes
    <3>2. \A i \in 1..newest : i \in 1..m
      BY <1>1, <1>3
    <3>3. m \in 1..m /\ m <= LastRow
      BY <1>3 DEF RowIds, PageConstants
    <3> QED BY <1>3, <3>1, <3>2, <3>3
  <2> QED BY <1>3, <1>5, <2>1, <2>2 DEF PageTypes, RowIds
<1>7. CursorInv'
  BY <1>3 DEF CursorInv
<1>8. ASSUME walk.way = "ids" \/ (walk.way = "times" /\ ~mixed) PROVE OffsetInv'
  <2>1. PICK key, new : key = SortKey /\ new = SortKey'
    OBVIOUS
  <2>2. rows \subseteq RowIds /\ IsFiniteSet(rows) /\ Cardinality(rows) \in Nat
    BY RowNumbers
  <2>3. /\ \A i \in rows : new[i] = key[i] /\ key[i] \in Nat
        /\ \A i \in rows : key[i] < new[m]
        /\ new[m] \in Nat
    <3>1. CASE walk.way = "ids"
      <4>1. key = [i \in RowIds |-> i] /\ new = [i \in RowIds |-> i]
        BY <1>3, <2>1, <3>1 DEF SortKey
      <4>2. \A i \in RowIds : key[i] = i /\ new[i] = i
        BY <4>1
      <4>3. \A i \in rows : i \in Nat /\ i \in RowIds /\ i < m
        BY <1>4, <2>2 DEF RowIds
      <4> QED BY <1>3, <4>2, <4>3
    <3>2. CASE walk.way = "times"
      <4>1. key = times /\ new = times'
        BY <1>3, <2>1, <3>2 DEF SortKey
      <4>2. \A i \in rows : i \in RowIds /\ i # m
        BY <1>4, <2>2
      <4>3. ASSUME NEW i \in rows PROVE times[i] < now
        <5>1. times[i] \in Nat /\ times[i] <= time
          BY <1>5, <4>2
        <5> QED BY <1>2, <1>3, <5>1
      <4> QED BY <1>3, <1>5, <4>1, <4>2, <4>3
    <3> QED BY <1>8, <3>1, <3>2
  <2>4. /\ ~repeated /\ walk.step # "links"
        /\ \A i, j \in rows : i # j => key[i] # key[j]
        /\ walk.step = "ask" =>
             /\ seen = {i \in rows : Place(key, i) <= walk.at}
             /\ walk.at <= Cardinality(rows)
        /\ walk.step = "end" => staying \subseteq seen
    BY <1>8, <2>1 DEF OffsetInv
  <2>5. ASSUME NEW i \in rows', NEW j \in rows', i # j PROVE new[i] # new[j]
    <3>1. CASE i \in rows /\ j \in rows
      BY <2>3, <2>4, <2>5, <3>1
    <3>2. CASE i \in rows /\ j = m
      BY <2>3, <3>2
    <3>3. CASE i = m /\ j \in rows
      BY <2>3, <3>3
    <3> QED BY <1>3, <2>5, <3>1, <3>2, <3>3
  <2>6. Cardinality(rows') = Cardinality(rows) + 1
    BY <1>3, <1>4, <2>2, FS_AddElement
  <2>7. ASSUME NEW i \in rows
        PROVE  Cardinality({j \in rows' : new[j] <= new[i]}) = Place(key, i)
    <3>1. ~(new[m] <= new[i])
      BY <2>3
    <3>2. \A j \in rows : new[j] <= new[i] <=> key[j] <= key[i]
      BY <2>3
    <3>3. {j \in rows' : new[j] <= new[i]} = {j \in rows : key[j] <= key[i]}
      BY <1>3, <3>1, <3>2
    <3> QED BY <3>3 DEF Place
  <2>8. Cardinality({j \in rows' : new[j] <= new[m]}) = Cardinality(rows')
    <3>1. \A j \in rows : new[j] <= new[m]
      BY <2>3
    <3>2. new[m] <= new[m]
      BY <2>3
    <3>3. {j \in rows' : new[j] <= new[m]} = rows'
      BY <1>3, <3>1, <3>2
    <3> QED BY <3>3
  <2>9. walk.step = "ask" =>
          /\ seen = {i \in rows' : Cardinality({j \in rows' : new[j] <= new[i]}) <= walk.at}
          /\ walk.at <= Cardinality(rows')
    <3>1. ASSUME walk.step = "ask"
          PROVE  /\ \A i \in rows :
                      Cardinality({j \in rows' : new[j] <= new[i]}) <= walk.at <=> i \in seen
                 /\ ~(Cardinality({j \in rows' : new[j] <= new[m]}) <= walk.at)
                 /\ walk.at <= Cardinality(rows')
                 /\ seen \subseteq rows
      <4>1. walk.at \in Nat
        BY DEF PageTypes, Walking
      <4> QED BY <2>2, <2>4, <2>6, <2>7, <2>8, <3>1, <4>1
    <3> QED BY <1>3, <1>4, <3>1
  <2> QED BY <1>3, <2>1, <2>4, <2>5, <2>9 DEF OffsetInv, Place
<1>9. ASSUME ~(walk.way = "ids" \/ (walk.way = "times" /\ ~mixed)) PROVE OffsetInv'
  BY <1>3, <1>9 DEF OffsetInv
<1> QED BY <1>6, <1>7, <1>8, <1>9

(* A row goes, or gets another timestamp.                                  *)
LEMMA ChangeStep ==
  ASSUME PageConstants, PageInv, DeleteRow \/ Rescore
  PROVE  PageInv'
<1> USE DEF PageInv
<1>1. CASE DeleteRow
  <2>1. PICK i \in rows : rows' = rows \ {i} /\ staying' = staying \ {i}
    BY <1>1 DEF DeleteRow
  <2>2. /\ UNCHANGED <<newest, times, time, walk, seen, repeated, mixed>>
        /\ walk.way \in {"down", "up"}
    BY <1>1 DEF DeleteRow
  <2>3. PageTypes'
    BY <2>1, <2>2 DEF PageTypes, RowIds
  <2> QED BY <2>1, <2>2, <2>3 DEF CursorInv, OffsetInv
<1>2. CASE Rescore
  <2>1. PICK now : now = time + 1
    OBVIOUS
  <2>2. PICK i \in rows : times' = [times EXCEPT ![i] = now]
    BY <1>2, <2>1 DEF Rescore
  <2>3. /\ UNCHANGED <<rows, newest, walk, seen, repeated, staying>>
        /\ mixed' = TRUE /\ time' = now /\ now \in Nat /\ time \in Nat
    BY <1>2, <2>1 DEF Rescore, NewTime, PageTypes
  <2>4. /\ times' \in [RowIds -> Nat]
        /\ \A j \in RowIds : times'[j] = times[j] \/ times'[j] = now
        /\ \A j \in RowIds : times[j] \in Nat /\ times[j] <= time
    BY <2>2, <2>3 DEF PageTypes
  <2>5. \A j \in RowIds : times'[j] <= now
    <3>1. ASSUME NEW j \in RowIds PROVE times'[j] <= now
      <4>1. times[j] \in Nat /\ times[j] <= time /\ times'[j] \in Nat
        BY <2>4
      <4>2. times'[j] = times[j] \/ times'[j] = now
        BY <2>4
      <4> QED BY <2>1, <2>3, <4>1, <4>2
    <3> QED BY <3>1
  <2>6. PageTypes'
    BY <2>3, <2>4, <2>5 DEF PageTypes, RowIds
  <2>7. CursorInv'
    BY <2>3 DEF CursorInv
  <2>8. OffsetInv'
    <3>1. CASE walk.way = "ids"
      <4>1. SortKey' = SortKey /\ \A k : Place(k, i)' = Place(k', i)
        BY <2>3, <3>1 DEF SortKey, RowIds, Place
      <4>2. \A k, j : Place(k, j) = Cardinality({r \in rows : k[r] <= k[j]})
        BY DEF Place
      <4> QED BY <2>3, <3>1, <4>1 DEF OffsetInv, Place
    <3>2. CASE walk.way # "ids"
      BY <2>3, <3>2 DEF OffsetInv
    <3> QED BY <3>1, <3>2
  <2> QED BY <2>6, <2>7, <2>8
<1> QED BY <1>1, <1>2

(* A link is followed: on, to the end, or back up from the last page.      *)
LEMMA LinkStep ==
  ASSUME PageConstants, PageInv, FollowLink
  PROVE  PageInv'
<1> USE DEF PageInv
<1>1. PICK below, above, top :
        /\ below = {i \in rows : i < walk.at} /\ above = {i \in rows : i > walk.at}
        /\ top = Highest(walk.page)
  OBVIOUS
<1>2. /\ walk.step = "links" /\ walk \in Walking
      /\ UNCHANGED <<rows, newest, times, time, repeated, mixed>>
  BY DEF FollowLink, PageTypes
<1>3. \/ /\ walk' = [walk EXCEPT !.step =
               IF (IF walk.way = "down" THEN below ELSE above) = {} THEN "end" ELSE "ask"]
         /\ UNCHANGED <<seen, staying>>
      \/ /\ walk.way = "down" /\ below = {}
         /\ walk' = [NoWalk EXCEPT !.way = "up", !.at = top, !.step = "ask"]
         /\ seen' = walk.page /\ staying' = {i \in rows : i > top}
  BY <1>1 DEF FollowLink
<1>4. walk.at \in Nat /\ rows \subseteq Nat /\ staying \subseteq rows /\ walk.way # "none"
  BY <1>2, RowNumbers DEF PageTypes, Walking, CursorInv
<1>5. CASE /\ walk' = [walk EXCEPT !.step =
                 IF (IF walk.way = "down" THEN below ELSE above) = {} THEN "end" ELSE "ask"]
           /\ UNCHANGED <<seen, staying>>
  <2>1. PICK step \in {"ask", "end"} :
          /\ walk' = [walk EXCEPT !.step = step]
          /\ step = "end" => (IF walk.way = "down" THEN below ELSE above) = {}
    BY <1>5
  <2>2. /\ walk' \in Walking /\ walk'.way = walk.way /\ walk'.at = walk.at
        /\ walk'.step = step /\ walk'.page = walk.page
    BY <1>2, <2>1 DEF Walking, WalkSteps
  <2>3. PageTypes'
    BY <1>2, <1>5, <2>2 DEF PageTypes, RowIds
  <2>4. walk.way = "down" /\ step = "end" => staying \subseteq seen
    BY <1>1, <1>4, <2>1 DEF CursorInv
  <2>5. walk.way = "up" /\ step = "end" => staying \subseteq seen
    BY <1>1, <1>4, <2>1 DEF CursorInv
  <2>6. CursorInv'
    BY <1>2, <1>4, <1>5, <2>1, <2>2, <2>4, <2>5 DEF CursorInv
  <2>7. OffsetInv'
    BY <1>2, <2>2 DEF OffsetInv
  <2> QED BY <2>3, <2>6, <2>7
<1>6. CASE /\ walk.way = "down" /\ below = {}
           /\ walk' = [NoWalk EXCEPT !.way = "up", !.at = top, !.step = "ask"]
           /\ seen' = walk.page /\ staying' = {i \in rows : i > top}
  <2>1. walk.page \in SUBSET RowIds /\ walk.page # {} /\ ~repeated
    BY <1>2, <1>6 DEF Walking, CursorInv
  <2>2. top \in Nat /\ \A j \in walk.page : j <= top
    BY <1>1, <2>1, PageEnds
  <2>3. walk' \in Walking /\ walk'.way = "up" /\ walk'.at = top /\ walk'.step = "ask"
    BY <1>6, <2>2 DEF NoWalk, Walking, Ways, WalkSteps
  <2>4. PageTypes'
    BY <1>2, <1>6, <2>1, <2>3 DEF PageTypes, RowIds
  <2>5. \A i \in staying' : ~(i <= top)
    BY <1>4, <1>6, <2>2
  <2>6. CursorInv'
    BY <1>2, <1>6, <2>1, <2>2, <2>3, <2>5 DEF CursorInv
  <2>7. OffsetInv'
    BY <2>3 DEF OffsetInv
  <2> QED BY <2>4, <2>6, <2>7
<1> QED BY <1>3, <1>5, <1>6

(* A walk begins.                                                          *)
LEMMA StartStep ==
  ASSUME PageConstants, PageInv, StartWalk
  PROVE  PageInv'
<1> USE DEF PageInv
<1>0. PICK way \in {"down", "ids", "times"} :
        walk' = [NoWalk EXCEPT !.way = way, !.step = "ask",
                               !.at = IF way = "down" THEN LastRow + 1 ELSE 0]
  BY DEF StartWalk
<1>9. PICK at : at = IF way = "down" THEN LastRow + 1 ELSE 0
  OBVIOUS
<1>1. /\ at = IF way = "down" THEN LastRow + 1 ELSE 0
      /\ walk' = [NoWalk EXCEPT !.way = way, !.step = "ask", !.at = at]
  BY <1>0, <1>9
<1>2. /\ walk = NoWalk /\ staying' = rows
      /\ mixed' = (\E i, j \in rows : i # j /\ times[i] = times[j])
      /\ UNCHANGED <<rows, newest, times, time, seen, repeated>>
  BY DEF StartWalk
<1>3. seen = {} /\ ~repeated
  BY <1>2 DEF CursorInv, NoWalk
<1>4. at \in Nat
  <2>1. LastRow + 1 \in Nat /\ 0 \in Nat
    BY DEF PageConstants
  <2> QED BY <1>9, <2>1, Zenon
<1>5. walk' \in Walking /\ walk'.way = way /\ walk'.at = at /\ walk'.step = "ask"
  BY <1>1, <1>4 DEF NoWalk, Walking, Ways, WalkSteps
<1>6. PageTypes'
  BY <1>2, <1>5 DEF PageTypes, RowIds
<1>7. CursorInv'
  <2>1. ASSUME way = "down", NEW i \in rows PROVE ~(i >= at)
    BY <1>1, <2>1, RowNumbers DEF PageConstants
  <2> QED BY <1>1, <1>2, <1>3, <1>5, <2>1 DEF CursorInv
<1>8. OffsetInv'
  <2>1. ASSUME way = "ids" \/ (way = "times" /\ ~mixed') PROVE OffsetInv'
    <3>1. PICK key : key = IF way = "ids" THEN [i \in RowIds |-> i] ELSE times
      OBVIOUS
    <3>2. SortKey' = key
      BY <1>2, <1>5, <3>1 DEF SortKey, RowIds
    <3>3. rows \subseteq RowIds /\ IsFiniteSet(rows) /\ Cardinality(rows) \in Nat
      BY RowNumbers
    <3>4. \A i \in rows : key[i] \in Nat
      <4>1. CASE way = "ids"
        <5>1. key = [i \in RowIds |-> i] /\ rows \subseteq Nat
          BY <3>1, <4>1, RowNumbers
        <5> QED BY <3>3, <5>1
      <4>2. CASE way # "ids"
        BY <3>1, <3>3, <4>2 DEF PageTypes
      <4> QED BY <4>1, <4>2
    <3>5. \A i, j \in rows : i # j => key[i] # key[j]
      <4>1. CASE way = "ids"
        BY <3>1, <3>3, <4>1
      <4>2. CASE way = "times" /\ ~mixed'
        <5>1. key = times
          BY <3>1, <4>2
        <5> QED BY <1>2, <4>2, <5>1
      <4> QED BY <2>1, <4>1, <4>2
    <3>6. ASSUME NEW i \in rows, NEW S, S = {j \in rows : key[j] <= key[i]}
          PROVE  ~(Cardinality(S) <= 0)
      <4>5. key[i] \in Nat
        BY <3>4
      <4>1. S = {j \in rows : key[j] <= key[i]} /\ key[i] <= key[i]
        BY <3>6, <4>5
      <4>2. S \in SUBSET rows /\ i \in S
        BY <3>4, <4>1
      <4>3. IsFiniteSet(S) /\ S # {}
        BY <3>3, <4>2, FS_Subset
      <4>4. Cardinality(S) \in Nat /\ Cardinality(S) # 0
        BY <4>3, FS_CardinalityType, FS_EmptySet
      <4>6. \A n \in Nat : n # 0 => ~(n <= 0)
        OBVIOUS
      <4> QED BY <4>4, <4>6, Zenon
    <3>7. at = 0
      BY <1>1, <2>1
    <3>8. {i \in rows : Cardinality({j \in rows : key[j] <= key[i]}) <= at} = {}
      BY <3>6, <3>7
    <3>9. /\ ~repeated' /\ walk'.step # "links" /\ walk'.step # "end"
          /\ \A i, j \in rows' : i # j => SortKey'[i] # SortKey'[j]
      BY <1>2, <1>3, <1>5, <3>2, <3>5
    <3>10. seen' = {i \in rows' : Place(SortKey, i)' <= walk'.at}
      BY <1>2, <1>3, <1>5, <3>2, <3>8 DEF Place
    <3>11. walk'.at <= Cardinality(rows')
      <4>1. walk'.at = 0 /\ rows' = rows
        BY <1>2, <1>5, <3>7
      <4>2. \A n \in Nat : 0 <= n
        OBVIOUS
      <4> QED BY <3>3, <4>1, <4>2, Zenon
    <3> QED BY <3>9, <3>10, <3>11 DEF OffsetInv
  <2>2. CASE ~(way = "ids" \/ (way = "times" /\ ~mixed'))
    BY <1>5, <2>2 DEF OffsetInv
  <2> QED BY <2>1, <2>2
<1> QED BY <1>6, <1>7, <1>8

(* Where the keys of the rows differ, an order of the rows that follows    *)
(* them gives each row its place.                                          *)
LEMMA OrderIsPlace ==
  ASSUME PageConstants, PageTypes, NEW o \in Orders,
         \A i, j \in rows : i # j => times[i] # times[j], NEW i \in rows
  PROVE  o[i] = Place(times, i)
<1>1. /\ o \in [rows -> 1..Cardinality(rows)]
      /\ \A k, j \in rows : k # j => o[k] # o[j]
      /\ \A k, j \in rows : k # j /\ times[k] < times[j] => o[k] < o[j]
  BY DEF Orders
<1>2. /\ rows \subseteq RowIds /\ IsFiniteSet(rows) /\ Cardinality(rows) \in Nat
      /\ \A k \in rows : times[k] \in Nat
  BY RowNumbers DEF PageTypes
<1>3. PICK n : n = Cardinality(rows)
  OBVIOUS
<1>4. n \in Nat /\ IsFiniteSet(1..n) /\ Cardinality(1..n) = n
  BY <1>2, <1>3, FS_Interval
<1>5. o \in Injection(rows, 1..n)
  BY <1>1, <1>3 DEF Injection, IsInjective
<1>6. o \in Surjection(rows, 1..n)
  BY <1>2, <1>3, <1>4, <1>5, FS_Injection
<1>7. \A p \in 1..n : \E k \in rows : o[k] = p
  BY <1>6 DEF Surjection
<1>8. \A k \in rows : o[k] \in 1..n
  BY <1>1, <1>3
<1> DEFINE A == {j \in rows : times[j] <= times[i]}
           f == [j \in A |-> o[j]]
           B == 1..o[i]
<1>9. \A j \in rows : times[j] <= times[i] <=> o[j] <= o[i]
  <2>1. ASSUME NEW j \in rows PROVE times[j] <= times[i] <=> o[j] <= o[i]
    <3>1. times[j] \in Nat /\ times[i] \in Nat /\ o[j] \in Nat /\ o[i] \in Nat
      BY <1>2, <1>4, <1>8
    <3>2. CASE j = i
      BY <3>1, <3>2
    <3>3. CASE j # i
      <4>1. times[j] # times[i] /\ o[j] # o[i]
        BY <1>1, <3>3
      <4>2. CASE times[j] < times[i]
        <5>1. o[j] < o[i]
          BY <1>1, <3>3, <4>2
        <5> QED BY <3>1, <4>2, <5>1
      <4>3. CASE times[i] < times[j]
        <5>1. o[i] < o[j]
          BY <1>1, <3>3, <4>3
        <5> QED BY <3>1, <4>3, <5>1
      <4> QED BY <3>1, <4>1, <4>2, <4>3
    <3> QED BY <3>2, <3>3
  <2> QED BY <2>1
<1>10. \A j \in A : f[j] \in B /\ f[j] = o[j]
  BY <1>4, <1>8, <1>9
<1>11. \A p \in B : \E j \in A : f[j] = p
  <2>1. ASSUME NEW p \in B PROVE \E j \in A : f[j] = p
    <3>1. p \in 1..n /\ p <= o[i]
      BY <1>4, <1>8
    <3>2. PICK j \in rows : o[j] = p
      BY <1>7, <3>1
    <3>3. j \in A
      BY <1>9, <3>1, <3>2
    <3> QED BY <3>2, <3>3
  <2> QED BY <2>1
<1>12. \A j, k \in A : j # k => f[j] # f[k]
  BY <1>1
<1>13. f \in [A -> B]
  BY <1>10
<1> HIDE DEF f, A
<1>14. f \in Bijection(A, B)
  BY <1>11, <1>12, <1>13 DEF Bijection, Injection, Surjection, IsInjective
<1>15. A \in SUBSET rows
  BY DEF A
<1>16. IsFiniteSet(A)
  BY <1>2, <1>15, FS_Subset
<1>17. ExistsBijection(A, B)
  BY <1>14 DEF ExistsBijection
<1>18. Cardinality(B) = Cardinality(A)
  <2> HIDE DEF B
  <2> QED BY <1>16, <1>17, FS_Bijection
<1>19. o[i] \in Nat /\ o[i] >= 1
  BY <1>4, <1>8
<1>20. Cardinality(B) = o[i]
  BY <1>19, FS_Interval
<1> QED BY <1>18, <1>20 DEF A, Place

(* A page by offset shows the next rows in the order, up to the last.      *)
LEMMA OffsetStep ==
  ASSUME PageConstants, PageInv, PageByOffset
  PROVE  PageInv'
<1> USE DEF PageInv
<1>1. PICK o \in (IF walk.way = "ids" THEN {ById} ELSE Orders) :
        Show({i \in rows : o[i] \in (walk.at + 1)..(walk.at + Limit)},
             walk.at + Limit,
             IF walk.at + Limit < Cardinality(rows) THEN "ask" ELSE "end")
  BY DEF PageByOffset, OffsetPage
<1>2. walk.way \in {"ids", "times"} /\ walk.step = "ask"
  BY DEF PageByOffset, OffsetPage, Asks
<1>3. PICK next : next = walk.at + Limit
  OBVIOUS
<1>4. PICK page : page = {i \in rows : o[i] \in (walk.at + 1)..next}
  OBVIOUS
<1>5. PICK step : step = IF next < Cardinality(rows) THEN "ask" ELSE "end"
  OBVIOUS
<1>6. /\ walk.at \in Nat /\ Limit \in Nat /\ next \in Nat /\ walk.at <= next
      /\ rows \subseteq RowIds /\ IsFiniteSet(rows) /\ Cardinality(rows) \in Nat
      /\ page \in SUBSET RowIds /\ page \subseteq rows /\ step \in WalkSteps
  <2>1. walk.at \in Nat /\ Limit \in Nat
    BY DEF PageTypes, Walking, PageConstants
  <2>2. next \in Nat /\ walk.at <= next
    BY <1>3, <2>1
  <2>3. rows \subseteq RowIds /\ IsFiniteSet(rows) /\ Cardinality(rows) \in Nat
    BY RowNumbers
  <2>4. page \subseteq rows
    BY <1>4
  <2>5. step \in WalkSteps
    BY <1>5 DEF WalkSteps
  <2> QED BY <2>1, <2>2, <2>3, <2>4, <2>5
<1>7. /\ walk' \in Walking /\ walk'.way = walk.way /\ walk'.at = next
      /\ walk'.step = step
      /\ seen' = seen \cup page /\ repeated' = (repeated \/ seen \cap page # {})
      /\ UNCHANGED <<rows, newest, times, time, staying, mixed>>
      /\ PageTypes'
  BY <1>1, <1>3, <1>4, <1>5, <1>6, ShownWalk
<1>8. CursorInv'
  BY <1>2, <1>7 DEF CursorInv
<1>9. ASSUME walk.way = "ids" \/ (walk.way = "times" /\ ~mixed) PROVE OffsetInv'
  <2>1. PICK key : key = SortKey
    OBVIOUS
  <2>2. SortKey' = key
    BY <1>7, <2>1 DEF SortKey, RowIds
  <2>3. /\ ~repeated /\ \A i, j \in rows : i # j => key[i] # key[j]
        /\ seen = {i \in rows : Place(key, i) <= walk.at}
        /\ staying \subseteq rows
    BY <1>2, <1>9, <2>1 DEF OffsetInv, PageTypes
  <2>4. \A i \in rows : o[i] = Place(key, i)
    <3>1. CASE walk.way = "ids"
      <4>1. key = [i \in RowIds |-> i] /\ o = ById
        BY <1>1, <2>1, <3>1 DEF SortKey
      <4>2. ASSUME NEW i \in rows PROVE o[i] = Place(key, i)
        <5>1. {j \in rows : key[j] <= key[i]} = {j \in rows : j <= i}
          BY <1>6, <4>1
        <5> QED BY <4>1, <5>1 DEF ById, Place
      <4> QED BY <4>2
    <3>2. CASE walk.way = "times"
      <4>1. key = times /\ o \in Orders
        BY <1>1, <2>1, <3>2 DEF SortKey
      <4> QED BY <2>3, <4>1, OrderIsPlace
    <3> QED BY <1>2, <3>1, <3>2
  <2>5. \A i \in rows : Place(key, i) \in Nat /\ Place(key, i) <= Cardinality(rows)
    <3>1. ASSUME NEW i \in rows, NEW S, S = {j \in rows : key[j] <= key[i]}
          PROVE  Cardinality(S) \in Nat /\ Cardinality(S) <= Cardinality(rows)
      <4>1. S \in SUBSET rows
        BY <3>1
      <4> QED BY <1>6, <4>1, FS_Subset, FS_CardinalityType
    <3> QED BY <3>1 DEF Place
  <2>6. \A i \in rows : i \in page <=> walk.at + 1 <= Place(key, i) /\ Place(key, i) <= next
    BY <1>4, <1>6, <2>4, <2>5
  <2>7. seen \cap page = {}
    <3>1. ASSUME NEW i \in rows, i \in page, i \in seen PROVE FALSE
      <4>1. /\ Place(key, i) \in Nat /\ walk.at + 1 <= Place(key, i)
            /\ Place(key, i) <= walk.at
        BY <2>3, <2>5, <2>6, <3>1
      <4> QED BY <1>6, <4>1
    <3> QED BY <1>6, <3>1
  <2>8. seen' = {i \in rows : Place(key, i) <= next}
    <3>1. ASSUME NEW i \in rows PROVE i \in seen' <=> Place(key, i) <= next
      <4>1. PICK p \in Nat : p = Place(key, i)
        BY <2>5
      <4>2. i \in seen' <=> (p <= walk.at \/ (walk.at + 1 <= p /\ p <= next))
        BY <1>7, <2>3, <2>6, <4>1
      <4> QED BY <1>6, <4>1, <4>2
    <3>2. seen' \subseteq rows
      BY <1>6, <1>7, <2>3
    <3> QED BY <3>1, <3>2
  <2>9. step = "end" => staying \subseteq seen'
    <3>1. ASSUME step = "end", NEW i \in rows PROVE Place(key, i) <= next
      <4>1. ~(next < Cardinality(rows))
        BY <1>5, <3>1
      <4> QED BY <1>6, <2>5, <4>1
    <3> QED BY <2>3, <2>8, <3>1
  <2>10. step = "ask" => next <= Cardinality(rows)
    BY <1>5, <1>6
  <2>11. ~repeated' /\ step # "links"
    BY <1>5, <1>7, <2>3, <2>7
  <2>12. \A i : Place(SortKey, i)' = Place(key, i)
    BY <1>7, <2>2 DEF Place
  <2> QED BY <1>7, <2>2, <2>3, <2>8, <2>9, <2>10, <2>11, <2>12 DEF OffsetInv
<1>10. ASSUME ~(walk.way = "ids" \/ (walk.way = "times" /\ ~mixed)) PROVE OffsetInv'
  BY <1>7, <1>10 DEF OffsetInv
<1> QED BY <1>7, <1>8, <1>9, <1>10

(* No step of the client or of the rows breaks the invariant.              *)
LEMMA PageSteps ==
  ASSUME PageConstants, PageInv, [PageNext]_pageVars
  PROVE  PageInv'
<1>1. CASE EndWalk
  <2>1. /\ walk' = NoWalk /\ seen' = {} /\ repeated' = FALSE /\ staying' = {}
        /\ UNCHANGED <<rows, newest, times, time, mixed>>
    BY <1>1 DEF EndWalk
  <2>2. NoWalk \in Walking /\ NoWalk.way = "none" /\ NoWalk.step = "end"
    BY DEF NoWalk, Walking, Ways, WalkSteps
  <2>3. PageTypes'
    BY <2>1, <2>2 DEF PageInv, PageTypes, RowIds
  <2> QED BY <2>1, <2>2, <2>3 DEF PageInv, CursorInv, OffsetInv
<1>2. CASE UNCHANGED pageVars
  <2>1. UNCHANGED <<rows, newest, times, time, walk, seen, repeated, staying, mixed>>
    BY <1>2 DEF pageVars
  <2>2. PageTypes' /\ CursorInv'
    BY <2>1 DEF PageInv, PageTypes, CursorInv, RowIds
  <2>3. PICK key : key = SortKey
    OBVIOUS
  <2>4. SortKey' = key
    BY <2>1, <2>3 DEF SortKey, RowIds
  <2>5. \A i : Place(SortKey, i)' = Place(key, i)
    BY <2>1, <2>4 DEF Place
  <2>6. \A i : Place(SortKey, i) = Place(key, i)
    BY <2>3
  <2>7. OffsetInv'
    BY <2>1, <2>3, <2>4, <2>5, <2>6 DEF PageInv, OffsetInv
  <2> QED BY <2>2, <2>7 DEF PageInv
<1> QED BY <1>1, <1>2, InsertStep, ChangeStep, StartStep, DownStep, UpStep, LinkStep,
           OffsetStep DEF PageNext

(* The invariant.                                                          *)
THEOREM PageInvariance == ASSUME PageConstants PROVE PageSpec => []PageInv
<1>1. PageInit => PageInv
  <2>1. ASSUME PageInit PROVE PageInv
    <3>1. NoWalk \in Walking /\ NoWalk.way = "none" /\ NoWalk.step = "end"
      BY DEF NoWalk, Walking, Ways, WalkSteps
    <3>2. times \in [RowIds -> Nat] /\ \A i \in RowIds : times[i] <= time
      BY <2>1 DEF PageInit
    <3>3. PageTypes
      BY <2>1, <3>1, <3>2 DEF PageInit, PageTypes, PageConstants
    <3> QED BY <2>1, <3>1, <3>3 DEF PageInit, PageInv, CursorInv, OffsetInv
  <2> QED BY <2>1
<1>2. PageInv /\ [PageNext]_pageVars => PageInv'
  BY PageSteps
<1> QED BY <1>1, <1>2, PTL DEF PageSpec

(* StampsAreListed, for any number of rows and any page: a client that     *)
(* follows the links of get_passport_stamps, down and perhaps back up,     *)
(* gets every stamp that stayed, and none twice.                           *)
THEOREM StampsTheorem == ASSUME PageConstants PROVE PageSpec => []StampsAreListed
<1>1. PageInv => StampsAreListed
  BY DEF PageInv, CursorInv, StampsAreListed
<1> QED BY <1>1, PageInvariance, PTL

(* ScoresAreListed, for the same: the offsets of get_scores show each      *)
(* score once, by ids, or by timestamps that differ and stay.              *)
THEOREM ScoresTheorem == ASSUME PageConstants PROVE PageSpec => []ScoresAreListed
<1>1. PageInv => ScoresAreListed
  BY DEF PageInv, OffsetInv, ScoresAreListed
<1> QED BY <1>1, PageInvariance, PTL

-----------------------------------------------------------------------------
(***************************************************************************)
(* Histories: the events of a score, and what is answered about the past.  *)
(***************************************************************************)
(* Rows and answers are something, and each scoring runs once.             *)
HistoryConstants ==
  /\ Old \notin Scorings
  /\ \A w, how : RowOf(w, how) # None

HistoryTypes ==
  /\ clock \in Nat
  /\ jobs \in [Scorings -> [step : JobSteps, began : Nat]]
  /\ \A w \in Scorings : jobs[w].began <= clock
  /\ \A e \in events : e.at \in Nat /\ e.at <= clock

Pair(w, v) == {w, v}
Met(w, v) == Pair(w, v) \in overlaps
HasEvent(w) == \E e \in events : e.by = w
IsOver(e) == e.by \in Scorings => jobs[e.by].step = "done"

(* An event has a scoring that has come that far, and scorings that are    *)
(* under way together have met.                                            *)
EventsHaveScorings ==
  /\ \A e \in events :
       e.by \in Scorings => jobs[e.by].step \in {"logged", "lost", "done"}
  /\ \A w \in Scorings : jobs[w].step = "logged" => HasEvent(w)
  /\ \A w, v \in Scorings : Active(w) /\ Active(v) /\ w # v => Met(w, v)

(* A scoring that began after another one had ended dates its event later. *)
LaterIsLater ==
  \A w \in Scorings, e \in events :
    IsOver(e) /\ e.by # w /\ ~Met(w, e.by) =>
      /\ jobs[w].step \in InRust => e.at < jobs[w].began
      /\ jobs[w].step = "logged" => \A f \in events : f.by = w => e.at < f.at

(* The row of a scoring has an event, which is later than the others of    *)
(* those that have ended and have not met it.                              *)
RowIsNewest ==
  /\ stored = None => \A e \in events : ~IsOver(e)
  /\ stored # None /\ stored.how = "scored" =>
       /\ HasEvent(stored.by)
       /\ \A e \in events :
            IsOver(e) /\ e.by # stored.by /\ ~Met(stored.by, e.by) =>
              \E f \in events : f.by = stored.by /\ e.at < f.at

(* What was answered holds, unless one of those that were open has come.   *)
AnswerHolds ==
  asked # None =>
    /\ asked.time \in Nat /\ asked.time <= clock
    /\ \A w \in Scorings :
         jobs[w].step \in InRust /\ jobs[w].began <= asked.time => w \in asked.open
    /\ AnswersStay

HistoryInv ==
  HistoryTypes /\ EventsHaveScorings /\ LaterIsLater /\ RowIsNewest /\ AnswerHolds

(* A pair has no order.                                                    *)
LEMMA PairIsSymmetric == ASSUME NEW w, NEW v PROVE Pair(w, v) = Pair(v, w)
BY DEF Pair

(* A scoring meets those that are under way when it begins.                *)
LEMMA Meets ==
  ASSUME NEW w \in Scorings, overlaps' = Overlapping(w)
  PROVE  /\ \A p \in overlaps : p \in overlaps'
         /\ \A v \in Scorings : Active(v) => Pair(w, v) \in overlaps' /\ Pair(v, w) \in overlaps'
<1>1. \A p \in overlaps : p \in overlaps'
  BY DEF Overlapping
<1>2. ASSUME NEW v \in Scorings, Active(v) PROVE Pair(w, v) \in overlaps'
  BY <1>2 DEF Overlapping, Pair
<1> QED BY <1>1, <1>2, PairIsSymmetric

(* What a move changes.                                                    *)
LEMMA JobMoves ==
  ASSUME HistoryTypes, NEW w \in Scorings, NEW from, NEW to \in JobSteps,
         MoveTo(w, from, to)
  PROVE  /\ jobs[w].step = from /\ asked' = asked
         /\ jobs' \in [Scorings -> [step : JobSteps, began : Nat]]
         /\ jobs'[w].step = to /\ jobs'[w].began = jobs[w].began
         /\ \A v \in Scorings : v # w => jobs'[v] = jobs[v]
         /\ \A v \in Scorings : jobs'[v].began = jobs[v].began
<1>1. jobs[w].step = from /\ asked' = asked /\ jobs' = [jobs EXCEPT ![w].step = to]
  BY DEF MoveTo
<1>2. jobs \in [Scorings -> [step : JobSteps, began : Nat]]
  BY DEF HistoryTypes
<1>3. jobs' \in [Scorings -> [step : JobSteps, began : Nat]]
  BY <1>1, <1>2
<1>4. jobs'[w].step = to /\ jobs'[w].began = jobs[w].began
  BY <1>1, <1>2
<1>5. \A v \in Scorings : v # w => jobs'[v] = jobs[v]
  BY <1>1, <1>2
<1> QED BY <1>1, <1>3, <1>4, <1>5

(* A new event changes an answer only if its scoring was open.             *)
LEMMA AnswerKept ==
  ASSUME HistoryTypes, AnswerHolds, asked' = asked, NEW more, events' = events \cup more,
         \A e \in more : /\ e.at \in Nat
                         /\ asked # None => ~(e.at <= asked.time) \/ e.by \in asked.open
  PROVE  AnswersStay'
<1>1. SUFFICES ASSUME asked # None, AnswersStay
               PROVE  \/ get_score_history(asked.time)' = asked.answer
                      \/ \E v \in asked.open, e \in events' : e.by = v
  BY DEF AnswersStay, AnswerHolds
<1>2. CASE \E e \in more : e.by \in asked.open
  BY <1>2
<1>3. CASE \E v \in asked.open, e \in events : e.by = v
  BY <1>3
<1>4. CASE /\ \A e \in more : ~(e.at <= asked.time)
           /\ get_score_history(asked.time) = asked.answer
  <2>1. PICK t : t = asked.time
    OBVIOUS
  <2>2. PICK latest : latest = NewestBy(t)
    OBVIOUS
  <2>3. {e \in events' : e.at <= t /\ \A f \in events' : f.at <= t => f.at <= e.at} = latest
    BY <1>4, <2>1, <2>2 DEF NewestBy
  <2>4. AnswerOf(latest) = asked.answer
    BY <1>4, <2>1, <2>2 DEF get_score_history
  <2>5. get_score_history(asked.time)'
          = AnswerOf({e \in events' : e.at <= t /\ \A f \in events' : f.at <= t => f.at <= e.at})
    BY <2>1 DEF get_score_history, NewestBy
  <2> QED BY <2>3, <2>4, <2>5
<1> QED BY <1>1, <1>2, <1>3, <1>4 DEF AnswersStay

(* A scoring begins.                                                       *)
LEMMA HistoryBegins ==
  ASSUME HistoryConstants, HistoryInv, NEW w \in Scorings, StartPython(w) \/ BeginRust(w)
  PROVE  HistoryInv'
<1> USE DEF HistoryInv
<1>1. PICK to \in {"python", "rust"} : jobs'[w].step = to
  <2>1. CASE StartPython(w)
    BY <2>1, JobMoves DEF StartPython, JobSteps
  <2>2. CASE BeginRust(w)
    <3>1. jobs'[w] = [step |-> "rust", began |-> clock + 1]
      BY <2>2 DEF BeginRust, HistoryTypes
    <3> QED BY <3>1
  <2> QED BY <2>1, <2>2
<1>2. /\ jobs[w].step = "ready"
      /\ UNCHANGED <<stored, events, asked>> /\ overlaps' = Overlapping(w)
      /\ clock' \in Nat /\ clock <= clock'
      /\ jobs' \in [Scorings -> [step : JobSteps, began : Nat]]
      /\ \A v \in Scorings : v # w => jobs'[v] = jobs[v]
      /\ jobs'[w].began <= clock'
      /\ to = "rust" => jobs'[w].began = clock'
      /\ to = "rust" => clock < clock'
  <2>1. CASE StartPython(w)
    <3>1. /\ UNCHANGED <<stored, events, clock>> /\ overlaps' = Overlapping(w)
          /\ MoveTo(w, "ready", "python") /\ "python" \in JobSteps
      BY <2>1 DEF StartPython, JobSteps
    <3>2. /\ jobs[w].step = "ready" /\ asked' = asked
          /\ jobs' \in [Scorings -> [step : JobSteps, began : Nat]]
          /\ jobs'[w].step = "python" /\ jobs'[w].began = jobs[w].began
          /\ \A v \in Scorings : v # w => jobs'[v] = jobs[v]
      BY <3>1, JobMoves
    <3>3. clock \in Nat /\ clock <= clock /\ jobs[w].began <= clock
      BY DEF HistoryTypes
    <3> QED BY <1>1, <3>1, <3>2, <3>3
  <2>2. CASE BeginRust(w)
    <3>1. /\ jobs[w].step = "ready" /\ clock' = clock + 1 /\ overlaps' = Overlapping(w)
          /\ jobs' = [jobs EXCEPT ![w] = [step |-> "rust", began |-> clock + 1]]
          /\ UNCHANGED <<stored, events, asked>>
      BY <2>2 DEF BeginRust
    <3>2. PICK now : now = clock + 1
      OBVIOUS
    <3>3. clock \in Nat /\ now \in Nat /\ clock < now /\ clock <= now /\ now <= now
      BY <3>2 DEF HistoryTypes
    <3>4. jobs' = [jobs EXCEPT ![w] = [step |-> "rust", began |-> now]]
      BY <3>1, <3>2
    <3>5. jobs' \in [Scorings -> [step : JobSteps, began : Nat]]
      BY <3>3, <3>4 DEF HistoryTypes, JobSteps
    <3>6. jobs'[w].began = now /\ \A v \in Scorings : v # w => jobs'[v] = jobs[v]
      BY <3>4 DEF HistoryTypes
    <3> QED BY <3>1, <3>2, <3>3, <3>5, <3>6
  <2> QED BY <2>1, <2>2
<1>3. /\ \A p \in overlaps : p \in overlaps'
      /\ \A v \in Scorings : Active(v) => Pair(w, v) \in overlaps' /\ Pair(v, w) \in overlaps'
  BY <1>2, Meets
<1>4. HistoryTypes'
  BY <1>2 DEF HistoryTypes
<1>5. \A v \in Scorings : Active(v)' => Active(v) \/ v = w
  BY <1>2 DEF Active
<1>6. EventsHaveScorings'
  <2>1. \A e \in events :
          e.by \in Scorings => jobs'[e.by].step \in {"logged", "lost", "done"}
    BY <1>2 DEF EventsHaveScorings
  <2>2. \A v \in Scorings : jobs'[v].step = "logged" => \E e \in events : e.by = v
    BY <1>1, <1>2 DEF EventsHaveScorings, HasEvent
  <2>3. ASSUME NEW u \in Scorings, NEW v \in Scorings, Active(u)', Active(v)', u # v
        PROVE  Pair(u, v) \in overlaps'
    BY <1>3, <1>5, <2>3 DEF EventsHaveScorings, Met
  <2> QED BY <1>2, <2>1, <2>2, <2>3 DEF EventsHaveScorings, HasEvent, Met
<1>7. \A e \in events : IsOver(e)' => IsOver(e)
  BY <1>1, <1>2 DEF IsOver
<1>8. LaterIsLater'
  <2>1. ASSUME NEW v \in Scorings, NEW e \in events, IsOver(e), e.by # v,
               Pair(v, e.by) \notin overlaps'
        PROVE  /\ jobs'[v].step \in InRust => e.at < jobs'[v].began
               /\ jobs'[v].step = "logged" => \A f \in events : f.by = v => e.at < f.at
    <3>1. CASE v = w
      <4>1. e.at \in Nat /\ e.at <= clock /\ clock \in Nat
        BY DEF HistoryTypes
      <4> QED BY <1>1, <1>2, <3>1, <4>1 DEF InRust
    <3>2. CASE v # w
      BY <1>2, <1>3, <2>1, <3>2 DEF LaterIsLater, Met
    <3> QED BY <3>1, <3>2
  <2> QED BY <1>2, <1>7, <2>1 DEF LaterIsLater, Met
<1>9. RowIsNewest'
  BY <1>2, <1>3, <1>7 DEF RowIsNewest, HasEvent, Met
<1>10. AnswerHolds'
  <2>1. ASSUME asked # None
        PROVE  /\ asked.time \in Nat /\ asked.time <= clock'
               /\ \A v \in Scorings : jobs'[v].step \in InRust /\ jobs'[v].began <= asked.time
                                        => v \in asked.open
    <3>1. /\ asked.time \in Nat /\ asked.time <= clock /\ clock \in Nat
          /\ \A v \in Scorings : jobs[v].step \in InRust /\ jobs[v].began <= asked.time
                                   => v \in asked.open
      BY <2>1 DEF AnswerHolds, HistoryTypes
    <3>2. asked.time <= clock'
      BY <1>2, <3>1
    <3>3. ASSUME jobs'[w].step \in InRust PROVE ~(jobs'[w].began <= asked.time)
      <4>1. to = "rust"
        BY <1>1, <3>3 DEF InRust
      <4> QED BY <1>2, <3>1, <4>1
    <3> QED BY <1>2, <3>1, <3>2, <3>3
  <2>2. AnswersStay'
    <3>1. PICK none : none = {}
      OBVIOUS
    <3>2. events' = events \cup none /\ \A e : e \notin none
      BY <1>2, <3>1
    <3> QED BY <1>2, <3>2, AnswerKept
  <2> QED BY <1>2, <2>1, <2>2 DEF AnswerHolds
<1> QED BY <1>4, <1>6, <1>8, <1>9, <1>10

(* A step of a scoring that leaves the events: it goes on, or ends without *)
(* one, or is lost.                                                        *)
LEMMA QuietMove ==
  ASSUME HistoryConstants, HistoryInv, NEW w \in Scorings, NEW from, NEW to \in JobSteps,
         MoveTo(w, from, to), UNCHANGED <<clock, events, overlaps>>,
         to \in {"locked", "written", "lost", "done"},
         to \in {"locked", "written"} => from \in InRust,
         to = "lost" => from = "logged",
         to = "done" => from \notin {"logged", "lost", "done"},
         RowIsNewest => \/ stored' = stored
                        \/ stored' # None /\ stored'.how # "scored"
  PROVE  HistoryInv'
<1> USE DEF HistoryInv
<1>1. /\ jobs[w].step = from /\ asked' = asked
      /\ jobs' \in [Scorings -> [step : JobSteps, began : Nat]]
      /\ jobs'[w].step = to /\ jobs'[w].began = jobs[w].began
      /\ \A v \in Scorings : v # w => jobs'[v] = jobs[v]
      /\ \A v \in Scorings : jobs'[v].began = jobs[v].began
  BY JobMoves
<1>2. HistoryTypes'
  BY <1>1 DEF HistoryTypes
<1>3. \A v \in Scorings : Active(v)' => Active(v)
  BY <1>1 DEF Active, InRust
<1>4. EventsHaveScorings'
  <2>1. ASSUME NEW e \in events, e.by \in Scorings
        PROVE  jobs'[e.by].step \in {"logged", "lost", "done"}
    <3>1. jobs[e.by].step \in {"logged", "lost", "done"}
      BY <2>1 DEF EventsHaveScorings
    <3> QED BY <1>1, <2>1, <3>1 DEF InRust
  <2>2. \A v \in Scorings : jobs'[v].step = "logged" => jobs[v].step = "logged"
    BY <1>1
  <2>3. \A u, v \in Scorings : Active(u)' /\ Active(v)' /\ u # v => Pair(u, v) \in overlaps
    BY <1>3 DEF EventsHaveScorings, Met
  <2> QED BY <1>1, <2>1, <2>2, <2>3 DEF EventsHaveScorings, HasEvent, Met
<1>5. ASSUME NEW e \in events, IsOver(e)' PROVE IsOver(e)
  <2>1. e.by \in Scorings => jobs[e.by].step \in {"logged", "lost", "done"}
    BY DEF EventsHaveScorings
  <2> QED BY <1>1, <1>5, <2>1 DEF IsOver
<1>6. LaterIsLater'
  <2>1. \A v \in Scorings : /\ jobs'[v].step \in InRust => jobs[v].step \in InRust
                            /\ jobs'[v].step = "logged" => jobs[v].step = "logged"
    BY <1>1 DEF InRust
  <2> QED BY <1>1, <1>5, <2>1 DEF LaterIsLater, Met
<1>7. RowIsNewest'
  BY <1>5 DEF RowIsNewest, HasEvent, Met
<1>8. AnswerHolds'
  <2>1. AnswersStay'
    <3>1. PICK none : none = {}
      OBVIOUS
    <3>2. events' = events \cup none /\ \A e : e \notin none
      BY <3>1
    <3> QED BY <1>1, <3>2, AnswerKept
  <2>2. \A v \in Scorings : jobs'[v].step \in InRust => jobs[v].step \in InRust
    BY <1>1 DEF InRust
  <2> QED BY <1>1, <2>1, <2>2 DEF AnswerHolds
<1> QED BY <1>2, <1>4, <1>6, <1>7, <1>8

(* Python writes its event, dated now.                                     *)
LEMMA PythonLogs ==
  ASSUME HistoryConstants, HistoryInv, NEW w \in Scorings, score_updated(w)
  PROVE  HistoryInv'
<1> USE DEF HistoryInv
<1>1. PICK now, new : now = clock + 1 /\ new = EventOf(w, clock + 1, "object")
  OBVIOUS
<1>2. /\ clock \in Nat /\ clock' = now /\ now \in Nat /\ clock < now /\ clock <= now
      /\ events' = events \cup {new} /\ new.by = w /\ new.at = now
      /\ UNCHANGED <<stored, overlaps>>
      /\ MoveTo(w, "python", "logged") /\ "logged" \in JobSteps
  BY <1>1 DEF score_updated, EventOf, HistoryTypes, JobSteps
<1>3. /\ jobs[w].step = "python" /\ asked' = asked
      /\ jobs' \in [Scorings -> [step : JobSteps, began : Nat]]
      /\ jobs'[w].step = "logged" /\ jobs'[w].began = jobs[w].began
      /\ \A v \in Scorings : v # w => jobs'[v] = jobs[v]
      /\ \A v \in Scorings : jobs'[v].began = jobs[v].began
  BY <1>2, JobMoves
<1>4. \A e \in events : e.at \in Nat /\ e.at <= clock /\ e.at < now
  BY <1>2 DEF HistoryTypes
<1>5. HistoryTypes'
  <2>1. \A v \in Scorings : jobs[v].began \in Nat /\ jobs[v].began <= clock
    BY DEF HistoryTypes
  <2>2. \A v \in Scorings : jobs'[v].began <= now
    BY <1>2, <1>3, <2>1
  <2>3. \A e \in events' : e.at \in Nat /\ e.at <= now
    BY <1>2, <1>4
  <2> QED BY <1>2, <1>3, <2>2, <2>3 DEF HistoryTypes
<1>6. \A e \in events : e.by # w
  BY <1>3 DEF EventsHaveScorings
<1>7. EventsHaveScorings'
  <2>1. \A e \in events' : e.by \in Scorings => jobs'[e.by].step \in {"logged", "lost", "done"}
    BY <1>2, <1>3 DEF EventsHaveScorings
  <2>2. \A v \in Scorings : jobs'[v].step = "logged" => \E e \in events' : e.by = v
    BY <1>2, <1>3 DEF EventsHaveScorings, HasEvent
  <2>3. \A v \in Scorings : Active(v)' => Active(v)
    BY <1>3 DEF Active
  <2> QED BY <1>2, <2>1, <2>2, <2>3 DEF EventsHaveScorings, HasEvent, Met
<1>8. \A e \in events' : IsOver(e)' => e \in events /\ IsOver(e)
  BY <1>2, <1>3 DEF IsOver
<1>9. LaterIsLater'
  <2>1. ASSUME NEW v \in Scorings, NEW e \in events, IsOver(e), e.by # v,
               Pair(v, e.by) \notin overlaps
        PROVE  /\ jobs'[v].step \in InRust => e.at < jobs'[v].began
               /\ jobs'[v].step = "logged" => \A f \in events' : f.by = v => e.at < f.at
    <3>1. CASE v = w
      <4>1. \A f \in events' : f.by = v => f = new
        BY <1>2, <1>6, <3>1
      <4> QED BY <1>2, <1>3, <1>4, <3>1, <4>1 DEF InRust
    <3>2. CASE v # w
      <4>1. \A f \in events' : f.by = v => f \in events
        BY <1>2, <3>2
      <4> QED BY <1>3, <2>1, <3>2, <4>1 DEF LaterIsLater, Met
    <3> QED BY <3>1, <3>2
  <2> QED BY <1>2, <1>8, <2>1 DEF LaterIsLater, Met
<1>10. RowIsNewest'
  <2>1. events \subseteq events'
    BY <1>2
  <2> QED BY <1>2, <1>8, <2>1 DEF RowIsNewest, HasEvent, Met
<1>11. AnswerHolds'
  <2>1. ASSUME asked # None
        PROVE  asked.time \in Nat /\ asked.time <= clock /\ asked.time <= now /\ ~(now <= asked.time)
    BY <1>2, <2>1 DEF AnswerHolds
  <2>2. AnswersStay'
    <3>1. PICK more : more = {new}
      OBVIOUS
    <3>2. \A e \in more : /\ e.at \in Nat
                          /\ asked # None => ~(e.at <= asked.time) \/ e.by \in asked.open
      BY <1>2, <2>1, <3>1
    <3>3. events' = events \cup more
      BY <1>2, <3>1
    <3> QED BY <1>3, <3>2, <3>3, AnswerKept
  <2>3. \A v \in Scorings : jobs'[v].step \in InRust => jobs[v].step \in InRust
    BY <1>3 DEF InRust
  <2> QED BY <1>2, <1>3, <2>1, <2>2, <2>3 DEF AnswerHolds
<1> QED BY <1>5, <1>7, <1>9, <1>10, <1>11

(* A scoring saves its row, which has its event: the other events are of   *)
(* scorings that it has met, or that have not ended, or they are earlier.  *)
LEMMA ScoringSaves ==
  ASSUME HistoryConstants, HistoryInv, NEW w \in Scorings, SaveScore(w) \/ CommitRust(w)
  PROVE  HistoryInv'
<1> USE DEF HistoryInv
<1>1. PICK new : new = EventOf(w, jobs[w].began, "list")
  OBVIOUS
<1>2. new.by = w /\ new.at = jobs[w].began /\ jobs[w].began \in Nat /\ jobs[w].began <= clock
  BY <1>1 DEF EventOf, HistoryTypes
<1>3. /\ stored' # None /\ stored'.by = w /\ stored'.how = "scored" /\ UNCHANGED <<clock, overlaps>>
      /\ events \subseteq events' /\ \A e \in events' : e \in events \/ e = new
  BY <1>1 DEF SaveScore, CommitRust, RowOf, HistoryConstants
<1>4. PICK from \in {"logged", "written"} :
        /\ MoveTo(w, from, "done") /\ "done" \in JobSteps
        /\ from = "logged" => events' = events
        /\ from = "written" => new \in events'
  BY <1>1 DEF SaveScore, CommitRust, JobSteps
<1>5. /\ jobs[w].step = from /\ asked' = asked
      /\ jobs' \in [Scorings -> [step : JobSteps, began : Nat]]
      /\ jobs'[w].step = "done" /\ jobs'[w].began = jobs[w].began
      /\ \A v \in Scorings : v # w => jobs'[v] = jobs[v]
      /\ \A v \in Scorings : jobs'[v].began = jobs[v].began
  BY <1>4, JobMoves
<1>6. HistoryTypes'
  BY <1>2, <1>3, <1>5 DEF HistoryTypes
<1>7. \A v \in Scorings : Active(v)' => Active(v) /\ v # w
  BY <1>5 DEF Active, InRust
<1>8. EventsHaveScorings'
  <2>1. \A e \in events' : e.by \in Scorings => jobs'[e.by].step \in {"logged", "lost", "done"}
    BY <1>2, <1>3, <1>5 DEF EventsHaveScorings
  <2>2. \A v \in Scorings : jobs'[v].step = "logged" => \E e \in events' : e.by = v
    BY <1>3, <1>5 DEF EventsHaveScorings, HasEvent
  <2> QED BY <1>3, <1>7, <2>1, <2>2 DEF EventsHaveScorings, HasEvent, Met
<1>9. \A e \in events' : IsOver(e)' => e.by = w \/ (e \in events /\ IsOver(e))
  BY <1>2, <1>3, <1>5 DEF IsOver
<1>10. Active(w)
  BY <1>4, <1>5 DEF Active, InRust
<1>11. LaterIsLater'
  <2>1. ASSUME NEW v \in Scorings, NEW e \in events', IsOver(e)', e.by # v,
               Pair(v, e.by) \notin overlaps
        PROVE  /\ jobs'[v].step \in InRust => e.at < jobs'[v].began
               /\ jobs'[v].step = "logged" => \A f \in events' : f.by = v => e.at < f.at
    <3>1. CASE Active(v)'
      <4>1. v # w /\ Active(v) /\ Pair(v, w) \in overlaps
        BY <1>7, <1>10, <3>1 DEF EventsHaveScorings, Met
      <4>2. e \in events /\ IsOver(e)
        BY <1>9, <2>1, <4>1
      <4>3. \A f \in events' : f.by = v => f \in events
        BY <1>2, <1>3, <4>1
      <4> QED BY <1>5, <2>1, <4>1, <4>2, <4>3 DEF LaterIsLater, Met
    <3>2. CASE ~Active(v)'
      BY <3>2 DEF Active, InRust
    <3> QED BY <3>1, <3>2
  <2> QED BY <1>3, <2>1 DEF LaterIsLater, Met
<1>12. RowIsNewest'
  <2>1. \E f \in events' : /\ f.by = w
                           /\ \A e \in events : IsOver(e) /\ e.by # w /\ Pair(w, e.by) \notin overlaps
                                => e.at < f.at
    <3>1. CASE from = "logged"
      BY <1>4, <1>5, <3>1 DEF EventsHaveScorings, HasEvent, LaterIsLater, Met
    <3>2. CASE from = "written"
      <4>1. jobs[w].step \in InRust
        BY <1>5, <3>2 DEF InRust
      <4>2. new \in events'
        BY <1>4, <3>2
      <4>3. \A e \in events : IsOver(e) /\ e.by # w /\ Pair(w, e.by) \notin overlaps
                                => e.at < new.at
        BY <1>2, <4>1 DEF LaterIsLater, Met
      <4> QED BY <1>2, <4>2, <4>3
    <3> QED BY <3>1, <3>2
  <2> QED BY <1>3, <1>9, <2>1 DEF RowIsNewest, HasEvent, Met
<1>13. AnswerHolds'
  <2>1. AnswersStay'
    <3>1. CASE from = "logged"
      <4>1. PICK none : none = {}
        OBVIOUS
      <4>2. events' = events \cup none /\ \A e : e \notin none
        BY <1>4, <3>1, <4>1
      <4> QED BY <1>5, <4>2, AnswerKept
    <3>2. CASE from = "written"
      <4>1. PICK more : more = {new}
        OBVIOUS
      <4>2. events' = events \cup more
        BY <1>3, <1>4, <3>2, <4>1
      <4>3. asked # None => ~(new.at <= asked.time) \/ new.by \in asked.open
        BY <1>2, <1>5, <3>2 DEF AnswerHolds, InRust
      <4>4. \A e \in more : /\ e.at \in Nat
                            /\ asked # None => ~(e.at <= asked.time) \/ e.by \in asked.open
        BY <1>2, <4>1, <4>3
      <4> QED BY <1>5, <4>2, <4>4, AnswerKept
    <3> QED BY <3>1, <3>2
  <2>2. \A v \in Scorings : jobs'[v].step \in InRust => jobs[v].step \in InRust
    BY <1>5 DEF InRust
  <2> QED BY <1>3, <1>5, <2>1, <2>2 DEF AnswerHolds
<1> QED BY <1>6, <1>8, <1>11, <1>12, <1>13

(* A question is asked.                                                    *)
LEMMA Asked ==
  ASSUME HistoryConstants, HistoryInv, Ask
  PROVE  HistoryInv'
<1> USE DEF HistoryInv
<1>1. UNCHANGED <<clock, stored, events, jobs, overlaps>>
  BY DEF Ask
<1>2. PICK t \in 0..clock :
        asked' = [time |-> t, answer |-> get_score_history(t),
                  open |-> {w \in Scorings : jobs[w].step \in InRust /\ jobs[w].began <= t}]
  BY DEF Ask
<1>3. PICK answer : answer = get_score_history(t)
  OBVIOUS
<1>4. /\ asked'.time = t /\ asked'.answer = answer
      /\ asked'.open = {w \in Scorings : jobs[w].step \in InRust /\ jobs[w].began <= t}
  BY <1>2, <1>3
<1>5. get_score_history(t) = AnswerOf(NewestBy(t))
  BY DEF get_score_history
<1>6. get_score_history(asked.time)' = answer
  <2>1. {e \in events' : e.at <= t /\ \A f \in events' : f.at <= t => f.at <= e.at} = NewestBy(t)
    BY <1>1 DEF NewestBy
  <2>2. get_score_history(asked.time)'
          = AnswerOf({e \in events' : e.at <= t /\ \A f \in events' : f.at <= t => f.at <= e.at})
    BY <1>4 DEF get_score_history, NewestBy
  <2> QED BY <1>3, <1>5, <2>1, <2>2
<1>7. AnswersStay'
  BY <1>4, <1>6 DEF AnswersStay
<1>8. AnswerHolds'
  <2>1. t \in Nat /\ t <= clock
    BY DEF HistoryTypes
  <2> QED BY <1>1, <1>4, <1>7, <2>1 DEF AnswerHolds
<1>9. HistoryTypes' /\ EventsHaveScorings' /\ LaterIsLater' /\ RowIsNewest'
  BY <1>1 DEF HistoryTypes, EventsHaveScorings, LaterIsLater, RowIsNewest, HasEvent, IsOver,
              Active, Met
<1> QED BY <1>8, <1>9

(* No step of a scoring or of a client breaks the invariant.               *)
LEMMA HistorySteps ==
  ASSUME HistoryConstants, HistoryInv, [HistoryNext]_historyVars
  PROVE  HistoryInv'
<1>1. ASSUME NEW w \in Scorings, BulkUpdate(w) \/ SaveError(w) PROVE HistoryInv'
  <2>1. PICK from \in {"ready", "python"} :
          /\ MoveTo(w, from, "done") /\ UNCHANGED <<clock, events, overlaps>>
          /\ stored' # None /\ stored'.how # "scored"
    BY <1>1 DEF BulkUpdate, SaveError, RowOf, HistoryConstants
  <2>2. "done" \in JobSteps
    BY DEF JobSteps
  <2> QED BY <2>1, <2>2, QuietMove
<1>2. ASSUME NEW w \in Scorings, LockPassport(w) \/ UpsertScore(w) PROVE HistoryInv'
  <2>1. PICK from \in InRust, to \in {"locked", "written"} :
          MoveTo(w, from, to) /\ UNCHANGED <<clock, stored, events, overlaps>>
    BY <1>2 DEF LockPassport, UpsertScore, InRust
  <2>2. to \in JobSteps /\ from \notin {"logged"}
    BY DEF JobSteps, InRust
  <2> QED BY <2>1, <2>2, QuietMove
<1>3. ASSUME NEW w \in Scorings, Break(w) PROVE HistoryInv'
  <2>1. PICK from, to : /\ from = jobs[w].step
                        /\ to = IF jobs[w].step = "logged" THEN "lost" ELSE "done"
    OBVIOUS
  <2>2. /\ MoveTo(w, from, to) /\ UNCHANGED <<clock, stored, events, overlaps>>
        /\ Active(w)
    BY <1>3, <2>1 DEF Break
  <2>3. /\ to \in JobSteps /\ to \in {"lost", "done"}
        /\ to = "lost" => from = "logged"
        /\ to = "done" => from \notin {"logged", "lost", "done"}
    BY <2>1, <2>2 DEF JobSteps, Active, InRust
  <2> QED BY <2>2, <2>3, QuietMove
<1>4. CASE UNCHANGED historyVars
  <2>1. UNCHANGED <<clock, stored, events, jobs, overlaps, asked>>
    BY <1>4 DEF historyVars
  <2>2. HistoryTypes' /\ EventsHaveScorings' /\ LaterIsLater' /\ RowIsNewest'
    BY <2>1 DEF HistoryInv, HistoryTypes, EventsHaveScorings, LaterIsLater, RowIsNewest,
                HasEvent, IsOver, Active, Met
  <2>3. AnswersStay'
    <3>1. PICK none : none = {}
      OBVIOUS
    <3>2. events' = events \cup none /\ \A e : e \notin none
      BY <2>1, <3>1
    <3> QED BY <2>1, <3>2, AnswerKept DEF HistoryInv
  <2> QED BY <2>1, <2>2, <2>3 DEF HistoryInv, AnswerHolds
<1> QED BY <1>1, <1>2, <1>3, <1>4, HistoryBegins, PythonLogs, ScoringSaves, Asked
        DEF HistoryNext

(* The invariant.                                                          *)
THEOREM HistoryInvariance == ASSUME HistoryConstants PROVE HistorySpec => []HistoryInv
<1>1. HistoryInit => HistoryInv
  <2>1. ASSUME HistoryInit PROVE HistoryInv
    <3>1. /\ clock = 0 /\ asked = None
          /\ jobs = [w \in Scorings |-> [step |-> "ready", began |-> 0]]
          /\ \/ stored = None /\ events = {}
             \/ stored = RowOf(Old, "scored") /\ events = {EventOf(Old, 0, "legacy")}
      BY <2>1 DEF HistoryInit
    <3>2. /\ \A e \in events : e.at = 0 /\ e.by = Old
          /\ stored # None => stored.by = Old /\ \E e \in events : e.by = Old
          /\ stored = None => events = {}
      <4>1. PICK old : old = EventOf(Old, 0, "legacy")
        OBVIOUS
      <4>2. old.at = 0 /\ old.by = Old
        BY <4>1 DEF EventOf
      <4>3. \A r : r = RowOf(Old, "scored") => r.by = Old /\ r # None
        BY DEF RowOf, HistoryConstants
      <4>4. (stored = None /\ events = {}) \/ (stored = RowOf(Old, "scored") /\ events = {old})
        BY <3>1, <4>1
      <4> QED BY <4>2, <4>3, <4>4
    <3>3. \A w \in Scorings : jobs[w].step = "ready" /\ jobs[w].began = 0
      BY <3>1
    <3>4. HistoryTypes
      BY <3>1, <3>2, <3>3 DEF HistoryTypes, JobSteps
    <3>5. EventsHaveScorings
      BY <3>2, <3>3 DEF EventsHaveScorings, Active, InRust, HistoryConstants
    <3>6. LaterIsLater
      BY <3>3 DEF LaterIsLater, InRust
    <3>7. RowIsNewest
      BY <3>2 DEF RowIsNewest, HasEvent
    <3>8. AnswerHolds
      BY <3>1 DEF AnswerHolds
    <3> QED BY <3>4, <3>5, <3>6, <3>7, <3>8 DEF HistoryInv
  <2> QED BY <2>1
<1>2. HistoryInv /\ [HistoryNext]_historyVars => HistoryInv'
  BY HistorySteps
<1> QED BY <1>1, <1>2, PTL DEF HistorySpec

(* HistoryFollowsTheScore, for any number of scorings: a score that is     *)
(* shown has its event, and the newest event is that of the score, but for *)
(* scorings that overlapped, broke off or wrote their row without one.     *)
THEOREM FollowsTheorem ==
  ASSUME HistoryConstants PROVE HistorySpec => []HistoryFollowsTheScore
<1>1. HistoryInv => HistoryFollowsTheScore
  <2>1. ASSUME HistoryInv PROVE HistoryFollowsTheScore
    <3>1. ASSUME stored = None \/ stored.how = "scored", NEW e \in Newest
          PROVE  \/ stored # None /\ stored.by = e.by
                 \/ e.by \in Scorings /\ (Active(e.by) \/ jobs[e.by].step = "lost")
                 \/ stored # None /\ {stored.by, e.by} \in overlaps
      <4>1. e \in events /\ \A f \in events : f.at <= e.at
        BY <2>1 DEF Newest, NewestBy, HistoryInv, HistoryTypes
      <4>2. ~IsOver(e) => e.by \in Scorings /\ (Active(e.by) \/ jobs[e.by].step = "lost")
        BY <2>1, <4>1 DEF IsOver, HistoryInv, EventsHaveScorings, Active
      <4>3. CASE IsOver(e)
        <5>1. stored # None /\ stored.how = "scored"
          BY <2>1, <3>1, <4>1, <4>3 DEF HistoryInv, RowIsNewest
        <5>2. ASSUME e.by # stored.by, ~Met(stored.by, e.by) PROVE FALSE
          <6>1. PICK f \in events : e.at < f.at
            BY <2>1, <4>1, <4>3, <5>1, <5>2 DEF HistoryInv, RowIsNewest
          <6>2. e.at \in Nat /\ f.at \in Nat /\ f.at <= e.at
            BY <2>1, <4>1 DEF HistoryInv, HistoryTypes
          <6> QED BY <6>1, <6>2
        <5> QED BY <5>1, <5>2 DEF Met, Pair
      <4> QED BY <4>2, <4>3
    <3>2. stored # None /\ stored.how = "scored" => \E e \in events : e.by = stored.by
      BY <2>1 DEF HistoryInv, RowIsNewest, HasEvent
    <3> QED BY <3>1, <3>2 DEF HistoryFollowsTheScore
  <2> QED BY <2>1
<1> QED BY <1>1, HistoryInvariance, PTL

(* AnswersStay, for the same: what was answered about the past holds,      *)
(* unless a transaction that was open then has committed.                  *)
THEOREM AnswersTheorem == ASSUME HistoryConstants PROVE HistorySpec => []AnswersStay
<1>1. HistoryInv => AnswersStay
  BY DEF HistoryInv, AnswerHolds, AnswersStay
<1> QED BY <1>1, HistoryInvariance, PTL

============================================================================
