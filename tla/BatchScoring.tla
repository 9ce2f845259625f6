---------------------------- MODULE BatchScoring ----------------------------
(***************************************************************************)
(* Batch model scoring (src/api/registry): an administrator triggers the   *)
(* scoring of an uploaded list of addresses by saving a trigger file       *)
(* (admin.py); a task looks the request up by that file, walks through its *)
(* pending items in batches, and saves its progress in the request         *)
(* (management/commands/process_batch_model_address_upload.py).  Every     *)
(* save of the request writes the row as it was read.                      *)
(***************************************************************************)
EXTENDS Integers, FiniteSets

CONSTANTS
  Tasks,       \* the tasks, each started by one trigger file
  LastItem,    \* the items of the request have the ids 1..LastItem
  Invalid,     \* items whose address has no checksum form
  BatchSize    \* BULK_MODEL_SCORE_BATCH_SIZE

VARIABLES
  items,      \* the status of each item, "absent" before it is created
  trigger,    \* request.trigger_processing_file: the task it starts, or 0
  status,     \* request.status
  admin,      \* the status that a view of the administrator read, or "none"
  task,       \* each task: its step, action, cursor and batch
  walked,     \* history: the items of the batches that each task is done with
  untried     \* history: items of failed batches and broken tasks

batchVars == <<items, trigger, status, admin, task, walked, untried>>

Items == 1..LastItem
Steps == {"new", "started", "items", "reset", "save", "batch", "score",
          "progress", "results", "over"}

BatchTypeOK ==
  /\ items \in [Items -> {"absent", "PENDING", "DONE", "ERROR"}]
  /\ trigger \in {0} \cup Tasks
  /\ status \in {"PENDING", "DONE", "ERROR"}
  /\ admin \in {"none", "PENDING", "DONE", "ERROR"}
  /\ \A t \in Tasks :
       /\ task[t].step \in Steps
       /\ task[t].action \in {"score", "score_errors", "score_all"}
       /\ task[t].batch \subseteq Items
       /\ \A i \in task[t].batch : items[i] # "absent"
  /\ walked \in [Tasks -> SUBSET Items]
  /\ untried \subseteq Items

BatchInit ==
  /\ items = [i \in Items |-> "absent"]
  /\ trigger = 0
  /\ status = "PENDING"
  /\ admin = "none"
  /\ task = [t \in Tasks |->
               [step |-> "new", action |-> "score", last |-> 0, batch |-> {}]]
  /\ walked = [t \in Tasks |-> {}]
  /\ untried = {}

-----------------------------------------------------------------------------
(* BatchModelScoringRequest.objects.get, and later save: with a new        *)
(* trigger file, and the status as it was.                                 *)
OpenRequest ==
  /\ admin = "none"
  /\ \E t \in Tasks : task[t].step = "new"
  /\ admin' = status
  /\ UNCHANGED <<items, trigger, status, task, walked, untried>>

SaveTrigger(t) ==
  /\ admin # "none"
  /\ task[t].step = "new"
  /\ \A u \in Tasks : u < t => task[u].step # "new"
  /\ \E a \in {"score", "score_errors", "score_all"} :
       task' = [task EXCEPT ![t].step = "started", ![t].action = a]
  /\ trigger' = t
  /\ status' = admin
  /\ admin' = "none"
  /\ UNCHANGED <<items, walked, untried>>

To(t, from, to) == task[t].step = from /\ task' = [task EXCEPT ![t].step = to]

(* A task whose file is no longer that of the request ends.                *)
Lookup(t) ==
  /\ To(t, "started", IF trigger = t THEN "items" ELSE "over")
  /\ UNCHANGED <<items, trigger, status, admin, walked, untried>>

CreateItems(t) ==
  /\ To(t, "items", "reset")
  /\ items' = [i \in Items |->
                 IF items[i] = "absent" THEN "PENDING" ELSE items[i]]
  /\ UNCHANGED <<trigger, status, admin, walked, untried>>

Again(t) ==
  CASE task[t].action = "score" -> {}
    [] task[t].action = "score_errors" -> {"ERROR"}
    [] task[t].action = "score_all" -> {"PENDING", "DONE", "ERROR"}

ResetItems(t) ==
  /\ To(t, "reset", "save")
  /\ items' = [i \in Items |->
                 IF items[i] \in Again(t) THEN "PENDING" ELSE items[i]]
  /\ UNCHANGED <<trigger, status, admin, walked, untried>>

(* The row as it was when the task looked it up: with its own trigger.     *)
SaveRequest(t, s) == trigger' = t /\ status' = s

SaveStart(t) ==
  /\ To(t, "save", "batch")
  /\ SaveRequest(t, "PENDING")
  /\ UNCHANGED <<items, admin, walked, untried>>

Pending == {i \in Items : items[i] = "PENDING"}
FirstOf(S, n) == {i \in S : Cardinality({j \in S : j <= i}) <= n}

ReadBatchOf(t, batch) ==
  /\ task[t].step = "batch"
  /\ task' = [task EXCEPT ![t].step = IF batch = {} THEN "results" ELSE "score",
                          ![t].batch = batch,
                          ![t].last = IF batch = {} THEN @ ELSE
                             CHOOSE i \in batch : \A j \in batch : j <= i]
  /\ UNCHANGED <<items, trigger, status, admin, walked, untried>>

(* Plausible bug: the batches are taken by offset, while the items that    *)
(* were scored leave the list.                                             *)
ReadBatchByOffset(t) ==
  ReadBatchOf(t, FirstOf(Pending, Cardinality(walked[t]) + BatchSize)
                 \ FirstOf(Pending, Cardinality(walked[t])))

(* Plausible bug: without a cursor, what stays pending comes again.        *)
ReadFirstBatch(t) == ReadBatchOf(t, FirstOf(Pending, BatchSize))

ReadBatch(t) ==
  ReadBatchOf(t, FirstOf({i \in Pending : i > task[t].last}, BatchSize))

(* get_analysis leaves out addresses without a checksum form; one that     *)
(* still fails after five attempts is an ERROR.                            *)
Analyses(batch) ==
  {result \in [batch -> {"PENDING", "DONE", "ERROR"}] :
     \A i \in batch : result[i] = "PENDING" <=> i \in Invalid}

(* bulk_update saves all of the batch, also what has no new result.        *)
ScoreBatch(t) ==
  LET batch == task[t].batch IN
  /\ To(t, "score", "progress")
  /\ \E result \in Analyses(batch) :
       items' = [i \in Items |-> IF i \in batch THEN result[i] ELSE items[i]]
  /\ UNCHANGED <<trigger, status, admin, walked, untried>>

NextBatch(t, from) ==
  /\ task[t].step = from
  /\ task' = [task EXCEPT ![t].step = "batch", ![t].batch = {}]
  /\ walked' = [walked EXCEPT ![t] = @ \cup task[t].batch]

(* An error outside of the attempts is swallowed: on to the next batch.    *)
BatchFails(t) ==
  /\ \/ NextBatch(t, "score") /\ untried' = untried \cup task[t].batch
     \/ NextBatch(t, "progress") /\ UNCHANGED untried
  /\ UNCHANGED <<items, trigger, status, admin>>

UpdateProgress(t) ==
  /\ NextBatch(t, "progress")
  /\ SaveRequest(t, "PENDING")
  /\ UNCHANGED <<items, admin, untried>>

SaveDone(t) ==
  /\ To(t, "results", "over")
  /\ SaveRequest(t, "DONE")
  /\ UNCHANGED <<items, admin, walked, untried>>

(* An error outside of the batches; the task dies.                         *)
TaskFails(t) ==
  /\ task[t].step \in {"items", "reset", "save", "batch", "results"}
  /\ task' = [task EXCEPT ![t].step = "over"]
  /\ SaveRequest(t, "ERROR")
  /\ untried' = Items
  /\ UNCHANGED <<items, admin, walked>>

TaskDies(t) ==
  /\ task[t].step \notin {"new", "over"}
  /\ task' = [task EXCEPT ![t].step = "over"]
  /\ untried' = Items
  /\ UNCHANGED <<items, trigger, status, admin, walked>>

BatchNext ==
  \/ OpenRequest
  \/ \E t \in Tasks :
       \/ SaveTrigger(t) \/ Lookup(t) \/ CreateItems(t) \/ ResetItems(t)
       \/ SaveStart(t) \/ ReadBatch(t) \/ ScoreBatch(t) \/ BatchFails(t)
       \/ UpdateProgress(t) \/ SaveDone(t) \/ TaskFails(t) \/ TaskDies(t)

-----------------------------------------------------------------------------
(* When no task runs and the request is DONE, each valid address has been  *)
(* scored or has failed, also when triggers reset items behind the cursor  *)
(* of another task; only failed batches and tasks leave some PENDING.      *)
DoneMeansTried ==
  /\ status = "DONE"
  /\ \A t \in Tasks : task[t].step \in {"new", "over"}
  => \A i \in Items \ Invalid : items[i] = "PENDING" => i \in untried

(* A task reads an item once, so that it ends, though items without a      *)
(* valid address and those of failed batches stay PENDING.                 *)
TasksWalkOnce == \A t \in Tasks : task[t].batch \cap walked[t] = {}
=============================================================================
