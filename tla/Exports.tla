------------------------------ MODULE Exports ------------------------------
(***************************************************************************)
(* The dumps of tables to S3 (src/api/scorer/export_utils.py and the       *)
(* scorer_dump_data commands): each table is read by id in batches and     *)
(* written to a file, which is uploaded; a failure ends the table and not  *)
(* the run.  Rows come and go meanwhile, and those of a late transaction   *)
(* have smaller ids than rows that have been read.                         *)
(***************************************************************************)
EXTENDS Integers, FiniteSets

CONSTANTS
  Tables,     \* the configured models, in their order: 1..n
  LastId,     \* bound on the ids of rows
  BatchRows   \* batch_size

VARIABLES
  table,   \* the ids of the rows of each table
  used,    \* and those that were given out
  export,  \* the run of the command: its step, table and last id
  file,    \* the rows in the file of the table, and those it has twice
  bucket,  \* the object of each table: none, whole or partial
  steady   \* history: the rows that were there while the table is read

exportVars == <<table, used, export, file, bucket, steady>>

IdsOf == 1..LastId
NoExport == [step |-> "over", at |-> 0, last |-> 0]
NewFile == [rows |-> {}, twice |-> {}]

ExportTypeOK ==
  /\ \A t \in Tables :
       /\ table[t] \subseteq used[t] /\ used[t] \subseteq IdsOf
       /\ bucket[t] \in {"none", "whole", "partial"}
  /\ export.step \in {"over", "read", "upload"}
  /\ export.at \in {0} \cup Tables
  /\ export.last \in {0} \cup IdsOf
  /\ export.step = "over" <=> export.at = 0
  /\ file.twice \subseteq file.rows
  /\ export.at > 0 =>
       file.rows \subseteq used[export.at] /\ steady \subseteq table[export.at]

ExportInit ==
  /\ table = [t \in Tables |-> {1, 3}]
  /\ used = table
  /\ export = NoExport
  /\ file = NewFile
  /\ bucket = [t \in Tables |-> "none"]
  /\ steady = {}

-----------------------------------------------------------------------------
AddRow ==
  \E t \in Tables : \E i \in IdsOf \ used[t] :
    /\ table' = [table EXCEPT ![t] = @ \cup {i}]
    /\ used' = [used EXCEPT ![t] = @ \cup {i}]
    /\ UNCHANGED <<export, file, bucket, steady>>

RemoveRow ==
  \E t \in Tables : \E i \in table[t] :
    /\ table' = [table EXCEPT ![t] = @ \ {i}]
    /\ steady' = IF export.at = t THEN steady \ {i} ELSE steady
    /\ UNCHANGED <<used, export, file, bucket>>

(* A table, whose file is opened to be written anew.                       *)
StartTable(t) ==
  /\ export' = [step |-> "read", at |-> t, last |-> 0]
  /\ file' = NewFile
  /\ steady' = table[t]

EndExport == export' = NoExport /\ file' = NewFile /\ steady' = {}

(* The loop over the models.                                               *)
NextTable ==
  IF export.at + 1 \in Tables THEN StartTable(export.at + 1) ELSE EndExport

StartExport ==
  /\ export.step = "over"
  /\ StartTable(1)
  /\ UNCHANGED <<table, used, bucket>>

WriteBatch(batch) ==
  /\ export.step = "read"
  /\ IF batch = {}
     THEN export' = [export EXCEPT !.step = "upload"] /\ UNCHANGED file
     ELSE /\ export' = [export EXCEPT !.last =
                          CHOOSE i \in batch : \A j \in batch : j <= i]
          /\ file' = [rows |-> file.rows \cup batch,
                      twice |-> file.twice \cup (file.rows \cap batch)]
  /\ UNCHANGED <<table, used, bucket, steady>>

(* The first BatchRows of some rows.                                       *)
FirstRows(ids) == {i \in ids : Cardinality({j \in ids : j <= i}) <= BatchRows}

(* Plausible bug: the batches are read by an offset.                       *)
ReadRowsByOffset ==
  LET before(i) == {j \in table[export.at] : j < i} IN
  WriteBatch(FirstRows({i \in table[export.at] :
                          Cardinality(before(i)) >= Cardinality(file.rows)}))

(* get_data: the rows with id__gt=last_id, until there are none.           *)
ReadRows ==
  WriteBatch(FirstRows({i \in table[export.at] : i > export.last}))

(* upload_to_s3.                                                           *)
Upload ==
  /\ export.step = "upload"
  /\ bucket' = [bucket EXCEPT ![export.at] =
       IF steady \subseteq file.rows /\ file.twice = {}
       THEN "whole" ELSE "partial"]
  /\ NextTable
  /\ UNCHANGED <<table, used>>

(* An exception of a query, of the file or of the upload.                  *)
TableFails ==
  /\ export.step # "over"
  /\ NextTable
  /\ UNCHANGED <<table, used, bucket>>

RunDies ==
  /\ export.step # "over"
  /\ EndExport
  /\ UNCHANGED <<table, used, bucket>>

ExportNext ==
  \/ AddRow \/ RemoveRow \/ StartExport \/ ReadRows \/ Upload
  \/ TableFails \/ RunDies

-----------------------------------------------------------------------------
(* What is in the bucket has each row that was there all the while its     *)
(* table was read, and none twice, whatever failed or came and went.       *)
ObjectsAreWhole == \A t \in Tables : bucket[t] # "partial"
=============================================================================
