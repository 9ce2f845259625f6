------------------------- MODULE StakeIndexerProofs -------------------------
(***************************************************************************)
(* Proofs about StakeIndexer, for any chains, connections, staking events  *)
(* and ranges.                                                             *)
(***************************************************************************)
EXTENDS StakeIndexer, FiniteSetTheorems, TLAPS

USE IndexerAssumption DEF tables, Kinds

(***************************************************************************)
(* The inductive invariant.                                                *)
(***************************************************************************)
Connection ==
  [tx: {"none", "open", "aborted"}, work: WorkType, queued: Sent \cup {None}]

Job ==
  [pc: Stages, conn: Conns \cup {None}, event: Events \cup {None},
   watching: BOOLEAN, from: 0..MaxBlock + 1, to: 0..MaxBlock,
   current: 0..MaxBlock + 1, cursor: Positions, since: 0..MaxBlock,
   counted: Nat]

(* What has not been committed lies in an open transaction.                *)
GoodWork(k) ==
  /\ conns[k].tx # "open" => conns[k].work = NoWork
  /\ conns[k].work.applied \subseteq conns[k].work.logged
  /\ \A c \in Chains : conns[k].work.last[c] < head[c]

(* A statement that still waits there belongs to no indexer.               *)
GoodQueue(k) ==
  conns[k].queued # None =>
    LET sent == conns[k].queued IN
    /\ Idle(k)
    /\ sent[1] \in {"insert", "apply"} => conns[k].tx = "open"
    /\ sent[1] = "apply" => sent[2] \in conns[k].work.logged
    /\ sent[1] = "save" => sent[3] < head[sent[2]]

ConnInv == \A k \in Conns : GoodWork(k) /\ GoodQueue(k)

(* The unique key of stake_stakeevent, over the table and what the open    *)
(* transactions have inserted.                                             *)
KeysInv ==
  /\ \A e, f \in logged : Key(e) = Key(f) => e = f
  /\ \A k \in Conns : \A e \in conns[k].work.logged :
       /\ \A f \in logged : Key(e) # Key(f)
       /\ \A l \in Conns : \A f \in conns[l].work.logged :
            Key(e) = Key(f) => k = l /\ e = f

(* An indexer in a transaction has a connection, and what it has inserted  *)
(* is there; it reads no further than the newest block.                    *)
GoodJob(c) ==
  LET j == job[c] IN
  /\ j.pc \in InTransaction => j.conn \in Conns /\ j.event \in Events
  /\ j.conn \in Conns => j.pc \in InTransaction
  /\ j.pc \in {"insert", "apply", "commit"} => conns[j.conn].tx = "open"
  /\ j.pc = "apply" => j.event \in conns[j.conn].work.logged
  /\ j.pc \in {"ack", "head", "range"} => j.from >= 1
  /\ j.pc \in {"start", "ack", "latest", "head", "range", "route"} => ~j.watching
  /\ j.pc \in {"watch", "ended"} => j.watching
  /\ j.pc \in {"route"} \cup InTransaction /\ ~j.watching => j.from >= 1 /\ j.to >= 1
  /\ j.to < head[c]
  /\ j.current <= head[c] \/ j.current <= 2

(* Nobody else uses the connection of a transaction.                       *)
JobInv ==
  /\ \A c \in Chains : GoodJob(c)
  /\ \A c, d \in Chains : job[c].conn \in Conns /\ job[d].conn = job[c].conn => c = d

IndexerInv ==
  /\ TypeOK
  /\ ConnInv
  /\ KeysInv
  /\ AppliedOnce
  /\ JobInv

-----------------------------------------------------------------------------
(***************************************************************************)
(* Connections.                                                            *)
(***************************************************************************)
LEMMA WorkTypes ==
  /\ NoWork \in WorkType /\ Clean \in Connection
  /\ NoWork.logged = {} /\ NoWork.applied = {}
  /\ NoWork.rows = {} /\ NoWork.acked = {}
  /\ \A c \in Chains : NoWork.last[c] = 0
  BY DEF NoWork, Clean, WorkType, Connection, Stakes

(* The statements a task may have sent, by their kind.                     *)
LEMMA SentTypes ==
  /\ \A e \in Events : <<"insert", e>> \in Sent /\ <<"apply", e>> \in Sent
  /\ \A c \in Chains, n \in 1..MaxBlock : <<"save", c, n>> \in Sent
  /\ \A s \in Sent :
       \/ s[1] \in {"insert", "apply"} /\ s[2] \in Events
       \/ s[1] = "save" /\ s[2] \in Chains /\ s[3] \in 1..MaxBlock
  BY DEF Sent

(* The key of an event belongs to its chain, and so do its stakes.         *)
LEMMA EventTypes ==
  ASSUME NEW e \in Events
  PROVE  /\ e.chain \in Chains /\ e.block \in 1..MaxBlock
         /\ e.pos \in Nat \ {0} /\ e.pos \in Positions
         /\ Recorded(e) \in Stakes
  BY DEF Positions, Stakes

(* The statement that inserts an event: it is in, or the transaction is    *)
(* aborted and empty.                                                      *)
LEMMA InsertConn ==
  ASSUME TypeOK, NEW k \in Conns, NEW e \in Events, InsertEvent(k, e)
  PROVE  /\ conns' \in [Conns -> Connection]
         /\ \A l \in Conns \ {k} : conns'[l] = conns[l]
         /\ conns'[k].queued = None
         /\ Duplicate(k, e) => conns'[k].tx = "aborted" /\ conns'[k].work = NoWork
         /\ ~Duplicate(k, e) =>
              /\ conns'[k].tx = conns[k].tx
              /\ conns'[k].work.logged = conns[k].work.logged \cup {e}
              /\ conns'[k].work.applied = conns[k].work.applied
              /\ conns'[k].work.rows = conns[k].work.rows
              /\ conns'[k].work.last = conns[k].work.last
<1>1. conns \in [Conns -> Connection]
  BY DEF TypeOK, Connection
<1>2. CASE Duplicate(k, e)
  BY <1>1, <1>2, WorkTypes DEF InsertEvent, Connection
<1>3. CASE ~Duplicate(k, e)
  <2> DEFINE work == [conns[k].work EXCEPT !.logged = @ \cup {e}]
             conn == [conns[k] EXCEPT !.work = work, !.queued = None]
  <2>1. /\ work \in WorkType
        /\ work.logged = conns[k].work.logged \cup {e}
        /\ work.applied = conns[k].work.applied
        /\ work.rows = conns[k].work.rows
        /\ work.last = conns[k].work.last
    BY <1>1, SMTT(60) DEF Connection, WorkType
  <2>2. conns' = [conns EXCEPT ![k] = conn]
    BY <1>1, <1>3 DEF InsertEvent, Connection, WorkType
  <2>3. conn \in Connection /\ conn.tx = conns[k].tx /\ conn.work = work /\ conn.queued = None
    BY <1>1, <2>1 DEF Connection
  <2> QED
    BY <1>1, <1>3, <2>1, <2>2, <2>3
<1> QED
  BY <1>2, <1>3

(* The statement that changes the summary.                                 *)
LEMMA SummaryConn ==
  ASSUME TypeOK, NEW k \in Conns, NEW e \in Events, ChangeSummary(k, e)
  PROVE  /\ conns' \in [Conns -> Connection]
         /\ \A l \in Conns \ {k} : conns'[l] = conns[l]
         /\ conns'[k].queued = None /\ conns'[k].tx = conns[k].tx
         /\ conns'[k].work.logged = conns[k].work.logged
         /\ conns'[k].work.last = conns[k].work.last
         /\ IF e.kind = "stake" \/ Recorded(e) \in rows \cup conns[k].work.rows
            THEN /\ conns'[k].work.applied = conns[k].work.applied \cup {e}
                 /\ conns'[k].work.rows = conns[k].work.rows \cup {Recorded(e)}
            ELSE conns'[k].work = conns[k].work
<1>1. conns \in [Conns -> Connection]
  BY DEF TypeOK, Connection
<1>2. Recorded(e) \in Stakes
  BY EventTypes
<1> DEFINE old == conns[k].work
           changes == e.kind = "stake" \/ Recorded(e) \in rows \cup old.rows
           work == IF changes
                   THEN [old EXCEPT !.rows = @ \cup {Recorded(e)},
                                    !.applied = @ \cup {e},
                                    !.locked = @ \cup {Recorded(e)}]
                   ELSE old
           conn == [conns[k] EXCEPT !.work = work, !.queued = None]
<1>3. /\ work \in WorkType
      /\ work.logged = old.logged /\ work.last = old.last
      /\ IF changes
         THEN work.applied = old.applied \cup {e} /\ work.rows = old.rows \cup {Recorded(e)}
         ELSE work = old
  <2>1. old \in WorkType
    BY <1>1 DEF Connection
  <2>2. CASE changes
    <3>1. work = [old EXCEPT !.rows = @ \cup {Recorded(e)}, !.applied = @ \cup {e},
                             !.locked = @ \cup {Recorded(e)}]
      BY <2>2
    <3> HIDE DEF work
    <3> QED
      BY <1>2, <2>1, <2>2, <3>1 DEF WorkType
  <2>3. CASE ~changes
    BY <2>1, <2>3
  <2> QED
    BY <2>2, <2>3
<1>4. conns' = [conns EXCEPT ![k] = conn]
  BY <1>1 DEF ChangeSummary, Connection
<1> HIDE DEF work
<1>5. conn \in Connection /\ conn.tx = conns[k].tx /\ conn.work = work /\ conn.queued = None
  BY <1>1, <1>3 DEF Connection
<1> QED
  BY <1>1, <1>3, <1>4, <1>5

(* What a transaction has written, with a block or a reindex request more. *)
WithLast(work, c, n) == [work EXCEPT !.last[c] = Larger(@, n)]
Acked(work, c) == [work EXCEPT !.acked = @ \cup {c}]

(* What writing a last block, or acknowledging a request, changes in a     *)
(* transaction.                                                            *)
LEMMA WorkChanges ==
  ASSUME NEW work \in WorkType, NEW c \in Chains, NEW n \in 0..MaxBlock
  PROVE  /\ WithLast(work, c, n) \in WorkType
         /\ WithLast(work, c, n).logged = work.logged
         /\ WithLast(work, c, n).applied = work.applied
         /\ WithLast(work, c, n).rows = work.rows
         /\ WithLast(work, c, n).acked = work.acked
         /\ WithLast(work, c, n).last[c] = Larger(work.last[c], n)
         /\ \A d \in Chains \ {c} : WithLast(work, c, n).last[d] = work.last[d]
         /\ Acked(work, c) \in WorkType
         /\ Acked(work, c).logged = work.logged
         /\ Acked(work, c).applied = work.applied
         /\ Acked(work, c).rows = work.rows
         /\ Acked(work, c).last = work.last
<1>1. Larger(work.last[c], n) \in 0..MaxBlock
  BY DEF Larger, WorkType
<1> QED
  BY <1>1 DEF WorkType, WithLast, Acked

(* A commit adds to the tables, and takes a block number for a greater one *)
(* only.                                                                   *)
LEMMA PublishTables ==
  ASSUME TypeOK, NEW work \in WorkType, Publish(work)
  PROVE  /\ request' \in [Chains -> 0..MaxBlock]
         /\ \A c \in Chains : request'[c] \in {0, request[c]}
         /\ last' \in [Chains -> 0..MaxBlock]
         /\ \A c \in Chains : /\ last'[c] \in {last[c], work.last[c]}
                              /\ last'[c] >= last[c] /\ last'[c] >= work.last[c]
         /\ logged' = logged \cup work.logged /\ logged' \in SUBSET Events
         /\ rows' = rows \cup work.rows /\ rows' \in SUBSET Stakes
         /\ applied' \in [Events -> Nat]
         /\ \A e \in Events :
              applied'[e] = applied[e] + (IF e \in work.applied THEN 1 ELSE 0)
<1> USE DEF TypeOK, Publish
<1>1. /\ request' \in [Chains -> 0..MaxBlock]
      /\ \A c \in Chains : request'[c] \in {0, request[c]}
  OBVIOUS
<1>2. /\ last' \in [Chains -> 0..MaxBlock]
      /\ \A c \in Chains : /\ last'[c] \in {last[c], work.last[c]}
                           /\ last'[c] >= last[c] /\ last'[c] >= work.last[c]
  BY DEF Larger, WorkType
<1>3. /\ logged' = logged \cup work.logged /\ logged' \in SUBSET Events
      /\ rows' = rows \cup work.rows /\ rows' \in SUBSET Stakes
  BY DEF WorkType
<1>4. /\ applied' \in [Events -> Nat]
      /\ \A e \in Events :
           applied'[e] = applied[e] + (IF e \in work.applied THEN 1 ELSE 0)
  OBVIOUS
<1> QED
  BY <1>1, <1>2, <1>3, <1>4

(* A statement of its own changes the transaction that it runs in, or the  *)
(* tables.                                                                 *)
LEMMA ExecuteConn ==
  ASSUME TypeOK, NEW k \in Conns, NEW work \in WorkType, Execute(k, work)
  PROVE  /\ conns' \in [Conns -> Connection]
         /\ \A l \in Conns \ {k} : conns'[l] = conns[l]
         /\ conns'[k].queued = conns[k].queued /\ conns'[k].tx = conns[k].tx
         /\ conns[k].tx = "open" => conns'[k].work = work /\ UNCHANGED tables
         /\ conns[k].tx # "open" => conns' = conns /\ Publish(work)
<1>1. conns \in [Conns -> Connection]
  BY DEF TypeOK, Connection
<1> QED
  BY <1>1 DEF Execute, Connection

(* The error that ends the join, or a crash, leaves a new pool.            *)
LEMMA NewPool ==
  ASSUME AllStartOver
  PROVE  /\ conns' \in [Conns -> Connection] /\ job' \in [Chains -> Job]
         /\ \A k \in Conns : conns'[k] = Clean
         /\ \A c \in Chains : job'[c] = Begun
  BY WorkTypes DEF AllStartOver, Begun, Job, Stages, Positions

(* The state of an indexer that (re)starts.                                *)
LEMMA BegunType == Begun \in Job
  BY DEF Begun, Job, Stages, Positions

-----------------------------------------------------------------------------
(***************************************************************************)
(* Types.                                                                  *)
(***************************************************************************)
(* The actions that write nothing to the tables and mine no block.         *)
LEMMA TablesKept ==
  ASSUME FaultyNext
  PROVE  \/ UNCHANGED <<head, asked, tables>>
         \/ \E c \in Chains, k \in Conns : Acknowledge(c, k) \/ Save(c, k)
         \/ \E c \in Chains : Commit(c) \/ RequestReindex(c) \/ Mine(c)
         \/ \E k \in Conns : Drain(k)
<1> DEFINE Kept == UNCHANGED <<head, asked, tables>>
<1>1. ASSUME NEW c \in Chains, NEW k \in Conns,
             \/ GetRequested(c, k) \/ GetLatest(c, k) \/ HeadFails(c, k) \/ GetHead(c, k)
             \/ Begin(c, k) \/ StartFails(c, k) \/ RestartInSave(c, k)
      PROVE  Kept
  BY <1>1 DEF GetRequested, GetLatest, HeadFails, GetHead, StartAt, Begin, StartFails,
              RestartInSave
<1>2. ASSUME NEW c \in Chains, NEW k \in Conns, IdleTimer(c, k) \/ ReindexTimer(c, k)
      PROVE  Kept
  BY <1>2 DEF IdleTimer, ReindexTimer, Restart
<1>3. ASSUME NEW c \in Chains,
             \/ QueryRange(c) \/ Watch(c) \/ Insert(c) \/ Apply(c) \/ Rollback(c)
             \/ StreamEnds(c) \/ RpcFails(c) \/ StatementFails(c)
      PROVE  Kept
  BY <1>3 DEF QueryRange, Watch, Insert, Apply, Rollback, StreamEnds, RpcFails, Restart,
              StatementFails
<1>4. ASSUME Crash \/ \E k \in Conns : DrainFails(k) PROVE Kept
  BY <1>4 DEF Crash, DrainFails
<1> QED
  BY <1>1, <1>2, <1>3, <1>4 DEF FaultyNext, Next, Faults, Steps

(* What a statement of its own publishes is a block or an acknowledgement. *)
LEMMA AcknowledgeWork ==
  ASSUME TypeOK, ConnInv, NEW c \in Chains, NEW k \in Conns
  PROVE  /\ Acked(conns[k].work, c) \in WorkType
         /\ Acked(conns[k].work, c).logged = conns[k].work.logged
         /\ Acked(conns[k].work, c).applied = conns[k].work.applied
         /\ Acked(conns[k].work, c).rows = conns[k].work.rows
         /\ \A d \in Chains : Acked(conns[k].work, c).last[d] < head[d]
<1> DEFINE old == conns[k].work
<1>1. old \in WorkType /\ head[c] \in 1..MaxBlock
  BY DEF TypeOK
<1>2. \A d \in Chains : old.last[d] < head[d]
  BY DEF ConnInv, GoodWork
<1> HIDE DEF old
<1>3. Acked(old, c) \in WorkType
  BY <1>1, WorkChanges
<1>4. Acked(old, c).logged = old.logged /\ Acked(old, c).applied = old.applied
  BY <1>1, WorkChanges
<1>5. Acked(old, c).rows = old.rows /\ Acked(old, c).last = old.last
  BY <1>1, WorkChanges
<1> QED
  BY <1>2, <1>3, <1>4, <1>5 DEF old

(* A last block saved on a connection stays below the head.                *)
LEMMA SaveWork ==
  ASSUME TypeOK, ConnInv, NEW k \in Conns, NEW c \in Chains, NEW n \in 0..MaxBlock,
         n < head[c]
  PROVE  /\ WithLast(conns[k].work, c, n) \in WorkType
         /\ WithLast(conns[k].work, c, n).logged = conns[k].work.logged
         /\ WithLast(conns[k].work, c, n).applied = conns[k].work.applied
         /\ WithLast(conns[k].work, c, n).rows = conns[k].work.rows
         /\ WithLast(conns[k].work, c, n).acked = conns[k].work.acked
         /\ \A d \in Chains : WithLast(conns[k].work, c, n).last[d] < head[d]
<1> DEFINE old == conns[k].work
<1>1. old \in WorkType /\ head \in [Chains -> 1..MaxBlock]
  BY DEF TypeOK
<1>2. \A d \in Chains : old.last[d] < head[d]
  BY DEF ConnInv, GoodWork
<1> HIDE DEF old
<1>3. WithLast(old, c, n) \in WorkType
  BY <1>1, WorkChanges
<1>4. WithLast(old, c, n).logged = old.logged /\ WithLast(old, c, n).applied = old.applied
  BY <1>1, WorkChanges
<1>5. WithLast(old, c, n).rows = old.rows /\ WithLast(old, c, n).acked = old.acked
  BY <1>1, WorkChanges
<1>6. WithLast(old, c, n).last[c] = Larger(old.last[c], n)
  BY <1>1, WorkChanges
<1>7. \A d \in Chains \ {c} : WithLast(old, c, n).last[d] = old.last[d]
  BY <1>1, WorkChanges
<1>8. \A d \in Chains : WithLast(old, c, n).last[d] < head[d]
  BY <1>1, <1>2, <1>6, <1>7 DEF Larger
<1> QED
  BY <1>3, <1>4, <1>5, <1>8 DEF old

(* The block of a statement that was sent outside a transaction.           *)
Saved(c, n) == [NoWork EXCEPT !.last[c] = n]

(* The same for a statement outside any transaction.                       *)
LEMMA SavedWork ==
  ASSUME TypeOK, NEW c \in Chains, NEW n \in 1..MaxBlock, n < head[c]
  PROVE  /\ Saved(c, n) \in WorkType
         /\ Saved(c, n).logged = {} /\ Saved(c, n).applied = {}
         /\ Saved(c, n).rows = {} /\ Saved(c, n).acked = {}
         /\ \A d \in Chains : Saved(c, n).last[d] < head[d]
<1>1. NoWork \in WorkType /\ head \in [Chains -> 1..MaxBlock]
  BY WorkTypes DEF TypeOK
<1>2. /\ Saved(c, n) \in WorkType
      /\ Saved(c, n).logged = {} /\ Saved(c, n).applied = {}
      /\ Saved(c, n).rows = {} /\ Saved(c, n).acked = {}
      /\ Saved(c, n).last[c] = n
      /\ \A d \in Chains \ {c} : Saved(c, n).last[d] = 0
  BY <1>1, WorkTypes DEF Saved, WorkType
<1> QED
  BY <1>1, <1>2

(* The tables keep their types, and the last checked block stays below the *)
(* newest one and never goes back.                                         *)
TableTypes ==
  /\ head \in [Chains -> 1..MaxBlock]
  /\ asked \in [Chains -> 0..MaxRequests]
  /\ request \in [Chains -> 0..MaxBlock]
  /\ last \in [Chains -> 0..MaxBlock]
  /\ logged \in SUBSET Events
  /\ rows \in SUBSET Stakes
  /\ applied \in [Events -> Nat]
  /\ \A c \in Chains : last[c] < head[c]

(* COMMIT keeps the types of the tables and moves no last block back.      *)
LEMMA PublishTypes ==
  ASSUME TypeOK, NEW work \in WorkType, Publish(work), UNCHANGED <<head, asked>>,
         \A c \in Chains : work.last[c] < head[c]
  PROVE  TableTypes' /\ \A c \in Chains : last'[c] >= last[c]
BY PublishTables DEF TypeOK, TableTypes

(* A step that leaves the tables alone keeps their types.                  *)
LEMMA KeepTypes ==
  ASSUME TypeOK, UNCHANGED <<head, asked>>, UNCHANGED tables
  PROVE  TableTypes' /\ \A c \in Chains : last'[c] >= last[c]
BY DEF TypeOK, TableTypes

(* Every step keeps the types of the tables, and no last block or head     *)
(* moves back.                                                             *)
LEMMA NextTables ==
  ASSUME TypeOK, ConnInv, JobInv, [FaultyNext]_vars
  PROVE  /\ TableTypes'
         /\ \A c \in Chains : last'[c] >= last[c] /\ head'[c] >= head[c]
<1> DEFINE Goal == /\ TableTypes'
                   /\ \A c \in Chains : last'[c] >= last[c] /\ head'[c] >= head[c]
<1>1. ASSUME NEW c \in Chains, Mine(c) PROVE Goal
  BY <1>1 DEF Mine, TypeOK, TableTypes
<1>2. ASSUME NEW c \in Chains, RequestReindex(c) PROVE Goal
  BY <1>2 DEF RequestReindex, TypeOK, TableTypes
<1>4. UNCHANGED <<head, asked>> => \A c \in Chains : head'[c] >= head[c]
  BY DEF TypeOK
<1>5. ASSUME NEW c \in Chains, NEW k \in Conns, Acknowledge(c, k) PROVE Goal
  <2>1. UNCHANGED <<head, asked>> /\ Execute(k, Acked(conns[k].work, c))
    BY <1>5 DEF Acknowledge, Acked
  <2> QED
    BY <1>4, <1>5, <2>1, AcknowledgeWork, ExecuteConn, PublishTypes, KeepTypes
<1>6. ASSUME NEW c \in Chains, NEW k \in Conns, Save(c, k) PROVE Goal
  <2>1. /\ UNCHANGED <<head, asked>>
        /\ Execute(k, WithLast(conns[k].work, c, job[c].to))
        /\ job[c].to \in 0..MaxBlock /\ job[c].to < head[c]
    BY <1>6 DEF Save, JobInv, GoodJob, TypeOK, WithLast
  <2> QED
    BY <1>4, <2>1, SaveWork, ExecuteConn, PublishTypes, KeepTypes
<1>7. ASSUME NEW c \in Chains, Commit(c) PROVE Goal
  <2>1. /\ UNCHANGED <<head, asked>>
        /\ job[c].conn \in Conns /\ Publish(conns[job[c].conn].work)
    BY <1>7 DEF Commit, JobInv, GoodJob, InTransaction
  <2>2. /\ conns[job[c].conn].work \in WorkType
        /\ \A d \in Chains : conns[job[c].conn].work.last[d] < head[d]
    BY <2>1 DEF TypeOK, ConnInv, GoodWork
  <2> QED
    BY <1>4, <2>1, <2>2, PublishTypes
<1>8. ASSUME NEW k \in Conns, Drain(k) PROVE Goal
  <2>1. UNCHANGED <<head, asked>>
    BY <1>8 DEF Drain
  <2>2. CASE UNCHANGED tables
    BY <1>4, <2>1, <2>2, KeepTypes
  <2>3. CASE ~UNCHANGED tables
    <3> DEFINE sent == conns[k].queued
    <3>1. /\ sent # None /\ sent[1] = "save"
          /\ Publish([NoWork EXCEPT !.last[sent[2]] = sent[3]])
      BY <1>8, <2>3 DEF Drain
    <3>2. sent[2] \in Chains /\ sent[3] \in 1..MaxBlock /\ sent[3] < head[sent[2]]
      BY <3>1, SentTypes DEF TypeOK, ConnInv, GoodQueue
    <3> QED
      BY <1>4, <2>1, <3>1, <3>2, PublishTypes, SavedWork DEF Saved
  <2> QED
    BY <2>2, <2>3
<1>9. CASE UNCHANGED <<head, asked, tables>>
  BY <1>4, <1>9, KeepTypes
<1>10. CASE UNCHANGED vars
  BY <1>9, <1>10 DEF vars
<1> QED
  BY <1>1, <1>2, <1>5, <1>6, <1>7, <1>8, <1>9, <1>10, TablesKept

-----------------------------------------------------------------------------
(***************************************************************************)
(* Steps that touch one connection, one job or one of each.                *)
(***************************************************************************)
Typed == conns \in [Conns -> Connection] /\ job \in [Chains -> Job]

(* The type invariant splits into the tables and the processes.            *)
LEMMA TypeOKParts == TypeOK <=> TableTypes /\ Typed
  BY DEF TypeOK, TableTypes, Typed, Connection, Job

(* The same split for the next state.                                      *)
LEMMA TypeOKPartsNext == TypeOK' <=> TableTypes' /\ Typed'
  BY DEF TypeOK, TableTypes, Typed, Connection, Job

(* What NextTables says of every step.                                     *)
Grows == TableTypes' /\ \A c \in Chains : head'[c] >= head[c]

(* What a connection must look like after a step that may use it.          *)
GoodConn(k) ==
  /\ GoodWork(k) /\ GoodQueue(k)
  /\ \A e, f \in conns[k].work.logged : Key(e) = Key(f) => e = f

(* The keys it has inserted in the step are free.                          *)
NewKeysAreFree(k) ==
  \A e \in conns'[k].work.logged \ conns[k].work.logged :
    /\ \A f \in logged : Key(e) # Key(f)
    /\ \A l \in Conns \ {k} : \A f \in conns[l].work.logged : Key(e) # Key(f)

(* A step on one connection keeps ConnInv when it keeps that connection    *)
(* good.                                                                   *)
LEMMA ConnInvStep ==
  ASSUME IndexerInv, Grows, Typed', NEW k \in Conns,
         \A l \in Conns \ {k} : conns'[l] = conns[l],
         \A c \in Chains : job'[c].conn \in {job[c].conn, None, k},
         GoodWork(k)', GoodQueue(k)'
  PROVE  ConnInv'
<1> USE DEF IndexerInv, ConnInv
<1>1. \A l \in Conns \ {k} : GoodWork(l)'
  <2> SUFFICES ASSUME NEW l \in Conns \ {k} PROVE GoodWork(l)'
    OBVIOUS
  <2>1. GoodWork(l) /\ conns'[l] = conns[l]
    OBVIOUS
  <2>2. \A c \in Chains : conns[l].work.last[c] < head[c] => conns[l].work.last[c] < head'[c]
    BY TypeOKParts DEF Grows, TableTypes, Typed, Connection, WorkType
  <2> QED
    BY <2>1, <2>2 DEF GoodWork
<1>2. \A l \in Conns \ {k} : GoodQueue(l)'
  <2> SUFFICES ASSUME NEW l \in Conns \ {k}, conns[l].queued # None
               PROVE  GoodQueue(l)'
    BY DEF GoodQueue
  <2>1. GoodQueue(l) /\ conns'[l] = conns[l]
    OBVIOUS
  <2>2. Idle(l)'
    BY <2>1 DEF GoodQueue, Idle
  <2>3. conns[l].queued \in Sent
    BY TypeOKParts DEF Typed, Connection
  <2>4. conns[l].queued[1] = "save" =>
          conns[l].queued[3] < head'[conns[l].queued[2]]
    BY <2>1, <2>3, SentTypes, TypeOKParts DEF GoodQueue, Grows, TableTypes
  <2> QED
    BY <2>1, <2>2, <2>4 DEF GoodQueue
<1> QED
  BY <1>1, <1>2

(* The same for the unique keys: only that connection may insert, and only *)
(* free keys.                                                              *)
LEMMA ConnStep ==
  ASSUME IndexerInv, Grows, Typed', logged' = logged, NEW k \in Conns,
         \A l \in Conns \ {k} : conns'[l] = conns[l],
         \A c \in Chains : job'[c].conn \in {job[c].conn, None, k},
         GoodConn(k)', NewKeysAreFree(k)
  PROVE  ConnInv' /\ KeysInv'
<1>1. ConnInv'
  BY ConnInvStep DEF GoodConn
<1>2. KeysInv'
  BY DEF IndexerInv, GoodConn, KeysInv, NewKeysAreFree
<1> QED
  BY <1>1, <1>2

(* A step of one indexer keeps JobInv when it takes nobody's connection.   *)
LEMMA JobStep ==
  ASSUME IndexerInv, Grows, Typed', NEW c \in Chains,
         \A d \in Chains \ {c} : job'[d] = job[d],
         \A d \in Chains \ {c} : \A k \in Conns :
           job[d].conn = k => conns'[k] = conns[k] /\ job'[c].conn # k,
         GoodJob(c)'
  PROVE  JobInv'
<1> USE DEF IndexerInv, JobInv
<1>1. \A d \in Chains \ {c} : GoodJob(d)'
  <2> SUFFICES ASSUME NEW d \in Chains \ {c} PROVE GoodJob(d)'
    OBVIOUS
  <2>1. /\ GoodJob(d) /\ job'[d] = job[d]
        /\ job[d].conn \in Conns => conns'[job[d].conn] = conns[job[d].conn]
    OBVIOUS
  <2>2. /\ job[d].to < head[d] => job[d].to < head'[d]
        /\ job[d].current <= head[d] => job[d].current <= head'[d]
    BY TypeOKParts DEF Grows, TableTypes, Typed, Job
  <2> QED
    BY <2>1, <2>2 DEF GoodJob, InTransaction
<1>2. \A a, b \in Chains : job'[a].conn \in Conns /\ job'[b].conn = job'[a].conn => a = b
  OBVIOUS
<1> QED
  BY <1>1, <1>2

(* A step of an indexer that leaves the connections alone.                 *)
LEMMA JobOnly ==
  ASSUME IndexerInv, Grows, NEW c \in Chains, NEW j \in Job,
         job' = [job EXCEPT ![c] = j], UNCHANGED <<conns, tables>>,
         j.conn \in {None, job[c].conn}, GoodJob(c)'
  PROVE  IndexerInv'
<1>1. Typed'
  BY TypeOKParts DEF IndexerInv, Typed
<1>2. \A d \in Chains : job'[d].conn \in {job[d].conn, None}
  BY TypeOKParts DEF IndexerInv, Typed
<1>3. JobInv'
  <2>1. \A d \in Chains \ {c} : job'[d] = job[d]
    BY TypeOKParts DEF IndexerInv, Typed
  <2>2. \A d \in Chains \ {c} : \A k \in Conns :
           job[d].conn = k => conns'[k] = conns[k] /\ job'[c].conn # k
    BY TypeOKParts DEF IndexerInv, JobInv, Typed
  <2> QED
    BY <1>1, <2>1, <2>2, JobStep
<1>4. ASSUME NEW k \in Conns PROVE ConnInv' /\ KeysInv'
  <2>1. GoodWork(k)'
    BY TypeOKParts
       DEF IndexerInv, ConnInv, GoodWork, Grows, TableTypes, Typed, Connection, WorkType
  <2>2. GoodQueue(k)'
    <3> SUFFICES ASSUME conns[k].queued # None PROVE GoodQueue(k)'
      BY DEF GoodQueue
    <3>1. GoodQueue(k) /\ conns[k].queued \in Sent /\ conns' = conns
      BY TypeOKParts DEF IndexerInv, ConnInv, Typed, Connection
    <3>2. Idle(k)'
      BY <1>2, <3>1 DEF GoodQueue, Idle
    <3>3. conns[k].queued[1] = "save" =>
            conns[k].queued[3] < head'[conns[k].queued[2]]
      BY <3>1, SentTypes, TypeOKParts DEF GoodQueue, Grows, TableTypes, IndexerInv
    <3> QED
      BY <3>1, <3>2, <3>3 DEF GoodQueue
  <2>3. \A e, f \in conns'[k].work.logged : Key(e) = Key(f) => e = f
    BY DEF IndexerInv, KeysInv
  <2> QED
    BY <1>1, <1>2, <2>1, <2>2, <2>3, ConnStep DEF GoodConn, NewKeysAreFree
<1>5. ConnInv' /\ KeysInv'
  BY <1>4 DEF ConnInv, KeysInv, IndexerInv
<1>6. AppliedOnce'
  BY DEF IndexerInv, AppliedOnce
<1> QED
  BY <1>1, <1>3, <1>5, <1>6, TypeOKPartsNext DEF IndexerInv, Grows

(* A step that uses a connection, of the indexer's own or one that nobody  *)
(* uses.                                                                   *)
LEMMA Together ==
  ASSUME IndexerInv, Grows, NEW c \in Chains, NEW j \in Job, NEW k \in Conns,
         job' = [job EXCEPT ![c] = j], conns' \in [Conns -> Connection],
         \A l \in Conns \ {k} : conns'[l] = conns[l],
         job[c].conn = k \/ Idle(k), job[c].conn \in {None, k}, j.conn \in {None, k},
         logged' = logged, AppliedOnce',
         GoodConn(k)', NewKeysAreFree(k), GoodJob(c)'
  PROVE  IndexerInv'
<1>1. Typed'
  BY TypeOKParts DEF IndexerInv, Typed
<1>2. /\ job'[c] = j
      /\ \A d \in Chains \ {c} : job'[d] = job[d]
  BY TypeOKParts DEF IndexerInv, Typed
<1>3. ConnInv' /\ KeysInv'
  BY <1>1, <1>2, ConnStep
<1>4. \A d \in Chains \ {c} : job[d].conn # k
  BY DEF Idle, IndexerInv, JobInv
<1>5. JobInv'
  <2>1. \A d \in Chains \ {c} : \A l \in Conns :
          job[d].conn = l => conns'[l] = conns[l] /\ job'[c].conn # l
    BY <1>2, <1>4
  <2> QED
    BY <1>1, <1>2, <2>1, JobStep
<1> QED
  BY <1>1, <1>3, <1>5, TypeOKPartsNext DEF IndexerInv, Grows

(* What a connection that nobody uses goes through while a statement runs. *)
LEMMA ConnOnly ==
  ASSUME IndexerInv, Grows, NEW k \in Conns,
         job' = job, conns' \in [Conns -> Connection],
         \A l \in Conns \ {k} : conns'[l] = conns[l], Idle(k),
         logged' = logged, AppliedOnce',
         GoodConn(k)', NewKeysAreFree(k)
  PROVE  IndexerInv'
<1>1. Typed'
  BY TypeOKParts DEF IndexerInv, Typed
<1>2. ConnInv' /\ KeysInv'
  BY <1>1, ConnStep
<1>3. ASSUME NEW c \in Chains PROVE JobInv'
  <2>1. GoodJob(c)'
    <3>1. /\ GoodJob(c)
          /\ job[c].conn \in Conns => conns'[job[c].conn] = conns[job[c].conn]
      BY DEF Idle, IndexerInv, JobInv
    <3>2. /\ job[c].to < head[c] => job[c].to < head'[c]
          /\ job[c].current <= head[c] => job[c].current <= head'[c]
      BY TypeOKParts DEF IndexerInv, Grows, TableTypes, Typed, Job
    <3> QED
      BY <3>1, <3>2 DEF GoodJob, InTransaction
  <2>2. \A d \in Chains \ {c} : \A l \in Conns :
          job[d].conn = l => conns'[l] = conns[l] /\ job'[c].conn # l
    BY DEF Idle, IndexerInv, JobInv
  <2> QED
    BY <1>1, <2>1, <2>2, JobStep
<1>4. JobInv'
  BY <1>3 DEF JobInv
<1> QED
  BY <1>1, <1>2, <1>4, TypeOKPartsNext DEF IndexerInv, Grows

(* A new pool and indexers that begin.                                     *)
LEMMA StartOverInv ==
  ASSUME IndexerInv, Grows, AllStartOver, UNCHANGED tables
  PROVE  IndexerInv'
<1>1. /\ Typed' /\ \A k \in Conns : conns'[k] = Clean
      /\ \A c \in Chains : job'[c] = Begun
  BY NewPool DEF Typed
<1>2. ConnInv'
  <2> SUFFICES ASSUME NEW k \in Conns PROVE GoodWork(k)' /\ GoodQueue(k)'
    BY DEF ConnInv
  <2>1. conns'[k].work = NoWork /\ conns'[k].queued = None
    BY <1>1 DEF Clean
  <2> QED
    BY <2>1, WorkTypes DEF GoodWork, GoodQueue, Grows, TableTypes
<1>3. KeysInv'
  <2>1. \A k \in Conns : conns'[k].work.logged = {}
    BY <1>1, WorkTypes DEF Clean
  <2> QED
    BY <2>1 DEF KeysInv, IndexerInv
<1>4. JobInv'
  BY <1>1 DEF JobInv, GoodJob, Begun, InTransaction, Grows, TableTypes
<1>5. AppliedOnce'
  BY DEF AppliedOnce, IndexerInv
<1> QED
  BY <1>1, <1>2, <1>3, <1>4, <1>5, TypeOKPartsNext DEF IndexerInv, Grows

-----------------------------------------------------------------------------
(***************************************************************************)
(* The steps of an indexer that only read.                                 *)
(***************************************************************************)
(* An indexer outside a transaction has no connection.                     *)
LEMMA NoConn ==
  ASSUME IndexerInv, NEW c \in Chains, job[c].pc \notin InTransaction
  PROVE  job[c].conn = None /\ job[c] \in Job /\ GoodJob(c)
BY TypeOKParts DEF IndexerInv, JobInv, GoodJob, Typed, Job

(* The events an indexer has counted are finitely many.                    *)
LEMMA SeenIsNat ==
  ASSUME TypeOK, NEW c \in Chains, NEW k \in Conns
  PROVE  Cardinality(EventsSeen(k, c)) \in Nat
<1>1. EventsSeen(k, c) \subseteq Events
  BY DEF EventsSeen, TypeOK, WorkType
<1> QED
  BY <1>1, FS_Subset, FS_CardinalityType

(* The start of index_chain: the requested block, the latest block and the *)
(* head.                                                                   *)
LEMMA StartSteps ==
  ASSUME IndexerInv, Grows, NEW c \in Chains, NEW k \in Conns,
         GetRequested(c, k) \/ GetLatest(c, k) \/ GetHead(c, k) \/ HeadFails(c, k)
  PROVE  IndexerInv'
<1>1. /\ job \in [Chains -> Job] /\ head \in [Chains -> 1..MaxBlock]
      /\ request \in [Chains -> 0..MaxBlock] /\ last \in [Chains -> 0..MaxBlock]
      /\ conns \in [Conns -> Connection] /\ TypeOK
  BY TypeOKParts DEF IndexerInv, TableTypes, Typed
<1>2. head' = head /\ UNCHANGED <<conns, tables>> /\ job[c].pc \notin InTransaction
  BY DEF GetRequested, GetLatest, GetHead, HeadFails, StartAt, InTransaction
<1>3. job[c].conn = None /\ job[c] \in Job /\ GoodJob(c)
  BY <1>2, NoConn
<1>4. CASE GetRequested(c, k)
  <2> DEFINE asks == Requested(k, c)
             j == [job[c] EXCEPT !.pc = IF asks > 0 THEN "ack" ELSE "latest",
                                 !.from = asks]
  <2>1. asks \in 0..MaxBlock /\ asks \in 0..MaxBlock + 1
    BY <1>1 DEF Requested
  <2>2. job' = [job EXCEPT ![c] = j] /\ job[c].pc = "start"
    BY <1>1, <1>4 DEF GetRequested, Job
  <2> HIDE DEF asks
  <2>3. /\ j \in Job /\ j.conn = None
        /\ j.pc = "latest" \/ (j.pc = "ack" /\ j.from >= 1)
        /\ j.to = job[c].to /\ j.current = job[c].current
        /\ j.watching = job[c].watching
    <3>1. /\ j.pc = IF asks > 0 THEN "ack" ELSE "latest"
          /\ j.conn = job[c].conn /\ j.from = asks /\ j.watching = job[c].watching
          /\ j.to = job[c].to /\ j.current = job[c].current
      BY <1>3 DEF Job
    <3>2. j \in Job
      BY <1>3, <2>1 DEF Job, Stages
    <3> HIDE DEF j
    <3> QED
      BY <1>3, <2>1, <3>1, <3>2
  <2>4. job'[c] = j
    BY <1>1, <2>2
  <2> HIDE DEF j
  <2>5. GoodJob(c)'
    BY <1>2, <1>3, <2>2, <2>3, <2>4 DEF GoodJob, InTransaction
  <2> QED
    BY <1>2, <2>2, <2>3, <2>5, JobOnly
<1>5. CASE GetLatest(c, k)
  <2> DEFINE block == Checked(k, c)
             j == [job[c] EXCEPT !.pc = "head", !.from = block + 1]
  <2>1. block \in 0..MaxBlock
    BY <1>1 DEF Checked, Larger, Connection, WorkType
  <2>2. job' = [job EXCEPT ![c] = j] /\ job[c].pc = "latest"
    BY <1>1, <1>5 DEF GetLatest, Job
  <2> HIDE DEF block
  <2>3. /\ j \in Job /\ j.conn = None /\ j.pc = "head" /\ j.from >= 1
        /\ j.to = job[c].to /\ j.current = job[c].current
        /\ j.watching = job[c].watching
    <3>1. block + 1 \in 0..MaxBlock + 1 /\ block + 1 >= 1
      BY <2>1
    <3> QED
      BY <1>3, <3>1 DEF Job, Stages
  <2>4. job'[c] = j
    BY <1>1, <2>2
  <2> HIDE DEF j
  <2>5. GoodJob(c)'
    BY <1>2, <1>3, <2>2, <2>3, <2>4 DEF GoodJob, InTransaction
  <2> QED
    BY <1>2, <2>2, <2>3, <2>5, JobOnly
<1>6. CASE GetHead(c, k) \/ HeadFails(c, k)
  <2>1. PICK current \in {head[c], 2} :
          job' = [job EXCEPT ![c].pc = "range", ![c].current = current,
                             ![c].counted = Cardinality(EventsSeen(k, c))]
    BY <1>6 DEF GetHead, HeadFails, StartAt
  <2> DEFINE seen == Cardinality(EventsSeen(k, c))
             j == [job[c] EXCEPT !.pc = "range", !.current = current, !.counted = seen]
  <2>2. seen \in Nat
    BY <1>1, SeenIsNat
  <2>3. job' = [job EXCEPT ![c] = j] /\ job[c].pc = "head"
    BY <1>1, <1>6, <2>1 DEF GetHead, HeadFails, StartAt, Job
  <2> HIDE DEF seen
  <2>4. /\ j \in Job /\ j.conn = None /\ j.pc = "range" /\ j.from = job[c].from
        /\ j.to = job[c].to /\ (j.current <= head[c] \/ j.current <= 2)
        /\ j.watching = job[c].watching
    <3>1. /\ current \in 0..MaxBlock + 1 /\ (current <= head[c] \/ current <= 2)
          /\ job[c] \in Job
      BY <1>1
    <3> HIDE <1>1
    <3>2. j \in Job
      BY <2>2, <3>1 DEF Job, Stages
    <3>3. /\ j.conn = job[c].conn /\ j.pc = "range" /\ j.from = job[c].from
          /\ j.to = job[c].to /\ j.current = current /\ j.watching = job[c].watching
      BY <3>1 DEF Job
    <3> QED
      BY <1>3, <3>1, <3>2, <3>3
  <2>5. job'[c] = j
    BY <1>1, <2>3
  <2> HIDE DEF j
  <2>6. GoodJob(c)'
    BY <1>2, <1>3, <2>3, <2>4, <2>5 DEF GoodJob, InTransaction
  <2> QED
    BY <1>2, <2>3, <2>4, <2>6, JobOnly
<1> QED
  BY <1>4, <1>5, <1>6

(* The end of a range lies between its start and the newest block.         *)
LEMMA RangeEnd ==
  ASSUME NEW from \in 0..MaxBlock + 1, NEW current \in 0..MaxBlock + 1,
         from >= 1, from < current - 1
  PROVE  /\ Smaller(from + QueryBlocks - 1, current - 1) \in 1..MaxBlock
         /\ Smaller(from + QueryBlocks - 1, current - 1) < current
<1>1. QueryBlocks \in Nat \ {0} /\ MaxBlock \in Nat \ {0}
  OBVIOUS
<1> DEFINE limit == from + QueryBlocks - 1
<1>2. limit \in Nat /\ limit >= 1 /\ current - 1 \in 1..MaxBlock
  BY <1>1
<1> HIDE DEF limit
<1>3. Smaller(limit, current - 1) \in 1..MaxBlock /\ Smaller(limit, current - 1) < current
  BY <1>2 DEF Smaller
<1> QED
  BY <1>3 DEF limit

(* query_block_range, the watch of new logs, and the end of the stream.    *)
LEMMA RangeSteps ==
  ASSUME IndexerInv, Grows, NEW c \in Chains,
         QueryRange(c) \/ Watch(c) \/ StreamEnds(c)
  PROVE  IndexerInv'
<1>1. job \in [Chains -> Job] /\ head \in [Chains -> 1..MaxBlock]
  BY TypeOKParts DEF IndexerInv, TableTypes, Typed
<1>2. head' = head /\ UNCHANGED <<conns, tables>> /\ job[c].pc \notin InTransaction
  BY DEF QueryRange, Watch, StreamEnds, InTransaction
<1>3. job[c].conn = None /\ job[c] \in Job /\ GoodJob(c)
  BY <1>2, NoConn
<1>4. CASE QueryRange(c)
  <2> DEFINE to == Smaller(job[c].from + QueryBlocks - 1, job[c].current - 1)
             j == [job[c] EXCEPT !.pc = "route", !.cursor = 0, !.to = to]
  <2>1. /\ job[c].from \in 0..MaxBlock + 1 /\ job[c].current \in 0..MaxBlock + 1
        /\ job[c].from >= 1 /\ job[c].from < job[c].current - 1
        /\ ~job[c].watching /\ job[c].current <= head[c]
    <3>1. /\ job[c].from \in 0..MaxBlock + 1 /\ job[c].current \in 0..MaxBlock + 1
      BY <1>3 DEF Job
    <3> QED
      BY <1>3, <1>4, <3>1 DEF QueryRange, GoodJob
  <2>2. to \in 1..MaxBlock /\ to < head[c] /\ to \in 0..MaxBlock
    <3>1. to \in 1..MaxBlock /\ to < job[c].current
      BY <2>1, RangeEnd
    <3>2. head[c] \in 1..MaxBlock
      BY <1>1
    <3> HIDE DEF to
    <3> QED
      BY <2>1, <3>1, <3>2
  <2>8. job' = [job EXCEPT ![c].pc = "route", ![c].cursor = 0, ![c].to = to]
    BY <1>4 DEF QueryRange
  <2> HIDE DEF to
  <2>3. job' = [job EXCEPT ![c] = j]
    BY <1>1, <2>8 DEF Job
  <2>4. /\ j.conn = None /\ j.pc = "route" /\ j.to = to /\ j.from = job[c].from
        /\ j.watching = job[c].watching /\ j.current = job[c].current
    BY <1>3 DEF Job
  <2>5. j \in Job
    BY <1>3, <2>2 DEF Job, Stages, Positions
  <2>6. job'[c] = j
    BY <1>1, <2>3
  <2> HIDE DEF j
  <2>7. GoodJob(c)'
    BY <1>2, <2>1, <2>2, <2>4, <2>6 DEF GoodJob, InTransaction
  <2> QED
    BY <1>2, <2>3, <2>4, <2>5, <2>7, JobOnly
<1>5. CASE Watch(c)
  <2> DEFINE before == Larger(job[c].from, job[c].current) - 1
  <2>1. before \in 0..MaxBlock /\ Larger(before, head[c]) \in 0..MaxBlock
    <3>1. /\ job[c].from \in 0..MaxBlock + 1 /\ job[c].current \in 0..MaxBlock + 1
      BY <1>3 DEF Job
    <3>2. job[c].from >= 1
      BY <1>3, <1>5 DEF Watch, GoodJob
    <3> QED
      BY <1>1, <3>1, <3>2 DEF Larger
  <2>2. PICK since \in 0..MaxBlock :
          job' = [job EXCEPT ![c] = [Begun EXCEPT !.pc = "watch", !.watching = TRUE,
                                       !.since = since, !.counted = job[c].counted]]
    BY <1>5, <2>1 DEF Watch
  <2> DEFINE j == [Begun EXCEPT !.pc = "watch", !.watching = TRUE,
                                !.since = since, !.counted = job[c].counted]
  <2>3. job[c].counted \in Nat
    BY <1>3 DEF Job
  <2>4. /\ j.conn = None /\ j.pc = "watch" /\ j.to = 0 /\ j.watching = TRUE
        /\ j.current = 0
    BY DEF Begun
  <2>5. j \in Job
    BY <2>3, BegunType DEF Job, Stages
  <2>6. job'[c] = j
    BY <1>1, <2>2
  <2>7. job' = [job EXCEPT ![c] = j]
    BY <2>2
  <2> HIDE DEF j
  <2>8. GoodJob(c)'
    BY <1>1, <1>2, <2>4, <2>6 DEF GoodJob, InTransaction
  <2> QED
    BY <1>2, <2>4, <2>5, <2>7, <2>8, JobOnly
<1>6. CASE StreamEnds(c)
  <2> DEFINE j == [job[c] EXCEPT !.pc = "ended"]
  <2>1. job' = [job EXCEPT ![c] = j] /\ job[c].pc = "watch"
    BY <1>1, <1>6 DEF StreamEnds, Go, Job
  <2>2. /\ j \in Job /\ j.conn = None /\ j.pc = "ended" /\ j.to = job[c].to
        /\ j.watching = job[c].watching /\ j.current = job[c].current
    BY <1>3 DEF Job, Stages
  <2>3. job'[c] = j
    BY <1>1, <2>1
  <2> HIDE DEF j
  <2>4. GoodJob(c)'
    BY <1>2, <1>3, <2>1, <2>2, <2>3 DEF GoodJob, InTransaction
  <2> QED
    BY <1>2, <2>1, <2>2, <2>4, JobOnly
<1> QED
  BY <1>4, <1>5, <1>6

(* The chain and the operator.                                             *)
LEMMA OutsideSteps ==
  ASSUME IndexerInv, Grows, NEW c \in Chains, Mine(c) \/ RequestReindex(c)
  PROVE  IndexerInv'
<1>1. UNCHANGED <<conns, job, logged, applied>>
  BY DEF Mine, RequestReindex
<1>2. job' = [job EXCEPT ![c] = job[c]] /\ job[c] \in Job
  BY <1>1, TypeOKParts DEF IndexerInv, Typed
<1>3. \A k \in Conns : GoodWork(k)'
  BY <1>1, TypeOKParts
     DEF IndexerInv, ConnInv, GoodWork, Grows, TableTypes, Typed, Connection, WorkType
<1>4. \A k \in Conns : GoodQueue(k)'
  <2> SUFFICES ASSUME NEW k \in Conns, conns[k].queued # None PROVE GoodQueue(k)'
    BY <1>1 DEF GoodQueue
  <2>1. GoodQueue(k) /\ conns[k].queued \in Sent
    BY TypeOKParts DEF IndexerInv, ConnInv, Typed, Connection
  <2>2. conns[k].queued[1] = "save" =>
            conns[k].queued[3] < head'[conns[k].queued[2]]
    BY <2>1, SentTypes, TypeOKParts, SMTT(60) DEF GoodQueue, Grows, TableTypes, IndexerInv
  <2> QED
    BY <1>1, <2>1, <2>2 DEF GoodQueue, Idle
<1>5. KeysInv' /\ AppliedOnce' /\ Typed'
  BY <1>1, TypeOKParts DEF IndexerInv, KeysInv, AppliedOnce, Typed
<1>6. \A d \in Chains : GoodJob(d)'
  <2> SUFFICES ASSUME NEW d \in Chains PROVE GoodJob(d)'
    OBVIOUS
  <2>1. GoodJob(d) /\ job[d] \in Job
    BY TypeOKParts DEF IndexerInv, JobInv, Typed
  <2>2. /\ job[d].to < head[d] => job[d].to < head'[d]
        /\ job[d].current <= head[d] => job[d].current <= head'[d]
    BY <2>1, TypeOKParts DEF Grows, TableTypes, IndexerInv, Job
  <2> QED
    BY <1>1, <2>1, <2>2 DEF GoodJob
<1>7. JobInv'
  BY <1>1, <1>6 DEF IndexerInv, JobInv
<1> QED
  BY <1>3, <1>4, <1>5, <1>7, TypeOKPartsNext DEF IndexerInv, ConnInv, Grows

-----------------------------------------------------------------------------
(***************************************************************************)
(* Timers and errors.                                                      *)
(***************************************************************************)
(* The connection of an indexer in a transaction.                          *)
LEMMA OwnConn ==
  ASSUME IndexerInv, NEW c \in Chains, job[c].pc \in InTransaction
  PROVE  /\ job[c].conn \in Conns /\ job[c].event \in Events
         /\ conns[job[c].conn] \in Connection
         /\ \A d \in Chains \ {c} : job[d].conn # job[c].conn
         /\ conns[job[c].conn].queued = None
         /\ GoodWork(job[c].conn) /\ GoodJob(c) /\ job[c] \in Job
<1>1. job[c].conn \in Conns /\ job[c].event \in Events /\ GoodJob(c)
  BY DEF IndexerInv, JobInv, GoodJob
<1>2. GoodQueue(job[c].conn) /\ GoodWork(job[c].conn)
  BY <1>1 DEF IndexerInv, ConnInv
<1>3. conns[job[c].conn].queued = None
  BY <1>2 DEF GoodQueue, Idle
<1> QED
  BY <1>1, <1>2, <1>3, TypeOKParts DEF IndexerInv, JobInv, Typed

(* A connection in which only the waiting statement changes keeps its      *)
(* keys.                                                                   *)
LEMMA SameLogged ==
  ASSUME IndexerInv, NEW k \in Conns, conns'[k].work.logged = conns[k].work.logged
  PROVE  /\ \A e, f \in conns'[k].work.logged : Key(e) = Key(f) => e = f
         /\ NewKeysAreFree(k)
BY DEF IndexerInv, KeysInv, NewKeysAreFree

(* The start of a task after a panic or an error.                          *)
LEMMA RestartInv ==
  ASSUME IndexerInv, Grows, NEW c \in Chains, Restart(c)
  PROVE  IndexerInv'
<1>1. /\ job \in [Chains -> Job] /\ conns \in [Conns -> Connection]
      /\ job' = [job EXCEPT ![c] = Begun] /\ UNCHANGED tables
  BY TypeOKParts DEF IndexerInv, Typed, Restart
<1>2. GoodJob(c)'
  <2>1. job'[c] = Begun /\ head'[c] \in 1..MaxBlock
    BY <1>1 DEF Grows, TableTypes
  <2> QED
    BY <2>1 DEF GoodJob, Begun, InTransaction
<1>3. Begun \in Job /\ Begun.conn = None
  BY BegunType DEF Begun
<1>4. CASE conns' = conns
  BY <1>1, <1>2, <1>3, <1>4, JobOnly
<1>5. CASE conns' # conns
  <2>1. /\ job[c].pc \in {"insert", "apply"}
        /\ conns' = [conns EXCEPT ![job[c].conn].queued = <<job[c].pc, job[c].event>>]
    BY <1>5 DEF Restart, Left
  <2>2. PICK k \in Conns, e \in Events, stage \in {"insert", "apply"} :
          k = job[c].conn /\ e = job[c].event /\ stage = job[c].pc
    BY <2>1, OwnConn DEF InTransaction
  <2>3. /\ conns[k] \in Connection /\ GoodWork(k) /\ GoodJob(c)
        /\ \A d \in Chains \ {c} : job[d].conn # k
    BY <2>1, <2>2, OwnConn DEF InTransaction
  <2> DEFINE sent == <<stage, e>>
             conn == [conns[k] EXCEPT !.queued = sent]
  <2>4. sent \in Sent /\ sent[1] = stage /\ sent[2] = e
    BY SentTypes
  <2>5. conns' = [conns EXCEPT ![k] = conn]
    BY <1>1, <2>1, <2>2
  <2>6. /\ conn \in Connection /\ conn.queued = sent
        /\ conn.work = conns[k].work /\ conn.tx = conns[k].tx
    BY <2>3, <2>4 DEF Connection
  <2>7. /\ conns'[k] = conn /\ conns' \in [Conns -> Connection]
        /\ \A l \in Conns \ {k} : conns'[l] = conns[l]
    BY <1>1, <2>5, <2>6
  <2> HIDE DEF conn, sent
  <2>8. GoodWork(k)'
    <3>1. \A d \in Chains : conns[k].work.last[d] < head'[d]
      BY <2>3, TypeOKParts
         DEF GoodWork, IndexerInv, Grows, TableTypes, Connection, WorkType
    <3> QED
      BY <2>3, <2>6, <2>7, <3>1 DEF GoodWork
  <2>9. GoodQueue(k)'
    <3>1. Idle(k)'
      BY <1>1, <1>3, <2>3 DEF Idle
    <3>2. conns[k].tx = "open"
      BY <2>2, <2>3 DEF GoodJob
    <3>3. stage = "apply" => e \in conns[k].work.logged
      BY <2>2, <2>3 DEF GoodJob
    <3> QED
      BY <2>4, <2>6, <2>7, <3>1, <3>2, <3>3 DEF GoodQueue
  <2>10. GoodConn(k)' /\ NewKeysAreFree(k)
    BY <2>6, <2>7, <2>8, <2>9, SameLogged DEF GoodConn
  <2>11. AppliedOnce' /\ logged' = logged
    BY <1>1 DEF AppliedOnce, IndexerInv
  <2> QED
    BY <1>1, <1>2, <1>3, <2>2, <2>7, <2>10, <2>11, Together
<1> QED
  BY <1>4, <1>5

(* A failed RPC call and the two timers of the select! loop.               *)
LEMMA TimerSteps ==
  ASSUME IndexerInv, Grows, NEW c \in Chains,
         RpcFails(c) \/ \E k \in Conns : IdleTimer(c, k) \/ ReindexTimer(c, k)
  PROVE  IndexerInv'
<1>1. CASE Restart(c)
  BY <1>1, RestartInv
<1>2. ASSUME NEW k \in Conns, IdleTimer(c, k), ~Restart(c) PROVE IndexerInv'
  <2> DEFINE seen == Cardinality(EventsSeen(k, c))
             j == [job[c] EXCEPT !.counted = seen]
  <2>1. /\ job' = [job EXCEPT ![c].counted = seen]
        /\ UNCHANGED <<head, tables, conns>>
    BY <1>2 DEF IdleTimer
  <2>2. job \in [Chains -> Job] /\ seen \in Nat
    BY SeenIsNat, TypeOKParts DEF IndexerInv, Typed
  <2>3. job' = [job EXCEPT ![c] = j]
    BY <2>1, <2>2 DEF Job
  <2> HIDE DEF seen
  <2>4. j \in Job
    BY <2>2 DEF Job
  <2>5. /\ j.pc = job[c].pc /\ j.conn = job[c].conn /\ j.event = job[c].event
        /\ j.watching = job[c].watching /\ j.from = job[c].from /\ j.to = job[c].to
        /\ j.current = job[c].current
    BY <2>2 DEF Job
  <2>6. job'[c] = j
    BY <2>2, <2>3
  <2> HIDE DEF j
  <2>7. GoodJob(c)'
    <3>1. GoodJob(c)
      BY DEF IndexerInv, JobInv
    <3> QED
      BY <2>1, <2>5, <2>6, <3>1 DEF GoodJob
  <2> QED
    BY <2>1, <2>3, <2>4, <2>5, <2>7, JobOnly
<1>3. RpcFails(c) \/ (\E k \in Conns : ReindexTimer(c, k)) => Restart(c)
  BY DEF RpcFails, ReindexTimer
<1> QED
  BY <1>1, <1>2, <1>3

(* The crash of the process and an error at start, which restart every     *)
(* indexer.                                                                *)
LEMMA RestartAllSteps ==
  ASSUME IndexerInv, Grows,
         Crash \/ \E c \in Chains, k \in Conns : StartFails(c, k)
  PROVE  IndexerInv'
<1>1. AllStartOver /\ UNCHANGED tables
  BY DEF Crash, StartFails
<1> QED
  BY <1>1, StartOverInv

-----------------------------------------------------------------------------
(***************************************************************************)
(* Transactions.                                                           *)
(***************************************************************************)
(* A connection whose blocks are not written stays below the newest block. *)
LEMMA LastStays ==
  ASSUME IndexerInv, Grows, NEW k \in Conns, NEW work \in WorkType,
         work.last = conns[k].work.last \/ work = NoWork
  PROVE  \A d \in Chains : work.last[d] < head'[d]
<1>1. CASE work = NoWork
  BY <1>1, WorkTypes DEF Grows, TableTypes
<1>2. CASE work.last = conns[k].work.last
  BY <1>2, TypeOKParts
     DEF IndexerInv, ConnInv, GoodWork, Grows, TableTypes, WorkType
<1> QED
  BY <1>1, <1>2

(* client.transaction() in process_staking_log.                            *)
LEMMA BeginInv ==
  ASSUME IndexerInv, Grows, NEW c \in Chains, NEW k \in Conns, Begin(c, k)
  PROVE  IndexerInv'
<1>1. /\ job \in [Chains -> Job] /\ conns \in [Conns -> Connection]
      /\ UNCHANGED <<head, tables>> /\ job[c].pc \notin InTransaction
      /\ Idle(k) /\ conns[k].queued = None /\ job[c].pc \in {"route", "watch"}
  BY TypeOKParts DEF IndexerInv, Typed, Begin, InTransaction
<1>2. job[c].conn = None /\ job[c] \in Job /\ GoodJob(c)
  BY <1>1, NoConn
<1>3. PICK e \in Events :
        IF conns[k].tx = "aborted"
        THEN job' = [job EXCEPT ![c].cursor = e.pos] /\ UNCHANGED conns
        ELSE /\ job' = [job EXCEPT ![c].pc = "insert", ![c].conn = k, ![c].event = e]
             /\ conns' = [conns EXCEPT ![k].tx = "open"]
  BY DEF Begin
<1>4. CASE conns[k].tx = "aborted"
  <2> DEFINE j == [job[c] EXCEPT !.cursor = e.pos]
  <2>1. job' = [job EXCEPT ![c] = j] /\ UNCHANGED conns
    BY <1>1, <1>3, <1>4 DEF Job
  <2>2. j \in Job
    BY <1>2, EventTypes DEF Job
  <2>3. /\ j.pc = job[c].pc /\ j.conn = job[c].conn /\ j.event = job[c].event
        /\ j.watching = job[c].watching /\ j.from = job[c].from /\ j.to = job[c].to
        /\ j.current = job[c].current
    BY <1>2 DEF Job
  <2>4. job'[c] = j
    BY <1>1, <2>1
  <2> HIDE DEF j
  <2>5. GoodJob(c)'
    BY <1>1, <1>2, <2>1, <2>3, <2>4 DEF GoodJob
  <2> QED
    BY <1>1, <2>1, <2>2, <2>3, <2>5, JobOnly
<1>5. CASE conns[k].tx # "aborted"
  <2> DEFINE j == [job[c] EXCEPT !.pc = "insert", !.conn = k, !.event = e]
             conn == [conns[k] EXCEPT !.tx = "open"]
  <2>1. job' = [job EXCEPT ![c] = j] /\ conns' = [conns EXCEPT ![k] = conn]
    BY <1>1, <1>3, <1>5 DEF Job
  <2>2. j \in Job
    BY <1>2 DEF Job, Stages, InTransaction
  <2>3. /\ j.pc = "insert" /\ j.conn = k /\ j.event = e
        /\ j.watching = job[c].watching /\ j.from = job[c].from /\ j.to = job[c].to
        /\ j.current = job[c].current
    BY <1>2 DEF Job
  <2>4. /\ conn \in Connection /\ conn.tx = "open" /\ conn.work = conns[k].work
        /\ conn.queued = None
    BY <1>1 DEF Connection
  <2>5. /\ job'[c] = j /\ conns'[k] = conn /\ conns' \in [Conns -> Connection]
        /\ \A l \in Conns \ {k} : conns'[l] = conns[l]
    BY <1>1, <2>1, <2>4
  <2> HIDE DEF j, conn
  <2>6. GoodJob(c)'
    BY <1>1, <1>2, <2>3, <2>4, <2>5 DEF GoodJob, InTransaction
  <2>7. GoodWork(k)' /\ GoodQueue(k)'
    <3>1. \A d \in Chains : conn.work.last[d] < head'[d]
      BY <1>1, <2>4, LastStays DEF Connection
    <3>2. GoodWork(k)
      BY DEF IndexerInv, ConnInv
    <3> QED
      BY <2>4, <2>5, <3>1, <3>2 DEF GoodWork, GoodQueue
  <2>8. GoodConn(k)' /\ NewKeysAreFree(k)
    BY <2>4, <2>5, <2>7, SameLogged DEF GoodConn
  <2>9. AppliedOnce' /\ logged' = logged
    BY <1>1 DEF AppliedOnce, IndexerInv
  <2> QED
    BY <1>1, <1>2, <2>1, <2>2, <2>3, <2>5, <2>6, <2>8, <2>9, Together
<1> QED
  BY <1>4, <1>5

(* What the insert makes of a connection, for an indexer and for one that  *)
(* is gone.                                                                *)
LEMMA InsertKeepsConn ==
  ASSUME IndexerInv, Grows, NEW k \in Conns, NEW e \in Events,
         conns[k].tx = "open", ~KeyIsLocked(k, e), InsertEvent(k, e)
  PROVE  GoodConn(k)' /\ NewKeysAreFree(k)
<1>1. /\ conns' \in [Conns -> Connection] /\ TypeOK /\ GoodWork(k)
      /\ conns[k].work \in WorkType
  BY InsertConn, TypeOKParts DEF IndexerInv, ConnInv, Typed, Connection
<1>2. CASE Duplicate(k, e)
  <2>1. /\ conns'[k].queued = None /\ conns'[k].tx = "aborted"
        /\ conns'[k].work = NoWork
    BY <1>1, <1>2, InsertConn
  <2>2. \A d \in Chains : NoWork.last[d] < head'[d]
    BY WorkTypes DEF Grows, TableTypes
  <2> QED
    BY <2>1, <2>2, WorkTypes DEF GoodConn, GoodWork, GoodQueue, NewKeysAreFree
<1>3. CASE ~Duplicate(k, e)
  <2>1. /\ conns'[k].queued = None /\ conns'[k].tx = "open"
        /\ conns'[k].work.logged = conns[k].work.logged \cup {e}
        /\ conns'[k].work.applied = conns[k].work.applied
        /\ conns'[k].work.last = conns[k].work.last
    BY <1>1, <1>3, InsertConn
  <2>2. \A d \in Chains : conns'[k].work.last[d] < head'[d]
    BY <1>1, <2>1, LastStays DEF Connection
  <2>3. GoodWork(k)' /\ GoodQueue(k)'
    BY <1>1, <2>1, <2>2 DEF GoodWork, GoodQueue
  <2>4. \A f \in logged \cup conns[k].work.logged : Key(f) # Key(e)
    BY <1>3 DEF Duplicate
  <2>5. \A f, g \in conns'[k].work.logged : Key(f) = Key(g) => f = g
    BY <2>1, <2>4 DEF IndexerInv, KeysInv
  <2>6. NewKeysAreFree(k)
    BY <2>1, <2>4 DEF NewKeysAreFree, KeyIsLocked, Others
  <2> QED
    BY <2>3, <2>5, <2>6 DEF GoodConn
<1> QED
  BY <1>2, <1>3

(* upsert_stake_summary or its update on a connection in a transaction.    *)
LEMMA SummaryKeepsConn ==
  ASSUME IndexerInv, Grows, NEW k \in Conns, NEW e \in Events,
         conns[k].tx = "open", e \in conns[k].work.logged, ChangeSummary(k, e)
  PROVE  GoodConn(k)' /\ NewKeysAreFree(k)
<1>1. /\ conns' \in [Conns -> Connection] /\ TypeOK /\ GoodWork(k)
  BY SummaryConn DEF IndexerInv, ConnInv
<1>2. /\ conns'[k].queued = None /\ conns'[k].tx = "open"
      /\ conns'[k].work.logged = conns[k].work.logged
      /\ conns'[k].work.last = conns[k].work.last
      /\ conns'[k].work.applied \subseteq conns[k].work.applied \cup {e}
  BY <1>1, SummaryConn
<1>3. \A d \in Chains : conns'[k].work.last[d] < head'[d]
  BY <1>1, <1>2, LastStays DEF Connection
<1>4. GoodWork(k)' /\ GoodQueue(k)'
  BY <1>1, <1>2, <1>3 DEF GoodWork, GoodQueue
<1> QED
  BY <1>2, <1>4, SameLogged DEF GoodConn

(* An indexer in its transaction that goes on to another stage.            *)
GoneOn(c, stage) == [job[c] EXCEPT !.pc = stage]

(* The next stage within a transaction keeps the connection and the event. *)
LEMMA GoOn ==
  ASSUME IndexerInv, NEW c \in Chains, NEW k \in Conns, NEW e \in Events,
         job[c].pc \in InTransaction, job[c].conn = k, job[c].event = e,
         NEW stage \in InTransaction, Go(c, stage)
  PROVE  /\ job' = [job EXCEPT ![c] = GoneOn(c, stage)] /\ job'[c] = GoneOn(c, stage)
         /\ GoneOn(c, stage) \in Job
         /\ GoneOn(c, stage).pc = stage /\ GoneOn(c, stage).conn = k
         /\ GoneOn(c, stage).event = e
         /\ GoneOn(c, stage).watching = job[c].watching
         /\ GoneOn(c, stage).from = job[c].from /\ GoneOn(c, stage).to = job[c].to
         /\ GoneOn(c, stage).current = job[c].current
<1>1. job \in [Chains -> Job] /\ job[c] \in Job
  BY TypeOKParts DEF IndexerInv, Typed
<1> QED
  BY <1>1 DEF Go, GoneOn, Job, Stages, InTransaction

(* The INSERT of the staking event, which a duplicate key aborts.          *)
LEMMA InsertInv ==
  ASSUME IndexerInv, Grows, NEW c \in Chains, Insert(c)
  PROVE  IndexerInv'
<1>1. PICK k \in Conns, e \in Events : k = job[c].conn /\ e = job[c].event
  BY OwnConn DEF Insert, InTransaction
<1>2. /\ job[c].pc = "insert" /\ ~KeyIsLocked(k, e) /\ InsertEvent(k, e)
      /\ Go(c, IF Duplicate(k, e) THEN "rollback" ELSE "apply")
      /\ UNCHANGED <<head, asked, tables>>
  BY <1>1 DEF Insert
<1>3. /\ conns[k].tx = "open" /\ GoodJob(c) /\ TypeOK
  BY <1>1, <1>2, OwnConn DEF GoodJob, IndexerInv, InTransaction
<1>4. /\ conns' \in [Conns -> Connection] /\ \A l \in Conns \ {k} : conns'[l] = conns[l]
      /\ conns'[k].queued = None
      /\ ~Duplicate(k, e) => conns'[k].tx = "open" /\ e \in conns'[k].work.logged
  BY <1>2, <1>3, InsertConn
<1>5. GoodConn(k)' /\ NewKeysAreFree(k)
  BY <1>2, <1>3, InsertKeepsConn
<1>6. PICK stage \in {"rollback", "apply"} :
        stage = IF Duplicate(k, e) THEN "rollback" ELSE "apply"
  OBVIOUS
<1> DEFINE j == GoneOn(c, stage)
<1>7. /\ job' = [job EXCEPT ![c] = j] /\ job'[c] = j /\ j \in Job
      /\ j.pc = stage /\ j.conn = k /\ j.event = e /\ j.watching = job[c].watching
      /\ j.from = job[c].from /\ j.to = job[c].to /\ j.current = job[c].current
  BY <1>1, <1>2, <1>6, GoOn DEF InTransaction
<1> HIDE DEF j
<1>8. GoodJob(c)'
  BY <1>2, <1>3, <1>4, <1>6, <1>7 DEF GoodJob, InTransaction
<1>9. AppliedOnce' /\ logged' = logged
  BY <1>2 DEF AppliedOnce, IndexerInv
<1> QED
  BY <1>1, <1>4, <1>5, <1>7, <1>8, <1>9, Together

(* The change of the stake summary.                                        *)
LEMMA ApplyInv ==
  ASSUME IndexerInv, Grows, NEW c \in Chains, Apply(c)
  PROVE  IndexerInv'
<1>1. PICK k \in Conns, e \in Events : k = job[c].conn /\ e = job[c].event
  BY OwnConn DEF Apply, InTransaction
<1>2. /\ job[c].pc = "apply" /\ ChangeSummary(k, e) /\ Go(c, "commit")
      /\ UNCHANGED <<head, asked, tables>>
  BY <1>1 DEF Apply
<1>3. /\ conns[k].tx = "open" /\ e \in conns[k].work.logged /\ GoodJob(c) /\ TypeOK
  BY <1>1, <1>2, OwnConn DEF GoodJob, IndexerInv, InTransaction
<1>4. /\ conns' \in [Conns -> Connection] /\ \A l \in Conns \ {k} : conns'[l] = conns[l]
      /\ conns'[k].tx = "open"
  BY <1>2, <1>3, SummaryConn
<1>5. GoodConn(k)' /\ NewKeysAreFree(k)
  BY <1>2, <1>3, SummaryKeepsConn
<1> DEFINE j == GoneOn(c, "commit")
<1>7. /\ job' = [job EXCEPT ![c] = j] /\ job'[c] = j /\ j \in Job
      /\ j.pc = "commit" /\ j.conn = k /\ j.event = e /\ j.watching = job[c].watching
      /\ j.from = job[c].from /\ j.to = job[c].to /\ j.current = job[c].current
  BY <1>1, <1>2, GoOn DEF InTransaction
<1> HIDE DEF j
<1>8. GoodJob(c)'
  BY <1>2, <1>3, <1>4, <1>7 DEF GoodJob, InTransaction
<1>9. AppliedOnce' /\ logged' = logged
  BY <1>2 DEF AppliedOnce, IndexerInv
<1> QED
  BY <1>1, <1>4, <1>5, <1>7, <1>8, <1>9, Together

(* A connection in which nothing is written and nothing waits.             *)
LEMMA EmptyConn ==
  ASSUME IndexerInv, Grows, NEW k \in Conns,
         conns'[k].work = NoWork, conns'[k].queued = None
  PROVE  GoodConn(k)' /\ NewKeysAreFree(k)
<1>1. \A d \in Chains : NoWork.last[d] < head'[d]
  BY WorkTypes DEF Grows, TableTypes
<1> QED
  BY <1>1, WorkTypes DEF GoodConn, GoodWork, GoodQueue, NewKeysAreFree

(* A statement of the transaction that fails.                              *)
LEMMA StatementFailsInv ==
  ASSUME IndexerInv, Grows, NEW c \in Chains, StatementFails(c)
  PROVE  IndexerInv'
<1>1. PICK k \in Conns, e \in Events : k = job[c].conn /\ e = job[c].event
  BY OwnConn DEF StatementFails, InTransaction
<1> DEFINE conn == [Clean EXCEPT !.tx = "aborted"]
<1>2. /\ job[c].pc \in {"insert", "apply"} /\ Go(c, "rollback")
      /\ conns' = [conns EXCEPT ![k] = conn]
      /\ UNCHANGED <<head, asked, tables>>
  BY <1>1 DEF StatementFails
<1>3. GoodJob(c) /\ conns \in [Conns -> Connection]
  BY TypeOKParts DEF IndexerInv, JobInv, Typed
<1>4. conn \in Connection /\ conn.work = NoWork /\ conn.queued = None
  BY WorkTypes DEF Clean, Connection
<1>5. /\ conns' \in [Conns -> Connection] /\ \A l \in Conns \ {k} : conns'[l] = conns[l]
      /\ conns'[k] = conn
  BY <1>2, <1>3, <1>4
<1> HIDE DEF conn
<1>6. GoodConn(k)' /\ NewKeysAreFree(k)
  BY <1>4, <1>5, EmptyConn
<1> DEFINE j == GoneOn(c, "rollback")
<1>7. /\ job' = [job EXCEPT ![c] = j] /\ job'[c] = j /\ j \in Job
      /\ j.pc = "rollback" /\ j.conn = k /\ j.event = e /\ j.watching = job[c].watching
      /\ j.from = job[c].from /\ j.to = job[c].to /\ j.current = job[c].current
  BY <1>1, <1>2, GoOn DEF InTransaction
<1> HIDE DEF j
<1>8. GoodJob(c)'
  BY <1>2, <1>3, <1>7 DEF GoodJob, InTransaction
<1>9. AppliedOnce' /\ logged' = logged
  BY <1>2 DEF AppliedOnce, IndexerInv
<1> QED
  BY <1>1, <1>5, <1>6, <1>7, <1>8, <1>9, Together

(* An indexer that is done with its event.                                 *)
Done(c) ==
  [job[c] EXCEPT !.pc = Back(c), !.conn = None, !.event = None,
                 !.cursor = job[c].event.pos]

(* After COMMIT or ROLLBACK the connection goes back clean and the indexer *)
(* reads on.                                                               *)
LEMMA NextEventSteps ==
  ASSUME IndexerInv, Grows, NEW c \in Chains, NEW k \in Conns,
         job[c].pc \in InTransaction, job[c].conn = k, NextEvent(c), head' = head
  PROVE  /\ job' = [job EXCEPT ![c] = Done(c)] /\ job'[c] = Done(c)
         /\ Done(c) \in Job /\ Done(c).conn = None
         /\ conns' \in [Conns -> Connection] /\ conns'[k] = Clean
         /\ \A l \in Conns \ {k} : conns'[l] = conns[l]
         /\ GoodJob(c)'
<1>1. /\ job \in [Chains -> Job] /\ job[c] \in Job /\ conns \in [Conns -> Connection]
      /\ job[c].event \in Events /\ GoodJob(c)
  BY TypeOKParts, OwnConn DEF IndexerInv, Typed
<1>2. Back(c) \in {"watch", "route"} /\ (Back(c) = "watch" <=> job[c].watching)
  BY DEF Back
<1>3. job' = [job EXCEPT ![c] = Done(c)] /\ job'[c] = Done(c)
  BY <1>1 DEF NextEvent, Done, Job
<1>4. /\ Done(c).pc = Back(c) /\ Done(c).conn = None
      /\ Done(c).watching = job[c].watching /\ Done(c).from = job[c].from
      /\ Done(c).to = job[c].to /\ Done(c).current = job[c].current
  BY <1>1 DEF Done, Job
<1>5. Done(c) \in Job
  <2>1. job[c].event.pos \in Positions
    BY <1>1, EventTypes
  <2> QED
    BY <1>1, <1>2, <2>1 DEF Done, Job, Stages
<1>6. /\ conns' \in [Conns -> Connection] /\ conns'[k] = Clean
      /\ \A l \in Conns \ {k} : conns'[l] = conns[l]
  BY <1>1, WorkTypes DEF NextEvent
<1>7. GoodJob(c)'
  BY <1>1, <1>2, <1>3, <1>4 DEF GoodJob, InTransaction
<1> QED
  BY <1>3, <1>4, <1>5, <1>6, <1>7

(* The transaction dropped after an error.                                 *)
LEMMA RollbackInv ==
  ASSUME IndexerInv, Grows, NEW c \in Chains, Rollback(c)
  PROVE  IndexerInv'
<1>1. PICK k \in Conns : k = job[c].conn
  BY OwnConn DEF Rollback, InTransaction
<1>2. NextEvent(c) /\ UNCHANGED <<head, asked, tables>> /\ job[c].pc \in InTransaction
  BY DEF Rollback, InTransaction
<1>3. /\ job' = [job EXCEPT ![c] = Done(c)] /\ job'[c] = Done(c)
      /\ Done(c) \in Job /\ Done(c).conn = None
      /\ conns' \in [Conns -> Connection] /\ conns'[k] = Clean
      /\ \A l \in Conns \ {k} : conns'[l] = conns[l]
      /\ GoodJob(c)'
  BY <1>1, <1>2, NextEventSteps
<1>4. GoodConn(k)' /\ NewKeysAreFree(k)
  BY <1>3, EmptyConn DEF Clean
<1>5. AppliedOnce' /\ logged' = logged
  BY <1>2 DEF AppliedOnce, IndexerInv
<1> QED
  BY <1>1, <1>3, <1>4, <1>5, Together

(* COMMIT publishes what the connection holds.                             *)
LEMMA CommitInv ==
  ASSUME IndexerInv, Grows, NEW c \in Chains, Commit(c)
  PROVE  IndexerInv'
<1>1. PICK k \in Conns : k = job[c].conn
  BY OwnConn DEF Commit, InTransaction
<1> DEFINE work == conns[k].work
<1>2. /\ NextEvent(c) /\ UNCHANGED <<head, asked>> /\ job[c].pc \in InTransaction
      /\ Publish(work)
  BY <1>1 DEF Commit, InTransaction
<1>3. /\ job' = [job EXCEPT ![c] = Done(c)] /\ job'[c] = Done(c)
      /\ Done(c) \in Job /\ Done(c).conn = None
      /\ conns' \in [Conns -> Connection] /\ conns'[k] = Clean
      /\ \A l \in Conns \ {k} : conns'[l] = conns[l]
      /\ GoodJob(c)'
  BY <1>1, <1>2, NextEventSteps
<1>4. /\ job \in [Chains -> Job] /\ work \in WorkType /\ TypeOK /\ GoodWork(k)
  BY TypeOKParts DEF IndexerInv, ConnInv, Typed, Connection
<1>5. /\ logged' = logged \cup work.logged
      /\ \A e \in Events :
           applied'[e] = applied[e] + (IF e \in work.applied THEN 1 ELSE 0)
  BY <1>2, <1>4, PublishTables
<1>6. Typed'
  BY <1>3, <1>4 DEF Typed
<1>7. ConnInv'
  <2>1. \A d \in Chains : job'[d].conn \in {job[d].conn, None, k}
    BY <1>3, <1>4
  <2>2. GoodWork(k)' /\ GoodQueue(k)'
    BY <1>3, EmptyConn DEF Clean, GoodConn
  <2> QED
    BY <1>3, <1>6, <2>1, <2>2, ConnInvStep
<1>8. JobInv'
  <2>1. \A d \in Chains \ {c} : job'[d] = job[d]
    BY <1>3, <1>4
  <2>2. \A d \in Chains \ {c} : \A l \in Conns :
          job[d].conn = l => conns'[l] = conns[l] /\ job'[c].conn # l
    BY <1>1, <1>3, OwnConn, <1>2
  <2> QED
    BY <1>3, <1>6, <2>1, <2>2, JobStep
<1>9. KeysInv'
  <2>1. conns'[k].work.logged = {}
    BY <1>3, WorkTypes DEF Clean
  <2>2. \A e, f \in logged' : Key(e) = Key(f) => e = f
    BY <1>5 DEF IndexerInv, KeysInv
  <2>3. ASSUME NEW l \in Conns \ {k}, NEW e \in conns[l].work.logged
        PROVE  /\ \A f \in logged' : Key(e) # Key(f)
               /\ \A m \in Conns : \A f \in conns'[m].work.logged :
                    Key(e) = Key(f) => l = m /\ e = f
    BY <1>3, <1>5, <2>1 DEF IndexerInv, KeysInv
  <2> QED
    BY <1>3, <2>1, <2>2, <2>3 DEF KeysInv
<1>10. AppliedOnce'
  <2> SUFFICES ASSUME NEW e \in Events
               PROVE  applied'[e] <= 1 /\ (applied'[e] = 1 => e \in logged')
    BY DEF AppliedOnce
  <2>1. applied[e] \in Nat /\ applied[e] <= 1 /\ (applied[e] = 1 => e \in logged)
    BY <1>4 DEF IndexerInv, AppliedOnce, TypeOK
  <2>2. CASE e \in work.applied
    <3>1. e \in work.logged
      BY <1>4, <2>2 DEF GoodWork
    <3>2. e \notin logged
      BY <3>1 DEF IndexerInv, KeysInv
    <3> QED
      BY <1>5, <2>1, <2>2, <3>1, <3>2
  <2>3. CASE e \notin work.applied
    BY <1>5, <2>1, <2>3
  <2> QED
    BY <2>2, <2>3
<1> QED
  BY <1>6, <1>7, <1>8, <1>9, <1>10, TypeOKPartsNext DEF IndexerInv, Grows

-----------------------------------------------------------------------------
(***************************************************************************)
(* Statements of their own, and those whose sender is gone.                *)
(***************************************************************************)
(* A block number or an acknowledgement publishes no event.                *)
LEMMA PublishNoEvent ==
  ASSUME IndexerInv, NEW work \in WorkType, Publish(work),
         work.logged = {}, work.applied = {}
  PROVE  logged' = logged /\ AppliedOnce'
<1>1. TypeOK /\ \A e \in Events : applied[e] \in Nat
  BY DEF IndexerInv, TypeOK
<1>2. /\ logged' = logged \cup work.logged
      /\ \A e \in Events :
           applied'[e] = applied[e] + (IF e \in work.applied THEN 1 ELSE 0)
  BY <1>1, PublishTables
<1>3. logged' = logged /\ \A e \in Events : applied'[e] = applied[e]
  BY <1>1, <1>2
<1> QED
  BY <1>3 DEF IndexerInv, AppliedOnce

(* A statement outside a transaction, on a free connection.                *)
LEMMA ExecuteInv ==
  ASSUME IndexerInv, Grows, NEW c \in Chains, NEW j \in Job, NEW k \in Conns,
         NEW work \in WorkType, Execute(k, work), Idle(k), Usable(k), head' = head,
         work.logged = conns[k].work.logged, work.applied = conns[k].work.applied,
         \A d \in Chains : work.last[d] < head[d],
         job' = [job EXCEPT ![c] = j], job[c].conn = None, j.conn = None, GoodJob(c)'
  PROVE  IndexerInv'
<1>1. /\ TypeOK /\ GoodWork(k) /\ GoodQueue(k) /\ conns \in [Conns -> Connection]
      /\ conns[k].queued = None
  BY TypeOKParts DEF IndexerInv, ConnInv, Typed, Usable
<1>2. /\ conns' \in [Conns -> Connection] /\ \A l \in Conns \ {k} : conns'[l] = conns[l]
      /\ conns'[k].queued = None /\ conns'[k].tx = conns[k].tx
  BY <1>1, ExecuteConn
<1>3. CASE conns[k].tx = "open"
  <2>1. conns'[k].work = work /\ UNCHANGED tables
    BY <1>1, <1>3, ExecuteConn
  <2>2. GoodWork(k)' /\ GoodQueue(k)'
    BY <1>1, <1>2, <1>3, <2>1 DEF GoodWork, GoodQueue
  <2>3. GoodConn(k)' /\ NewKeysAreFree(k)
    BY <2>1, <2>2, SameLogged DEF GoodConn
  <2>4. AppliedOnce' /\ logged' = logged
    BY <2>1 DEF AppliedOnce, IndexerInv
  <2> QED
    BY <1>2, <2>3, <2>4, Together
<1>4. CASE conns[k].tx # "open"
  <2>1. conns' = conns /\ Publish(work)
    BY <1>1, <1>4, ExecuteConn
  <2>2. work.logged = {} /\ work.applied = {} /\ conns[k].work = NoWork
    BY <1>1, <1>4, WorkTypes DEF GoodWork
  <2>3. logged' = logged /\ AppliedOnce'
    BY <2>1, <2>2, PublishNoEvent
  <2>4. GoodConn(k)' /\ NewKeysAreFree(k)
    BY <1>2, <2>1, <2>2, EmptyConn
  <2> QED
    BY <1>2, <2>3, <2>4, Together
<1> QED
  BY <1>3, <1>4

(* The request to reindex is cleared.                                      *)
LEMMA AcknowledgeInv ==
  ASSUME IndexerInv, Grows, NEW c \in Chains, NEW k \in Conns, Acknowledge(c, k)
  PROVE  IndexerInv'
<1> DEFINE work == Acked(conns[k].work, c)
           j == [job[c] EXCEPT !.pc = "head"]
<1>1. /\ job[c].pc = "ack" /\ Idle(k) /\ Usable(k) /\ Execute(k, work)
      /\ Go(c, "head") /\ head' = head
  BY DEF Acknowledge, Acked
<1>2. /\ job \in [Chains -> Job] /\ job[c].conn = None /\ job[c] \in Job /\ GoodJob(c)
  BY <1>1, NoConn, TypeOKParts DEF IndexerInv, Typed, InTransaction
<1>3. /\ work \in WorkType /\ work.logged = conns[k].work.logged
      /\ work.applied = conns[k].work.applied
      /\ \A d \in Chains : work.last[d] < head[d]
  BY AcknowledgeWork DEF IndexerInv
<1>4. job' = [job EXCEPT ![c] = j] /\ job'[c] = j
  BY <1>1, <1>2 DEF Go, Job
<1>5. /\ j \in Job /\ j.pc = "head" /\ j.conn = None /\ j.watching = job[c].watching
      /\ j.from = job[c].from /\ j.to = job[c].to /\ j.current = job[c].current
  BY <1>2 DEF Job, Stages
<1> HIDE DEF work, j
<1>6. GoodJob(c)'
  BY <1>1, <1>2, <1>4, <1>5 DEF GoodJob, InTransaction
<1> QED
  BY <1>1, <1>2, <1>3, <1>4, <1>5, <1>6, ExecuteInv

(* An indexer that has saved the end of its range.                         *)
Advanced(c) ==
  [job[c] EXCEPT !.pc = "range", !.from = job[c].to + 1, !.to = 0, !.cursor = 0]

(* The last block is saved at the end of a range.                          *)
LEMMA SaveInv ==
  ASSUME IndexerInv, Grows, NEW c \in Chains, NEW k \in Conns, Save(c, k)
  PROVE  IndexerInv'
<1> DEFINE work == WithLast(conns[k].work, c, job[c].to)
           j == Advanced(c)
<1>1. /\ job[c].pc = "route" /\ Idle(k) /\ Usable(k) /\ Execute(k, work)
      /\ head' = head
  BY DEF Save, WithLast
<1>2. /\ job \in [Chains -> Job] /\ job[c].conn = None /\ job[c] \in Job /\ GoodJob(c)
      /\ head \in [Chains -> 1..MaxBlock]
  BY <1>1, NoConn, TypeOKParts DEF IndexerInv, Typed, TableTypes, InTransaction
<1>3. job[c].to \in 1..MaxBlock /\ job[c].to < head[c]
  BY <1>1, <1>2 DEF GoodJob, Job
<1>4. /\ work \in WorkType /\ work.logged = conns[k].work.logged
      /\ work.applied = conns[k].work.applied
      /\ \A d \in Chains : work.last[d] < head[d]
  BY <1>3, SaveWork DEF IndexerInv
<1>5. job' = [job EXCEPT ![c] = j] /\ job'[c] = j
  BY <1>2 DEF Save, Advanced, Job
<1>6. job[c].to + 1 \in 0..MaxBlock + 1 /\ job[c].to + 1 >= 1
  BY <1>3
<1>7. /\ j.pc = "range" /\ j.conn = None /\ j.watching = job[c].watching
      /\ j.from = job[c].to + 1 /\ j.to = 0 /\ j.current = job[c].current
  BY <1>2 DEF Job, Advanced
<1>8. j \in Job
  <2>1. PICK n \in 0..MaxBlock + 1 : n = job[c].to + 1
    BY <1>6
  <2>2. j = [job[c] EXCEPT !.pc = "range", !.from = n, !.to = 0, !.cursor = 0]
    BY <2>1 DEF Advanced
  <2>3. 0 \in Positions /\ 0 \in 0..MaxBlock /\ "range" \in Stages
    BY DEF Positions, Stages
  <2> HIDE DEF j
  <2> QED
    BY <1>2, <2>2, <2>3 DEF Job
<1> HIDE DEF work, j
<1>9. GoodJob(c)'
  BY <1>1, <1>2, <1>5, <1>6, <1>7 DEF GoodJob, InTransaction
<1> QED
  BY <1>1, <1>2, <1>4, <1>5, <1>7, <1>8, <1>9, ExecuteInv

(* A timer fires while the last block is being saved.                      *)
LEMMA RestartInSaveInv ==
  ASSUME IndexerInv, Grows, NEW c \in Chains, NEW k \in Conns, RestartInSave(c, k)
  PROVE  IndexerInv'
<1> DEFINE sent == <<"save", c, job[c].to>>
           conn == [conns[k] EXCEPT !.queued = sent]
<1>1. /\ job[c].pc = "route" /\ Idle(k) /\ UNCHANGED <<head, tables>>
      /\ conns' = [conns EXCEPT ![k].queued = sent]
      /\ job' = [job EXCEPT ![c] = Begun]
  BY DEF RestartInSave
<1>2. /\ job \in [Chains -> Job] /\ job[c].conn = None /\ job[c] \in Job /\ GoodJob(c)
      /\ head \in [Chains -> 1..MaxBlock] /\ conns \in [Conns -> Connection]
      /\ GoodWork(k)
  BY <1>1, NoConn, TypeOKParts DEF IndexerInv, ConnInv, Typed, TableTypes, InTransaction
<1>3. job[c].to \in 1..MaxBlock /\ job[c].to < head[c]
  BY <1>1, <1>2 DEF GoodJob, Job
<1>4. sent \in Sent /\ sent[1] = "save" /\ sent[2] = c /\ sent[3] < head[c]
  BY <1>3, SentTypes
<1>5. conns' = [conns EXCEPT ![k] = conn]
  BY <1>1, <1>2
<1> HIDE DEF sent
<1>6. /\ conn \in Connection /\ conn.queued = sent
      /\ conn.work = conns[k].work /\ conn.tx = conns[k].tx
  BY <1>2, <1>4 DEF Connection
<1>7. /\ conns' \in [Conns -> Connection] /\ conns'[k] = conn
      /\ \A l \in Conns \ {k} : conns'[l] = conns[l]
  BY <1>2, <1>5, <1>6
<1> HIDE DEF conn
<1>8. job'[c] = Begun /\ Begun \in Job /\ Begun.conn = None
  BY <1>1, <1>2, BegunType DEF Begun
<1>9. GoodJob(c)'
  BY <1>1, <1>2, <1>8 DEF GoodJob, Begun, InTransaction
<1>10. Idle(k)'
  BY <1>1, <1>2, <1>8 DEF Idle
<1>11. GoodWork(k)' /\ GoodQueue(k)'
  BY <1>1, <1>2, <1>4, <1>6, <1>7, <1>10 DEF GoodWork, GoodQueue
<1>12. GoodConn(k)' /\ NewKeysAreFree(k)
  BY <1>6, <1>7, <1>11, SameLogged DEF GoodConn
<1>13. AppliedOnce' /\ logged' = logged
  BY <1>1 DEF AppliedOnce, IndexerInv
<1> QED
  BY <1>1, <1>2, <1>7, <1>8, <1>9, <1>12, <1>13, Together

(* A block saved by a statement whose sender is gone.                      *)
LEMMA DrainSave ==
  ASSUME IndexerInv, Grows, NEW k \in Conns, NEW c \in Chains, NEW n \in 1..MaxBlock,
         n < head[c], UNCHANGED <<head, job>>, Idle(k),
         IF conns[k].tx = "open"
         THEN /\ conns' = [conns EXCEPT ![k].queued = None,
                                        ![k].work.last[c] = Larger(@, n)]
              /\ UNCHANGED tables
         ELSE Publish(Saved(c, n)) /\ conns' = [conns EXCEPT ![k].queued = None]
  PROVE  IndexerInv'
<1>1. /\ conns \in [Conns -> Connection] /\ GoodWork(k) /\ TypeOK
      /\ conns[k].work \in WorkType
  BY TypeOKParts DEF IndexerInv, ConnInv, Typed, Connection
<1>2. CASE conns[k].tx = "open"
  <2> DEFINE work == WithLast(conns[k].work, c, n)
             conn == [conns[k] EXCEPT !.queued = None, !.work = work]
  <2>1. conns' = [conns EXCEPT ![k] = conn] /\ UNCHANGED tables
    <3>1. conns[k] \in Connection /\ conns[k].work.last[c] \in 0..MaxBlock
      BY <1>1 DEF WorkType
    <3>2. /\ conns' = [conns EXCEPT ![k].queued = None,
                                    ![k].work.last[c] = Larger(@, n)]
          /\ UNCHANGED tables
      BY <1>2
    <3>3. conns' = [conns EXCEPT ![k] = [conns[k] EXCEPT !.queued = None,
                                           !.work.last[c] = Larger(@, n)]]
      BY <1>1, <3>2, ZenonT(60) DEF Connection
    <3>4. [conns[k] EXCEPT !.queued = None, !.work.last[c] = Larger(@, n)] = conn
      BY <3>1 DEF WithLast, Connection
    <3> QED
      BY <3>2, <3>3, <3>4
  <2>2. /\ work \in WorkType /\ work.logged = conns[k].work.logged
        /\ work.applied = conns[k].work.applied
        /\ \A d \in Chains : work.last[d] < head[d]
    BY SaveWork DEF IndexerInv
  <2> HIDE DEF work
  <2>3. /\ conn \in Connection /\ conn.queued = None /\ conn.work = work
        /\ conn.tx = "open"
    BY <1>1, <1>2, <2>2 DEF Connection
  <2>4. /\ conns' \in [Conns -> Connection] /\ conns'[k] = conn
        /\ \A l \in Conns \ {k} : conns'[l] = conns[l]
    BY <1>1, <2>1, <2>3
  <2> HIDE DEF conn
  <2>5. GoodWork(k)' /\ GoodQueue(k)'
    BY <1>1, <2>2, <2>3, <2>4 DEF GoodWork, GoodQueue
  <2>6. GoodConn(k)' /\ NewKeysAreFree(k)
    BY <2>2, <2>3, <2>4, <2>5, SameLogged DEF GoodConn
  <2>7. AppliedOnce' /\ logged' = logged
    BY <2>1 DEF AppliedOnce, IndexerInv
  <2> QED
    BY <2>4, <2>6, <2>7, ConnOnly
<1>3. CASE conns[k].tx # "open"
  <2> DEFINE conn == [conns[k] EXCEPT !.queued = None]
  <2>1. conns' = [conns EXCEPT ![k] = conn] /\ Publish(Saved(c, n))
    BY <1>1, <1>3
  <2>2. conn \in Connection /\ conn.queued = None /\ conn.work = NoWork
    BY <1>1, <1>3 DEF Connection, GoodWork
  <2>3. /\ conns' \in [Conns -> Connection] /\ conns'[k] = conn
        /\ \A l \in Conns \ {k} : conns'[l] = conns[l]
    BY <1>1, <2>1, <2>2
  <2> HIDE DEF conn
  <2>4. GoodConn(k)' /\ NewKeysAreFree(k)
    BY <2>2, <2>3, EmptyConn
  <2>5. logged' = logged /\ AppliedOnce'
    BY <1>1, <2>1, SavedWork, PublishNoEvent
  <2> QED
    BY <2>3, <2>4, <2>5, ConnOnly
<1> QED
  BY <1>2, <1>3

(* A statement left by a dropped task runs on its connection.              *)
LEMMA DrainInv ==
  ASSUME IndexerInv, Grows, NEW k \in Conns, Drain(k)
  PROVE  IndexerInv'
<1> DEFINE sent == conns[k].queued
<1>1. /\ sent \in Sent /\ GoodQueue(k) /\ Idle(k) /\ UNCHANGED <<head, job>>
      /\ TypeOK /\ sent # None
  BY TypeOKParts DEF Drain, IndexerInv, ConnInv, GoodQueue, Typed, Connection
<1>2. ASSUME NEW e \in Events, conns[k].tx = "open", ~KeyIsLocked(k, e),
             InsertEvent(k, e), UNCHANGED tables
      PROVE  IndexerInv'
  <2>1. /\ conns' \in [Conns -> Connection]
        /\ \A l \in Conns \ {k} : conns'[l] = conns[l]
    BY <1>1, <1>2, InsertConn
  <2>2. GoodConn(k)' /\ NewKeysAreFree(k)
    BY <1>2, InsertKeepsConn
  <2>3. AppliedOnce' /\ logged' = logged
    BY <1>2 DEF AppliedOnce, IndexerInv
  <2> QED
    BY <1>1, <2>1, <2>2, <2>3, ConnOnly
<1>3. ASSUME NEW e \in Events, conns[k].tx = "open", e \in conns[k].work.logged,
             ChangeSummary(k, e), UNCHANGED tables
      PROVE  IndexerInv'
  <2>1. /\ conns' \in [Conns -> Connection]
        /\ \A l \in Conns \ {k} : conns'[l] = conns[l]
    BY <1>1, <1>3, SummaryConn
  <2>2. GoodConn(k)' /\ NewKeysAreFree(k)
    BY <1>3, SummaryKeepsConn
  <2>3. AppliedOnce' /\ logged' = logged
    BY <1>3 DEF AppliedOnce, IndexerInv
  <2> QED
    BY <1>1, <2>1, <2>2, <2>3, ConnOnly
<1>4. CASE sent[1] = "insert"
  <2>1. sent[2] \in Events /\ conns[k].tx = "open"
    BY <1>1, <1>4, SentTypes DEF GoodQueue
  <2>2. ~KeyIsLocked(k, sent[2]) /\ InsertEvent(k, sent[2]) /\ UNCHANGED tables
    BY <1>4 DEF Drain
  <2> QED
    BY <1>2, <2>1, <2>2
<1>5. CASE sent[1] = "apply"
  <2>1. sent[2] \in Events /\ conns[k].tx = "open" /\ sent[2] \in conns[k].work.logged
    BY <1>1, <1>5, SentTypes DEF GoodQueue
  <2>2. ChangeSummary(k, sent[2]) /\ UNCHANGED tables
    BY <1>5 DEF Drain
  <2> QED
    BY <1>3, <2>1, <2>2
<1>6. CASE sent[1] = "save"
  <2>1. sent[2] \in Chains /\ sent[3] \in 1..MaxBlock /\ sent[3] < head[sent[2]]
    BY <1>1, <1>6, SentTypes DEF GoodQueue
  <2>2. IF conns[k].tx = "open"
         THEN /\ conns' = [conns EXCEPT ![k].queued = None,
                                        ![k].work.last[sent[2]] = Larger(@, sent[3])]
              /\ UNCHANGED tables
         ELSE Publish(Saved(sent[2], sent[3])) /\ conns' = [conns EXCEPT ![k].queued = None]
    BY <1>6 DEF Drain, Saved
  <2> QED
    BY <1>1, <2>1, <2>2, DrainSave
<1> QED
  BY <1>1, <1>4, <1>5, <1>6, SentTypes

(* Such a statement fails.                                                 *)
LEMMA DrainFailsInv ==
  ASSUME IndexerInv, Grows, NEW k \in Conns, DrainFails(k)
  PROVE  IndexerInv'
<1> DEFINE conn == [Clean EXCEPT !.tx = IF conns[k].tx = "open" THEN "aborted" ELSE "none"]
<1>1. /\ conns' = [conns EXCEPT ![k] = conn] /\ UNCHANGED <<tables, job>>
      /\ conns \in [Conns -> Connection] /\ Idle(k)
  BY TypeOKParts DEF DrainFails, IndexerInv, ConnInv, GoodQueue, Typed
<1>2. conn \in Connection /\ conn.work = NoWork /\ conn.queued = None
  BY WorkTypes DEF Clean, Connection
<1>3. /\ conns' \in [Conns -> Connection] /\ conns'[k] = conn
      /\ \A l \in Conns \ {k} : conns'[l] = conns[l]
  BY <1>1, <1>2
<1> HIDE DEF conn
<1>4. GoodConn(k)' /\ NewKeysAreFree(k)
  BY <1>2, <1>3, EmptyConn
<1>5. AppliedOnce' /\ logged' = logged
  BY <1>1 DEF AppliedOnce, IndexerInv
<1> QED
  BY <1>1, <1>3, <1>4, <1>5, ConnOnly

-----------------------------------------------------------------------------
(***************************************************************************)
(* The invariant, and what it says under every failure of the model.       *)
(***************************************************************************)
LEMMA Initially == Init => IndexerInv
<1> SUFFICES ASSUME Init PROVE IndexerInv
  OBVIOUS
<1>1. /\ conns \in [Conns -> Connection] /\ \A k \in Conns : conns[k] = Clean
      /\ job \in [Chains -> Job] /\ \A c \in Chains : job[c] = Begun
  BY WorkTypes, BegunType DEF Init
<1>2. TypeOK
  BY <1>1, TypeOKParts DEF Init, Typed, TableTypes
<1>3. \A k \in Conns : conns[k].work = NoWork /\ conns[k].queued = None
  BY <1>1 DEF Clean
<1>4. ConnInv /\ KeysInv
  BY <1>2, <1>3, WorkTypes DEF ConnInv, KeysInv, GoodWork, GoodQueue, Init
<1>5. JobInv
  BY <1>1 DEF JobInv, GoodJob, Begun, InTransaction, Init
<1>6. AppliedOnce
  BY DEF AppliedOnce, Init
<1> QED
  BY <1>2, <1>4, <1>5, <1>6 DEF IndexerInv

(* A stuttering step.                                                      *)
LEMMA Stutter ==
  ASSUME IndexerInv, UNCHANGED vars
  PROVE  IndexerInv'
<1> USE DEF vars
<1>1. TypeOK' /\ ConnInv'
  BY DEF IndexerInv, TypeOK, ConnInv, GoodWork, GoodQueue, Idle
<1>2. KeysInv' /\ AppliedOnce'
  BY DEF IndexerInv, KeysInv, AppliedOnce
<1>3. JobInv'
  BY DEF IndexerInv, JobInv, GoodJob
<1> QED
  BY <1>1, <1>2, <1>3 DEF IndexerInv

(* The invariant is inductive.                                             *)
LEMMA NextInv == IndexerInv /\ [FaultyNext]_vars => IndexerInv'
<1> SUFFICES ASSUME IndexerInv, FaultyNext PROVE IndexerInv'
  BY Stutter
<1>1. Grows
  BY NextTables DEF IndexerInv, Grows
<1>2. ASSUME NEW c \in Chains, Steps(c) PROVE IndexerInv'
  BY <1>1, <1>2, StartSteps, AcknowledgeInv, BeginInv, SaveInv, RangeSteps, InsertInv,
     ApplyInv, CommitInv, RollbackInv DEF Steps
<1>3. ASSUME NEW c \in Chains,
             \/ StreamEnds(c) \/ RpcFails(c) \/ Mine(c) \/ RequestReindex(c)
             \/ StatementFails(c)
             \/ \E k \in Conns : IdleTimer(c, k) \/ ReindexTimer(c, k)
      PROVE IndexerInv'
  BY <1>1, <1>3, RangeSteps, TimerSteps, OutsideSteps, StatementFailsInv
<1>4. ASSUME NEW c \in Chains, NEW k \in Conns,
             GetHead(c, k) \/ StartFails(c, k) \/ RestartInSave(c, k)
      PROVE IndexerInv'
  BY <1>1, <1>4, StartSteps, RestartAllSteps, RestartInSaveInv
<1>5. ASSUME Crash \/ \E k \in Conns : Drain(k) \/ DrainFails(k) PROVE IndexerInv'
  BY <1>1, <1>5, RestartAllSteps, DrainInv, DrainFailsInv
<1> QED
  BY <1>2, <1>3, <1>4, <1>5 DEF FaultyNext, Next, Faults

(* The inductive invariant of the indexers holds in every reachable state, *)
(* whatever fails.                                                         *)
THEOREM Invariance == FaultySpec => []IndexerInv
<1> QED
  BY Initially, NextInv, PTL DEF FaultySpec

(* The specification of the runs is the faulty one without the failures    *)
(* that leave a connection behind.                                         *)
LEMMA SpecIsFaulty == Spec => FaultySpec
<1>1. [Next]_vars => [FaultyNext]_vars
  BY DEF FaultyNext
<1> QED
  BY <1>1, PTL DEF Spec, FaultySpec

(* The types of the tables, connections and indexers, whatever fails.      *)
THEOREM TypeCorrect == FaultySpec => []TypeOK
<1>1. IndexerInv => TypeOK
  BY DEF IndexerInv
<1> QED
  BY <1>1, Invariance, PTL

(* No event is added to its summary twice, and none that is not logged,    *)
(* also when indexers are dropped in the middle of their transactions, and *)
(* the next user of the connection commits what they have written.         *)
THEOREM AppliedOnceTheorem == FaultySpec => []AppliedOnce
<1>1. IndexerInv => AppliedOnce
  BY DEF IndexerInv
<1> QED
  BY <1>1, Invariance, PTL

(* stake_lastblock never goes back, whatever fails.                        *)
THEOREM LastBlockTheorem == FaultySpec => LastBlockGrows
<1>1. IndexerInv /\ [FaultyNext]_vars => [\A c \in Chains : last'[c] >= last[c]]_vars
  BY NextTables DEF IndexerInv
<1> QED
  BY <1>1, Invariance, PTL DEF FaultySpec, LastBlockGrows

-----------------------------------------------------------------------------
(***************************************************************************)
(* What the indexers achieve when no timer fires in the middle of a        *)
(* transaction: a connection that nobody uses is clean, so events and      *)
(* summaries change together and, when no statement fails either, the      *)
(* indexer implements the ledger.                                          *)
(***************************************************************************)
(* What the transaction of an indexer holds at each stage: its own event,  *)
(* and the change of the summary that the tables call for.                 *)
Contents(c) ==
  LET e == job[c].event  conn == conns[job[c].conn]  work == conn.work IN
  /\ e.chain = c
  /\ job[c].pc = "insert" => work = NoWork
  /\ job[c].pc \in {"apply", "commit"} =>
       work.logged = {e} /\ work.last = NoWork.last /\ work.acked = {}
  /\ job[c].pc = "apply" => work.applied = {} /\ work.rows = {}
  /\ job[c].pc = "commit" =>
       IF e.kind = "stake" \/ Recorded(e) \in rows
       THEN work.applied = {e} /\ work.rows = {Recorded(e)}
       ELSE work.applied = {} /\ work.rows = {}

(* Without a drop in the middle, nothing is left in the pool.              *)
Quiet ==
  /\ ~CancelMidway
  /\ \A k \in Conns : Idle(k) => conns[k] = Clean
  /\ \A c \in Chains : job[c].pc \in InTransaction => Contents(c)
  /\ LoggedStakesAreApplied

(* An indexer that routes the logs of a range has written those it passed, *)
(* and there is no checked block it would skip.                            *)
ReadsRange(c) ==
  ~job[c].watching /\ job[c].pc \in {"route"} \cup InTransaction

InRange(e, c) == e.chain = c /\ e.block \in job[c].from .. job[c].to

GoodRange(c) ==
  /\ job[c].pc \in {"ack", "head", "range"} \/ ReadsRange(c) => job[c].from <= last[c] + 1
  /\ ReadsRange(c) =>
       \A e \in Events : InRange(e, c) /\ e.pos <= job[c].cursor => Written(e)
  /\ ReadsRange(c) /\ job[c].pc \in InTransaction =>
       \A e \in Events : InRange(e, c) /\ e.pos < job[c].event.pos => e.pos <= job[c].cursor
  /\ job[c].pc = "rollback" => Written(job[c].event)

Ranges ==
  /\ ~MayError
  /\ CheckedBlocksAreLogged
  /\ \A c \in Chains : request[c] <= last[c] /\ GoodRange(c)

-----------------------------------------------------------------------------
(***************************************************************************)
(* Steps of one indexer.                                                   *)
(***************************************************************************)
(* A connection is free or belongs to one indexer.                         *)
LEMMA Owners ==
  ASSUME IndexerInv
  PROVE  /\ \A c \in Chains : /\ job[c].conn \in Conns <=> job[c].pc \in InTransaction
                              /\ job[c].conn \in Conns \cup {None}
                              /\ job[c].pc \in InTransaction => job[c].event \in Events
         /\ \A c, d \in Chains :
              c # d /\ job[d].conn \in Conns => job[c].conn # job[d].conn
BY TypeOKParts DEF IndexerInv, JobInv, GoodJob, Typed, Job

(* The same in the next state.                                             *)
LEMMA OwnersNext ==
  ASSUME IndexerInv'
  PROVE  \A c \in Chains : /\ job'[c].conn \in Conns <=> job'[c].pc \in InTransaction
                           /\ job'[c].conn \in Conns \cup {None}
                           /\ job'[c].pc \in InTransaction => job'[c].event \in Events
BY TypeOKPartsNext DEF IndexerInv, JobInv, GoodJob, Typed, Job

(* The events of another chain have summaries of their own.                *)
LEMMA ChainsApart ==
  ASSUME NEW e \in Events, NEW f \in Events, e.chain # f.chain
  PROVE  Recorded(e) # Recorded(f)
BY DEF Recorded

(* A step of one indexer keeps Quiet when it changes nobody else's rows or *)
(* connection.                                                             *)
LEMMA QuietStep ==
  ASSUME IndexerInv, IndexerInv', Quiet, NEW c \in Chains,
         \A d \in Chains \ {c} : job'[d] = job[d],
         \A d \in Chains \ {c} : job[d].conn \in Conns =>
           conns'[job[d].conn] = conns[job[d].conn],
         \A k \in Conns : Idle(k)' => conns'[k] = Clean,
         \A e \in Events : e.chain # c => (Recorded(e) \in rows' <=> Recorded(e) \in rows),
         job'[c].pc \in InTransaction => Contents(c)',
         LoggedStakesAreApplied'
  PROVE  Quiet'
<1>1. ASSUME NEW d \in Chains \ {c}, job'[d].pc \in InTransaction PROVE Contents(d)'
  <2>1. /\ job'[d] = job[d] /\ Contents(d) /\ job[d].conn \in Conns
        /\ job[d].event \in Events /\ conns'[job[d].conn] = conns[job[d].conn]
    BY <1>1, Owners DEF Quiet
  <2>2. job[d].event.chain # c
    BY <2>1 DEF Contents
  <2>3. Recorded(job[d].event) \in rows' <=> Recorded(job[d].event) \in rows
    BY <2>1, <2>2
  <2> QED
    BY <2>1, <2>3 DEF Contents
<1> QED
  BY <1>1 DEF Quiet

(* A step outside transactions that writes no event.                       *)
LEMMA QuietRead ==
  ASSUME IndexerInv, IndexerInv', Quiet, NEW c \in Chains,
         job[c].pc \notin InTransaction, job'[c].pc \notin InTransaction,
         \A d \in Chains \ {c} : job'[d] = job[d],
         UNCHANGED <<conns, logged, rows, applied>>
  PROVE  Quiet'
<1>1. job[c].conn = None /\ job'[c].conn = None
  BY Owners, OwnersNext
<1>2. \A k \in Conns : Idle(k)' => Idle(k)
  BY <1>1 DEF Idle
<1>3. LoggedStakesAreApplied'
  BY DEF Quiet, LoggedStakesAreApplied
<1> QED
  BY <1>1, <1>2, <1>3, QuietStep DEF Quiet

(* A step in a transaction, of the one connection it has.                  *)
LEMMA QuietOwn ==
  ASSUME IndexerInv, IndexerInv', Quiet, NEW c \in Chains, NEW k \in Conns,
         \A d \in Chains \ {c} : job'[d] = job[d], job'[c].conn = k,
         job[c].conn = k \/ Idle(k), job[c].conn \in {None, k},
         \A l \in Conns \ {k} : conns'[l] = conns[l],
         UNCHANGED <<logged, rows, applied>>, Contents(c)'
  PROVE  Quiet'
<1>1. \A d \in Chains \ {c} : job[d].conn # k
  BY Owners DEF Idle
<1>2. ASSUME NEW l \in Conns, Idle(l)' PROVE conns'[l] = Clean
  <2>1. l # k
    BY <1>2 DEF Idle
  <2>2. Idle(l)
    BY <1>2, <2>1 DEF Idle
  <2> QED
    BY <2>1, <2>2 DEF Quiet
<1>3. LoggedStakesAreApplied'
  BY DEF Quiet, LoggedStakesAreApplied
<1> QED
  BY <1>1, <1>2, <1>3, QuietStep

-----------------------------------------------------------------------------
(***************************************************************************)
(* Each action.                                                            *)
(***************************************************************************)
(* Statements outside a transaction commit by themselves.                  *)
LEMMA CleanExecute ==
  ASSUME IndexerInv, Quiet, NEW k \in Conns, NEW work, Idle(k), Execute(k, work)
  PROVE  conns[k] = Clean /\ Publish(work) /\ UNCHANGED conns
BY DEF Quiet, Execute, Clean

(* A commit of nothing changes no event and no summary.                    *)
LEMMA PublishNothing ==
  ASSUME IndexerInv, NEW work \in WorkType, Publish(work),
         work.logged = {}, work.applied = {}, work.rows = {}
  PROVE  UNCHANGED <<logged, rows, applied>>
<1>1. logged' = logged /\ rows' = rows
  BY DEF Publish
<1>2. /\ applied \in [Events -> Nat] /\ applied' = [e \in Events |-> applied[e] + 0]
  BY DEF Publish, IndexerInv, TypeOK
<1>3. applied' = applied
  BY <1>2
<1> QED
  BY <1>1, <1>3

(* A commit without a saved block leaves the last blocks alone.            *)
LEMMA PublishNoBlock ==
  ASSUME IndexerInv, NEW work \in WorkType, Publish(work), work.last = NoWork.last
  PROVE  last' = last
<1>1. last \in [Chains -> 0..MaxBlock]
  BY DEF IndexerInv, TypeOK
<1>2. last' = [c \in Chains |-> Larger(last[c], 0)]
  BY WorkTypes DEF Publish
<1>3. \A c \in Chains : Larger(last[c], 0) = last[c]
  BY <1>1 DEF Larger
<1> QED
  BY <1>1, <1>2, <1>3

(* What such a statement writes when nothing is written before it.         *)
LEMMA FirstWrites ==
  ASSUME NEW c \in Chains, NEW n \in 0..MaxBlock
  PROVE  /\ Acked(NoWork, c) \in WorkType
         /\ Acked(NoWork, c).logged = {} /\ Acked(NoWork, c).applied = {}
         /\ Acked(NoWork, c).rows = {} /\ Acked(NoWork, c).last = NoWork.last
         /\ WithLast(NoWork, c, n) \in WorkType
         /\ WithLast(NoWork, c, n).logged = {} /\ WithLast(NoWork, c, n).applied = {}
         /\ WithLast(NoWork, c, n).rows = {} /\ WithLast(NoWork, c, n).acked = {}
         /\ WithLast(NoWork, c, n).last[c] = n
         /\ \A d \in Chains \ {c} : WithLast(NoWork, c, n).last[d] = 0
<1>1. PICK work \in WorkType : work = NoWork
  BY WorkTypes
<1>2. Larger(work.last[c], n) = n
  BY <1>1, WorkTypes DEF Larger
<1>3. /\ Acked(work, c) \in WorkType
      /\ Acked(work, c).logged = work.logged /\ Acked(work, c).applied = work.applied
      /\ Acked(work, c).rows = work.rows /\ Acked(work, c).last = work.last
  BY WorkChanges
<1>4. /\ WithLast(work, c, n) \in WorkType
      /\ WithLast(work, c, n).logged = work.logged
      /\ WithLast(work, c, n).applied = work.applied
      /\ WithLast(work, c, n).rows = work.rows /\ WithLast(work, c, n).acked = work.acked
  BY WorkChanges
<1>5. /\ WithLast(work, c, n).last[c] = n
      /\ \A d \in Chains \ {c} : WithLast(work, c, n).last[d] = work.last[d]
  BY <1>2, WorkChanges
<1> QED
  BY <1>1, <1>3, <1>4, <1>5, WorkTypes

(* On a clean connection, acknowledging a request changes only the         *)
(* request.                                                                *)
LEMMA AcknowledgeCalm ==
  ASSUME IndexerInv, Quiet, NEW c \in Chains, NEW k \in Conns, Acknowledge(c, k)
  PROVE  /\ UNCHANGED <<conns, logged, rows, applied, last>>
         /\ \A d \in Chains : request'[d] \in {0, request[d]}
<1> DEFINE work == Acked(conns[k].work, c)
<1>1. Idle(k) /\ Execute(k, work)
  BY DEF Acknowledge, Acked
<1>2. conns[k] = Clean /\ Publish(work) /\ UNCHANGED conns
  BY <1>1, CleanExecute
<1>3. conns[k].work = NoWork
  BY <1>2 DEF Clean
<1>4. /\ work \in WorkType /\ work.logged = {} /\ work.applied = {} /\ work.rows = {}
      /\ work.last = NoWork.last /\ TypeOK
  <2>1. 0 \in 0..MaxBlock
    OBVIOUS
  <2> QED
    BY <1>3, <2>1, FirstWrites DEF IndexerInv
<1> HIDE DEF work
<1>5. UNCHANGED <<logged, rows, applied>> /\ last' = last
  BY <1>2, <1>4, PublishNothing, PublishNoBlock
<1>6. \A d \in Chains : request'[d] \in {0, request[d]}
  BY <1>2, <1>4, PublishTables
<1> QED
  BY <1>2, <1>5, <1>6

(* On a clean connection, saving a block changes only that block.          *)
LEMMA SaveCalm ==
  ASSUME IndexerInv, Quiet, NEW c \in Chains, NEW k \in Conns, Save(c, k)
  PROVE  /\ UNCHANGED <<conns, logged, rows, applied, request>>
         /\ last' = [last EXCEPT ![c] = Larger(last[c], job[c].to)]
<1> DEFINE work == WithLast(conns[k].work, c, job[c].to)
<1>1. Idle(k) /\ Execute(k, work) /\ job[c].to \in 0..MaxBlock
  BY TypeOKParts DEF Save, WithLast, IndexerInv, Typed, Job
<1>2. conns[k] = Clean /\ Publish(work) /\ UNCHANGED conns
  BY <1>1, CleanExecute
<1>3. conns[k].work = NoWork
  BY <1>2 DEF Clean
<1>4. /\ work \in WorkType /\ work.logged = {} /\ work.applied = {} /\ work.rows = {}
      /\ work.acked = {} /\ work.last[c] = job[c].to
      /\ \A d \in Chains \ {c} : work.last[d] = 0
      /\ last \in [Chains -> 0..MaxBlock] /\ request \in [Chains -> 0..MaxBlock]
  BY <1>1, <1>3, FirstWrites DEF IndexerInv, TypeOK
<1> HIDE DEF work
<1>5. UNCHANGED <<logged, rows, applied>>
  BY <1>2, <1>4, PublishNothing
<1>6. request' = [d \in Chains |-> request[d]]
  BY <1>2, <1>4 DEF Publish
<1>7. request' = request
  BY <1>4, <1>6
<1>8. last' = [d \in Chains |-> Larger(last[d], work.last[d])]
  BY <1>2 DEF Publish
<1>9. \A d \in Chains \ {c} : Larger(last[d], work.last[d]) = last[d]
  BY <1>4 DEF Larger
<1> QED
  BY <1>2, <1>4, <1>5, <1>7, <1>8, <1>9

(* The commit records the event, with the change of its summary.           *)
LEMMA CommitCalm ==
  ASSUME IndexerInv, Quiet, NEW c \in Chains, Commit(c)
  PROVE  /\ job[c].event \in Events /\ job[c].event.chain = c
         /\ \A f \in logged : Key(f) # Key(job[c].event)
         /\ UNCHANGED <<last, request>>
         /\ logged' = logged \cup {job[c].event}
         /\ IF job[c].event.kind = "stake" \/ Recorded(job[c].event) \in rows
            THEN /\ rows' = rows \cup {Recorded(job[c].event)}
                 /\ applied' = [applied EXCEPT ![job[c].event] = @ + 1]
            ELSE UNCHANGED <<rows, applied>>
<1>1. PICK k \in Conns, e \in Events : k = job[c].conn /\ e = job[c].event
  BY OwnConn DEF Commit, InTransaction
<1> DEFINE work == conns[k].work
           counts == e.kind = "stake" \/ Recorded(e) \in rows
<1>2. job[c].pc = "commit" /\ Publish(work)
  BY <1>1 DEF Commit
<1>3. /\ e.chain = c /\ work.logged = {e} /\ work.last = NoWork.last /\ work.acked = {}
      /\ IF counts THEN work.applied = {e} /\ work.rows = {Recorded(e)}
                   ELSE work.applied = {} /\ work.rows = {}
  BY <1>1, <1>2 DEF Quiet, Contents, InTransaction
<1>4. /\ work \in WorkType /\ applied \in [Events -> Nat]
      /\ request \in [Chains -> 0..MaxBlock]
  BY TypeOKParts DEF IndexerInv, Typed, Connection, TableTypes
<1>5. \A f \in logged : Key(f) # Key(e)
  BY <1>3 DEF IndexerInv, KeysInv
<1>6. logged' = logged \cup {e} /\ rows' = rows \cup work.rows
  BY <1>2, <1>3 DEF Publish
<1>7. last' = last
  BY <1>2, <1>3, <1>4, PublishNoBlock
<1>8. request' = request
  <2>1. request' = [d \in Chains |-> request[d]]
    BY <1>2, <1>3 DEF Publish
  <2> QED
    BY <1>4, <2>1
<1>9. applied' = [f \in Events |-> applied[f] + (IF f \in work.applied THEN 1 ELSE 0)]
  BY <1>2 DEF Publish
<1> HIDE DEF work
<1>10. CASE counts
  <2>1. \A f \in Events \ {e} : applied[f] + (IF f \in work.applied THEN 1 ELSE 0) = applied[f]
    BY <1>3, <1>4, <1>10
  <2>2. applied[e] + (IF e \in work.applied THEN 1 ELSE 0) = applied[e] + 1
    BY <1>3, <1>10
  <2>3. applied' = [applied EXCEPT ![e] = @ + 1]
    BY <1>4, <1>9, <2>1, <2>2
  <2> QED
    BY <1>1, <1>3, <1>5, <1>6, <1>7, <1>8, <1>10, <2>3
<1>11. CASE ~counts
  <2>1. \A f \in Events : applied[f] + (IF f \in work.applied THEN 1 ELSE 0) = applied[f]
    BY <1>3, <1>4, <1>11
  <2>2. applied' = applied
    BY <1>4, <1>9, <2>1
  <2> QED
    BY <1>1, <1>3, <1>5, <1>6, <1>7, <1>8, <1>11, <2>2
<1> QED
  BY <1>10, <1>11

(* No statement waits whose sender is gone, and no free connection is      *)
(* aborted.                                                                *)
LEMMA NothingLeft ==
  ASSUME IndexerInv, Quiet, NEW k \in Conns
  PROVE  /\ conns[k].queued = None
         /\ Idle(k) => conns[k].tx = "none" /\ conns[k].work = NoWork
<1>1. Idle(k) => conns[k] = Clean
  BY DEF Quiet
<1>2. Clean.queued = None /\ Clean.tx = "none" /\ Clean.work = NoWork
  BY DEF Clean
<1> QED
  BY <1>1, <1>2 DEF IndexerInv, ConnInv, GoodQueue

(* What writes the tables.                                                 *)
LEMMA CalmTables ==
  ASSUME IndexerInv, Quiet, [FaultyNext]_vars
  PROVE  \/ UNCHANGED <<last, logged, rows, applied>>
         \/ \E c \in Chains, k \in Conns : Save(c, k)
         \/ \E c \in Chains : Commit(c)
<1>1. CASE UNCHANGED vars
  BY <1>1 DEF vars
<1>2. ASSUME NEW c \in Chains, NEW k \in Conns, Acknowledge(c, k)
      PROVE  UNCHANGED <<last, logged, rows, applied>>
  BY <1>2, AcknowledgeCalm
<1>3. ASSUME NEW c \in Chains, Mine(c) \/ RequestReindex(c)
      PROVE  UNCHANGED <<last, logged, rows, applied>>
  BY <1>3 DEF Mine, RequestReindex
<1>4. ASSUME NEW k \in Conns PROVE ~Drain(k)
  BY NothingLeft DEF Drain
<1> QED
  BY <1>1, <1>2, <1>3, <1>4, TablesKept

(* The steps of an indexer outside its transactions keep Quiet.            *)
LEMMA QuietReads ==
  ASSUME IndexerInv, IndexerInv', Quiet, NEW c \in Chains,
         \/ QueryRange(c) \/ Watch(c) \/ StreamEnds(c)
         \/ \E k \in Conns : \/ GetRequested(c, k) \/ GetLatest(c, k) \/ GetHead(c, k)
                             \/ HeadFails(c, k) \/ Acknowledge(c, k) \/ Save(c, k)
  PROVE  Quiet'
<1>1. job \in [Chains -> Job]
  BY TypeOKParts DEF IndexerInv, Typed
<1>2. ASSUME QueryRange(c) \/ Watch(c) \/ StreamEnds(c) PROVE Quiet'
  <2>1. UNCHANGED <<conns, logged, rows, applied>> /\ job[c].pc \notin InTransaction
    BY <1>2 DEF QueryRange, Watch, StreamEnds, InTransaction
  <2>2. job'[c].pc \notin InTransaction /\ \A d \in Chains \ {c} : job'[d] = job[d]
    <3>1. CASE QueryRange(c)
      BY <1>1, <3>1 DEF QueryRange, Job, InTransaction
    <3>2. CASE Watch(c)
      <4>1. PICK since :
              job' = [job EXCEPT ![c] = [Begun EXCEPT !.pc = "watch", !.watching = TRUE,
                                           !.since = since, !.counted = job[c].counted]]
        BY <3>2 DEF Watch
      <4>2. job'[c].pc = "watch"
        BY <1>1, <4>1 DEF Begun
      <4> QED
        BY <1>1, <4>1, <4>2 DEF InTransaction
    <3>3. CASE StreamEnds(c)
      BY <1>1, <3>3 DEF StreamEnds, Go, Job, InTransaction
    <3> QED
      BY <1>2, <3>1, <3>2, <3>3
  <2> QED
    BY <2>1, <2>2, QuietRead
<1>3. ASSUME NEW k \in Conns,
             GetRequested(c, k) \/ GetLatest(c, k) \/ GetHead(c, k) \/ HeadFails(c, k)
      PROVE  Quiet'
  <2> USE DEF GetRequested, GetLatest, GetHead, HeadFails, StartAt
  <2>1. UNCHANGED <<conns, logged, rows, applied>> /\ job[c].pc \notin InTransaction
    BY <1>3 DEF InTransaction
  <2>2. job'[c].pc \notin InTransaction /\ \A d \in Chains \ {c} : job'[d] = job[d]
    BY <1>1, <1>3 DEF Job, InTransaction
  <2> QED
    BY <2>1, <2>2, QuietRead
<1>4. ASSUME NEW k \in Conns, Acknowledge(c, k) \/ Save(c, k) PROVE Quiet'
  <2>1. UNCHANGED <<conns, logged, rows, applied>>
    BY <1>4, AcknowledgeCalm, SaveCalm
  <2>2. /\ job[c].pc \notin InTransaction /\ job'[c].pc \notin InTransaction
        /\ \A d \in Chains \ {c} : job'[d] = job[d]
    BY <1>1, <1>4 DEF Acknowledge, Save, Go, Job, InTransaction
  <2> QED
    BY <2>1, <2>2, QuietRead
<1> QED
  BY <1>2, <1>3, <1>4

(* Timers and RPC failures fire outside transactions only.                 *)
LEMMA QuietTimers ==
  ASSUME IndexerInv, IndexerInv', Quiet, NEW c \in Chains,
         RpcFails(c) \/ \E k \in Conns : IdleTimer(c, k) \/ ReindexTimer(c, k)
  PROVE  Quiet'
<1>1. job \in [Chains -> Job]
  BY TypeOKParts DEF IndexerInv, Typed
<1>2. CASE Restart(c)
  <2>1. job[c].pc \notin InTransaction
    BY <1>2 DEF Restart, Quiet
  <2>2. /\ UNCHANGED <<conns, logged, rows, applied>> /\ job'[c] = Begun
        /\ \A d \in Chains \ {c} : job'[d] = job[d]
    BY <1>1, <1>2, <2>1 DEF Restart, Left, InTransaction
  <2>3. job'[c].pc \notin InTransaction
    BY <2>2 DEF Begun, InTransaction
  <2> QED
    BY <2>1, <2>2, <2>3, QuietRead
<1>3. ASSUME NEW k \in Conns, IdleTimer(c, k), ~Restart(c) PROVE Quiet'
  <2>1. /\ job' = [job EXCEPT ![c].counted = Cardinality(EventsSeen(k, c))]
        /\ UNCHANGED <<tables, conns>>
    BY <1>3 DEF IdleTimer
  <2>2. /\ \A d \in Chains \ {c} : job'[d] = job[d]
        /\ job'[c].pc = job[c].pc /\ job'[c].conn = job[c].conn
        /\ job'[c].event = job[c].event
    BY <1>1, <2>1 DEF Job
  <2>3. CASE job[c].pc \notin InTransaction
    BY <2>1, <2>2, <2>3, QuietRead
  <2>4. CASE job[c].pc \in InTransaction
    <3>1. Contents(c) /\ job[c].conn \in Conns
      BY <2>4, Owners DEF Quiet
    <3>2. Contents(c)'
      BY <2>1, <2>2, <3>1 DEF Contents
    <3> QED
      BY <2>1, <2>2, <3>1, <3>2, QuietOwn
  <2> QED
    BY <2>3, <2>4
<1>4. RpcFails(c) \/ (\E k \in Conns : ReindexTimer(c, k)) => Restart(c)
  BY DEF RpcFails, ReindexTimer
<1> QED
  BY <1>2, <1>3, <1>4

(* Steps outside the indexers keep Quiet.                                  *)
LEMMA QuietOutside ==
  ASSUME IndexerInv, Quiet, UNCHANGED <<conns, job, logged, rows, applied>>
  PROVE  Quiet'
BY DEF Quiet, Idle, Contents, LoggedStakesAreApplied

(* A crash drops every open transaction as a whole.                        *)
LEMMA QuietStartOver ==
  ASSUME Quiet, AllStartOver, UNCHANGED tables
  PROVE  Quiet'
<1>1. /\ \A k \in Conns : conns'[k] = Clean
      /\ \A c \in Chains : job'[c].pc \notin InTransaction
  BY NewPool DEF Begun, InTransaction
<1> QED
  BY <1>1 DEF Quiet, LoggedStakesAreApplied

-----------------------------------------------------------------------------
(***************************************************************************)
(* The stages of a transaction.                                            *)
(***************************************************************************)
LEMMA QuietBegin ==
  ASSUME IndexerInv, IndexerInv', Quiet, NEW c \in Chains, NEW k \in Conns, Begin(c, k)
  PROVE  Quiet'
<1>1. /\ job \in [Chains -> Job] /\ conns \in [Conns -> Connection]
      /\ Idle(k) /\ UNCHANGED <<head, tables>> /\ job[c].pc \notin InTransaction
  BY TypeOKParts DEF IndexerInv, Typed, Begin, InTransaction
<1>2. conns[k].tx = "none" /\ conns[k].work = NoWork
  BY <1>1, NothingLeft
<1>3. PICK e \in Events :
        /\ Earliest(e, Pending(c))
        /\ job' = [job EXCEPT ![c].pc = "insert", ![c].conn = k, ![c].event = e]
        /\ conns' = [conns EXCEPT ![k].tx = "open"]
  BY <1>2 DEF Begin
<1>4. /\ \A d \in Chains \ {c} : job'[d] = job[d]
      /\ job'[c].pc = "insert" /\ job'[c].conn = k /\ job'[c].event = e
  BY <1>1, <1>3 DEF Job
<1>5. /\ \A l \in Conns \ {k} : conns'[l] = conns[l]
      /\ conns'[k].work = NoWork
  BY <1>1, <1>2, <1>3 DEF Connection
<1>6. e.chain = c
  BY <1>3 DEF Earliest, Pending
<1>7. Contents(c)'
  BY <1>4, <1>5, <1>6 DEF Contents
<1>8. job[c].conn = None
  BY <1>1, Owners
<1> QED
  BY <1>1, <1>4, <1>5, <1>7, <1>8, QuietOwn

(* The INSERT of an event opens its transaction's work.                    *)
LEMMA QuietInsert ==
  ASSUME IndexerInv, IndexerInv', Quiet, NEW c \in Chains, Insert(c)
  PROVE  Quiet'
<1>1. PICK k \in Conns, e \in Events : k = job[c].conn /\ e = job[c].event
  BY OwnConn DEF Insert, InTransaction
<1>2. /\ job[c].pc = "insert" /\ InsertEvent(k, e) /\ UNCHANGED <<head, asked, tables>>
      /\ Go(c, IF Duplicate(k, e) THEN "rollback" ELSE "apply")
  BY <1>1 DEF Insert
<1>3. Contents(c) /\ conns[k].work = NoWork /\ e.chain = c /\ TypeOK
  BY <1>1, <1>2 DEF Quiet, Contents, InTransaction, IndexerInv
<1>4. /\ \A l \in Conns \ {k} : conns'[l] = conns[l]
      /\ ~Duplicate(k, e) =>
           /\ conns'[k].work.logged = {e} /\ conns'[k].work.applied = {}
           /\ conns'[k].work.rows = {} /\ conns'[k].work.last = NoWork.last
           /\ conns'[k].work.acked = {}
  <2>1. /\ \A l \in Conns \ {k} : conns'[l] = conns[l]
        /\ ~Duplicate(k, e) =>
             /\ conns'[k].work.logged = {e} /\ conns'[k].work.applied = {}
             /\ conns'[k].work.rows = {} /\ conns'[k].work.last = NoWork.last
    BY <1>2, <1>3, InsertConn, WorkTypes
  <2>2. ASSUME ~Duplicate(k, e) PROVE conns'[k].work.acked = {}
    <3>1. conns' = [conns EXCEPT ![k].work.logged = @ \cup {e}, ![k].queued = None]
      BY <1>2, <2>2 DEF InsertEvent
    <3>2. conns \in [Conns -> Connection] /\ conns[k].work \in WorkType
      BY TypeOKParts DEF IndexerInv, Typed, Connection
    <3>3. conns'[k].work.acked = conns[k].work.acked
      BY <3>1, <3>2 DEF Connection, WorkType
    <3> QED
      BY <1>3, <3>3, WorkTypes
  <2> QED
    BY <2>1, <2>2
<1>5. PICK stage \in {"rollback", "apply"} :
        stage = IF Duplicate(k, e) THEN "rollback" ELSE "apply"
  OBVIOUS
<1>6. /\ job' = [job EXCEPT ![c] = GoneOn(c, stage)] /\ job'[c] = GoneOn(c, stage)
      /\ GoneOn(c, stage).pc = stage /\ GoneOn(c, stage).conn = k
      /\ GoneOn(c, stage).event = e
  BY <1>1, <1>2, <1>5, GoOn DEF InTransaction
<1>7. \A d \in Chains \ {c} : job'[d] = job[d]
  BY <1>6
<1>8. Contents(c)'
  BY <1>3, <1>4, <1>5, <1>6 DEF Contents
<1> QED
  BY <1>1, <1>2, <1>4, <1>6, <1>7, <1>8, QuietOwn

(* The summary joins the event in the same transaction.                    *)
LEMMA QuietApply ==
  ASSUME IndexerInv, IndexerInv', Quiet, NEW c \in Chains, Apply(c)
  PROVE  Quiet'
<1>1. PICK k \in Conns, e \in Events : k = job[c].conn /\ e = job[c].event
  BY OwnConn DEF Apply, InTransaction
<1>2. /\ job[c].pc = "apply" /\ ChangeSummary(k, e) /\ UNCHANGED <<head, asked, tables>>
      /\ Go(c, "commit")
  BY <1>1 DEF Apply
<1> DEFINE old == conns[k].work
           counts == e.kind = "stake" \/ Recorded(e) \in rows
<1>3. /\ e.chain = c /\ TypeOK
      /\ old.logged = {e} /\ old.last = NoWork.last /\ old.acked = {}
      /\ old.applied = {} /\ old.rows = {}
  BY <1>1, <1>2 DEF Quiet, Contents, InTransaction, IndexerInv
<1>4. /\ \A l \in Conns \ {k} : conns'[l] = conns[l]
      /\ conns'[k].work.logged = {e} /\ conns'[k].work.last = NoWork.last
      /\ IF counts
         THEN conns'[k].work.applied = {e} /\ conns'[k].work.rows = {Recorded(e)}
         ELSE conns'[k].work = old
  BY <1>2, <1>3, SummaryConn
<1>5. conns'[k].work.acked = {}
  <2>1. conns \in [Conns -> Connection] /\ old \in WorkType
    BY TypeOKParts DEF IndexerInv, Typed, Connection
  <2>2. PICK work : /\ conns' = [conns EXCEPT ![k].queued = None, ![k].work = work]
                    /\ \/ work = old
                       \/ work = [old EXCEPT !.rows = @ \cup {Recorded(e)},
                                             !.applied = @ \cup {e},
                                             !.locked = @ \cup {Recorded(e)}]
    BY <1>2 DEF ChangeSummary
  <2>3. conns'[k].work = work
    BY <2>1, <2>2 DEF Connection
  <2>4. work.acked = old.acked
    BY <2>1, <2>2 DEF WorkType
  <2> QED
    BY <1>3, <2>3, <2>4
<1>6. /\ job' = [job EXCEPT ![c] = GoneOn(c, "commit")] /\ job'[c] = GoneOn(c, "commit")
      /\ GoneOn(c, "commit").pc = "commit" /\ GoneOn(c, "commit").conn = k
      /\ GoneOn(c, "commit").event = e
  BY <1>1, <1>2, GoOn DEF InTransaction
<1>7. \A d \in Chains \ {c} : job'[d] = job[d]
  BY <1>6
<1>8. Contents(c)'
  BY <1>2, <1>3, <1>4, <1>5, <1>6 DEF Contents
<1> QED
  BY <1>1, <1>2, <1>4, <1>6, <1>7, <1>8, QuietOwn

(* A failed statement leaves nothing behind.                               *)
LEMMA QuietStatementFails ==
  ASSUME IndexerInv, IndexerInv', Quiet, NEW c \in Chains, StatementFails(c)
  PROVE  Quiet'
<1>1. PICK k \in Conns, e \in Events : k = job[c].conn /\ e = job[c].event
  BY OwnConn DEF StatementFails, InTransaction
<1>2. /\ job[c].pc \in InTransaction /\ UNCHANGED <<head, asked, tables>>
      /\ Go(c, "rollback") /\ conns' = [conns EXCEPT ![k] = [Clean EXCEPT !.tx = "aborted"]]
  BY <1>1 DEF StatementFails, InTransaction
<1>3. e.chain = c /\ \A l \in Conns \ {k} : conns'[l] = conns[l]
  BY <1>1, <1>2, TypeOKParts DEF Quiet, Contents, IndexerInv, Typed
<1>4. /\ job' = [job EXCEPT ![c] = GoneOn(c, "rollback")]
      /\ job'[c] = GoneOn(c, "rollback")
      /\ GoneOn(c, "rollback").pc = "rollback" /\ GoneOn(c, "rollback").conn = k
      /\ GoneOn(c, "rollback").event = e
  BY <1>1, <1>2, GoOn DEF InTransaction
<1>5. \A d \in Chains \ {c} : job'[d] = job[d]
  BY <1>4
<1>6. Contents(c)'
  BY <1>3, <1>4 DEF Contents
<1> QED
  BY <1>1, <1>2, <1>3, <1>4, <1>5, <1>6, QuietOwn

(* COMMIT publishes an event with its summary, ROLLBACK neither.           *)
LEMMA QuietEnd ==
  ASSUME IndexerInv, IndexerInv', Quiet, NEW c \in Chains, Commit(c) \/ Rollback(c)
  PROVE  Quiet'
<1>1. PICK k \in Conns, e \in Events : k = job[c].conn /\ e = job[c].event
  BY OwnConn DEF Commit, Rollback, InTransaction
<1>2. NextEvent(c) /\ head' = head /\ job[c].pc \in InTransaction
  BY DEF Commit, Rollback, InTransaction
<1>3. /\ job' = [job EXCEPT ![c] = Done(c)] /\ job'[c] = Done(c) /\ Done(c).conn = None
      /\ conns'[k] = Clean /\ \A l \in Conns \ {k} : conns'[l] = conns[l]
  BY <1>1, <1>2, NextTables, NextEventSteps DEF Grows, IndexerInv, FaultyNext, Next, Steps
<1>4. job'[c].pc \notin InTransaction /\ \A d \in Chains \ {c} : job'[d] = job[d]
  BY <1>3, OwnersNext
<1>5. \A l \in Conns : Idle(l)' => conns'[l] = Clean
  <2> SUFFICES ASSUME NEW l \in Conns \ {k}, Idle(l)' PROVE conns'[l] = Clean
    BY <1>3
  <2>1. Idle(l)
    BY <1>1, <1>4 DEF Idle
  <2> QED
    BY <1>3, <2>1 DEF Quiet
<1>6. \A d \in Chains \ {c} : job[d].conn \in Conns => conns'[job[d].conn] = conns[job[d].conn]
  BY <1>1, <1>3, Owners
<1>7. ASSUME NEW f \in Events, f.chain # c
      PROVE  Recorded(f) \in rows' <=> Recorded(f) \in rows
  <2>1. CASE Rollback(c)
    BY <2>1 DEF Rollback
  <2>2. CASE Commit(c)
    <3>1. e.chain = c /\ (rows' = rows \/ rows' = rows \cup {Recorded(e)})
      BY <1>1, <2>2, CommitCalm
    <3> QED
      BY <1>7, <3>1, ChainsApart
  <2> QED
    BY <2>1, <2>2
<1>8. LoggedStakesAreApplied'
  <2>1. CASE Rollback(c)
    BY <2>1 DEF Rollback, Quiet, LoggedStakesAreApplied
  <2>2. CASE Commit(c)
    <3>1. /\ logged' = logged \cup {e} /\ \A f \in logged : Key(f) # Key(e)
          /\ IF e.kind = "stake" \/ Recorded(e) \in rows
             THEN applied' = [applied EXCEPT ![e] = @ + 1]
             ELSE UNCHANGED applied
      BY <1>1, <2>2, CommitCalm
    <3>2. e \notin logged /\ applied \in [Events -> Nat] /\ applied[e] = 0
      <4>1. e \notin logged
        BY <3>1
      <4>2. applied \in [Events -> Nat] /\ applied[e] <= 1 /\ applied[e] # 1
        BY <4>1 DEF IndexerInv, AppliedOnce, TypeOK
      <4>3. applied[e] \in Nat
        BY <4>2
      <4> QED
        BY <4>1, <4>2, <4>3
    <3>3. logged \subseteq Events
      BY DEF IndexerInv, TypeOK
    <3> QED
      BY <3>1, <3>2, <3>3 DEF Quiet, LoggedStakesAreApplied
  <2> QED
    BY <2>1, <2>2
<1> QED
  BY <1>4, <1>5, <1>6, <1>7, <1>8, QuietStep

-----------------------------------------------------------------------------
(***************************************************************************)
(* The summaries follow the log.                                           *)
(***************************************************************************)
LEMMA QuietNext ==
  ASSUME IndexerInv, IndexerInv', Quiet, [FaultyNext]_vars
  PROVE  Quiet'
<1>1. ASSUME NEW c \in Chains, Steps(c) PROVE Quiet'
  BY <1>1, QuietReads, QuietBegin, QuietInsert, QuietApply, QuietEnd DEF Steps
<1>2. ASSUME NEW c \in Chains,
             \/ StreamEnds(c) \/ RpcFails(c) \/ StatementFails(c)
             \/ \E k \in Conns : GetHead(c, k) \/ IdleTimer(c, k) \/ ReindexTimer(c, k)
      PROVE Quiet'
  BY <1>2, QuietReads, QuietTimers, QuietStatementFails
<1>3. ASSUME NEW c \in Chains, Mine(c) \/ RequestReindex(c) PROVE Quiet'
  BY <1>3, QuietOutside DEF Mine, RequestReindex
<1>4. ASSUME NEW c \in Chains, NEW k \in Conns PROVE ~StartFails(c, k) /\ ~RestartInSave(c, k)
  BY NothingLeft DEF StartFails, RestartInSave, Quiet
<1>5. ASSUME NEW k \in Conns PROVE ~Drain(k) /\ ~DrainFails(k)
  BY NothingLeft DEF Drain, DrainFails
<1>6. CASE Crash
  BY <1>6, QuietStartOver DEF Crash
<1>7. CASE UNCHANGED vars
  BY <1>7, QuietOutside DEF vars
<1> QED
  BY <1>1, <1>2, <1>3, <1>4, <1>5, <1>6, <1>7 DEF FaultyNext, Next, Faults

(* The initial states are quiet.                                           *)
LEMMA QuietInit == Init /\ ~CancelMidway => Quiet
  BY DEF Init, Quiet, Begun, InTransaction, LoggedStakesAreApplied

(* Without drops in the middle of transactions no logged stake misses in   *)
(* its summary, also when statements fail and the process dies.            *)
THEOREM LoggedStakesTheorem ==
  ASSUME ~CancelMidway
  PROVE  FaultySpec => []LoggedStakesAreApplied
<1>1. Init => Quiet
  BY QuietInit
<1>2. IndexerInv /\ IndexerInv' /\ Quiet /\ [FaultyNext]_vars => Quiet'
  BY QuietNext
<1>3. Quiet => LoggedStakesAreApplied
  BY DEF Quiet
<1> QED
  BY <1>1, <1>2, <1>3, Invariance, PTL DEF FaultySpec

-----------------------------------------------------------------------------
(***************************************************************************)
(* Checked blocks.                                                         *)
(***************************************************************************)
(* The tables grow, and a pending request is for a checked block.          *)
LEMMA TablesGrow ==
  ASSUME IndexerInv, Quiet, Ranges, [FaultyNext]_vars
  PROVE  /\ logged \subseteq logged'
         /\ \A c \in Chains : /\ last'[c] >= last[c] /\ request'[c] <= last'[c]
                              /\ last[c] \in Nat /\ last'[c] \in Nat
<1>1. logged \subseteq logged'
  BY CalmTables, SaveCalm, CommitCalm
<1>2. \A c \in Chains : last'[c] >= last[c] /\ last[c] \in Nat /\ last'[c] \in Nat
  BY NextTables DEF IndexerInv, TypeOK, TableTypes
<1>3. request \in [Chains -> 0..MaxBlock] /\ request' \in [Chains -> 0..MaxBlock]
  BY NextTables DEF IndexerInv, TypeOK, TableTypes
<1>4. \A c \in Chains : request'[c] \in {0, request[c]} \/ request'[c] <= last[c]
  <2>1. ASSUME NEW c \in Chains, RequestReindex(c)
        PROVE  \A d \in Chains : request'[d] = request[d] \/ request'[d] <= last[d]
    <3>1. PICK block \in 1..last[c] : request' = [request EXCEPT ![c] = block]
      BY <2>1 DEF RequestReindex
    <3> QED
      BY <1>2, <1>3, <3>1
  <2>2. ASSUME NEW c \in Chains, NEW k \in Conns, Acknowledge(c, k)
        PROVE  \A d \in Chains : request'[d] \in {0, request[d]}
    BY <2>2, AcknowledgeCalm
  <2>3. ASSUME NEW c \in Chains, NEW k \in Conns, Save(c, k) PROVE request' = request
    BY <2>3, SaveCalm
  <2>4. ASSUME NEW c \in Chains, Mine(c) \/ Commit(c) PROVE request' = request
    BY <2>4, CommitCalm DEF Mine
  <2>5. ASSUME NEW k \in Conns PROVE ~Drain(k)
    BY NothingLeft DEF Drain
  <2>6. CASE UNCHANGED vars
    BY <2>6 DEF vars
  <2> QED
    BY <2>1, <2>2, <2>3, <2>4, <2>5, <2>6, TablesKept
<1>5. \A c \in Chains : request[c] <= last[c]
  BY DEF Ranges
<1>6. ASSUME NEW c \in Chains PROVE request'[c] <= last'[c]
  <2>1. /\ request[c] \in Nat /\ request'[c] \in Nat
        /\ request'[c] \in {0, request[c]} \/ request'[c] <= last[c]
        /\ request[c] <= last[c]
        /\ last'[c] >= last[c] /\ last[c] \in Nat /\ last'[c] \in Nat
    BY <1>2, <1>3, <1>4, <1>5
  <2> QED
    BY <2>1
<1> QED
  BY <1>1, <1>2, <1>6

(* The end of the range may be saved: what lies before it is checked, what *)
(* lies in it is written.                                                  *)
LEMMA SaveChecks ==
  ASSUME IndexerInv, Quiet, Ranges, NEW c \in Chains, NEW k \in Conns, Save(c, k),
         NEW e \in Events, e.chain = c, e.block <= job[c].to
  PROVE  Written(e)
<1>1. job[c].pc = "route" /\ Pending(c) = {}
  BY DEF Save
<1>2. /\ ~job[c].watching /\ job[c].to < head[c] /\ job[c] \in Job
      /\ head[c] \in 1..MaxBlock /\ last[c] \in Nat
  BY <1>1, TypeOKParts DEF IndexerInv, JobInv, GoodJob, Typed, TableTypes
<1>3. GoodRange(c) /\ ReadsRange(c)
  BY <1>1, <1>2 DEF Ranges, ReadsRange
<1>4. /\ job[c].from \in Nat /\ job[c].to \in Nat /\ job[c].cursor \in Nat
      /\ e.block \in Nat /\ e.pos \in Nat
  BY <1>2, EventTypes DEF Job, Positions
<1>5. CASE e.block < job[c].from
  <2>1. e.block <= last[c]
    BY <1>2, <1>3, <1>4, <1>5 DEF GoodRange
  <2> QED
    BY <2>1 DEF Ranges, CheckedBlocksAreLogged
<1>6. CASE e.block >= job[c].from
  <2>1. InRange(e, c) /\ Smaller(job[c].to, head[c]) = job[c].to
    BY <1>2, <1>4, <1>6 DEF InRange, Smaller
  <2>2. e.pos <= job[c].cursor
    <3> SUFFICES ASSUME ~(e.pos <= job[c].cursor) PROVE e \in Pending(c)
      BY <1>1
    <3>1. e.pos > job[c].cursor
      BY <1>4
    <3> QED
      BY <1>2, <2>1, <3>1 DEF Pending, InRange
  <2> QED
    BY <1>3, <2>1, <2>2 DEF GoodRange
<1> QED
  BY <1>4, <1>5, <1>6

(* No step passes a block whose events are not logged.                     *)
LEMMA CheckedStays ==
  ASSUME IndexerInv, Quiet, Ranges, [FaultyNext]_vars
  PROVE  CheckedBlocksAreLogged'
<1>1. logged \subseteq logged'
  BY TablesGrow
<1>2. CASE last' = last
  BY <1>1, <1>2 DEF Ranges, CheckedBlocksAreLogged, Written
<1>3. ASSUME NEW c \in Chains, NEW k \in Conns, Save(c, k)
      PROVE  CheckedBlocksAreLogged'
  <2> SUFFICES ASSUME NEW e \in Events, e.block <= last'[e.chain] PROVE Written(e)'
    BY DEF CheckedBlocksAreLogged
  <2>1. /\ last' = [last EXCEPT ![c] = Larger(last[c], job[c].to)]
        /\ last \in [Chains -> 0..MaxBlock]
    BY <1>3, SaveCalm DEF IndexerInv, TypeOK
  <2>2. e.block <= last[e.chain] \/ (e.chain = c /\ e.block <= job[c].to)
    BY <2>1 DEF Larger
  <2>3. Written(e)
    BY <1>3, <2>2, SaveChecks DEF Ranges, CheckedBlocksAreLogged
  <2> QED
    BY <1>1, <2>3 DEF Written
<1>4. ASSUME NEW c \in Chains, Commit(c) PROVE last' = last
  BY <1>4, CommitCalm
<1> QED
  BY <1>2, <1>3, <1>4, CalmTables

(* An indexer that stays where it is.                                      *)
LEMMA RangeStays ==
  ASSUME IndexerInv, Ranges, NEW c \in Chains,
         logged \subseteq logged', last'[c] >= last[c], last[c] \in Nat, last'[c] \in Nat,
         job'[c].pc = job[c].pc, job'[c].watching = job[c].watching,
         job'[c].event = job[c].event, job'[c].from = job[c].from,
         job'[c].to = job[c].to, job'[c].cursor = job[c].cursor
  PROVE  GoodRange(c)'
<1>1. GoodRange(c) /\ job[c].from \in Nat
  BY TypeOKParts DEF Ranges, IndexerInv, Typed, Job
<1>2. ReadsRange(c)' <=> ReadsRange(c)
  BY DEF ReadsRange
<1>3. \A e : InRange(e, c)' <=> InRange(e, c)
  BY DEF InRange
<1>4. \A e : Written(e) => Written(e)'
  BY DEF Written
<1>5. job[c].from <= last[c] + 1 => job'[c].from <= last'[c] + 1
  BY <1>1
<1> QED
  BY <1>1, <1>2, <1>3, <1>4, <1>5 DEF GoodRange

(* A step of one indexer keeps Ranges when its own range stays good.       *)
LEMMA RangesStep ==
  ASSUME IndexerInv, Quiet, Ranges, [FaultyNext]_vars, NEW c \in Chains,
         \A d \in Chains \ {c} : job'[d] = job[d], GoodRange(c)'
  PROVE  Ranges'
<1>1. \A d \in Chains \ {c} : GoodRange(d)'
  BY RangeStays, TablesGrow
<1> QED
  BY <1>1, TablesGrow, CheckedStays DEF Ranges

(* A step that moves no indexer keeps Ranges.                              *)
LEMMA RangesSame ==
  ASSUME IndexerInv, Quiet, Ranges, [FaultyNext]_vars, job' = job
  PROVE  Ranges'
<1>1. \A d \in Chains : GoodRange(d)'
  BY RangeStays, TablesGrow
<1> QED
  BY <1>1, TablesGrow, CheckedStays DEF Ranges

(* An indexer that reads no range.                                         *)
LEMMA NoRange ==
  ASSUME NEW c \in Chains, job'[c].pc \in {"start", "latest", "watch", "ended"}
  PROVE  GoodRange(c)'
BY DEF GoodRange, ReadsRange, InTransaction

(* Where a range starts.                                                   *)
LEMMA RangeStarts ==
  ASSUME IndexerInv, Quiet, Ranges, [FaultyNext]_vars, NEW c \in Chains, NEW k \in Conns,
         \/ GetRequested(c, k) \/ GetLatest(c, k) \/ GetHead(c, k)
         \/ HeadFails(c, k) \/ Acknowledge(c, k)
  PROVE  Ranges'
<1>1. /\ job \in [Chains -> Job] /\ request \in [Chains -> 0..MaxBlock]
      /\ last \in [Chains -> 0..MaxBlock] /\ GoodRange(c) /\ request[c] <= last[c]
  BY TypeOKParts DEF IndexerInv, Typed, TableTypes, Ranges
<1>2. last' = last
  BY AcknowledgeCalm DEF GetRequested, GetLatest, GetHead, HeadFails, StartAt
<1>3. CASE GetRequested(c, k)
  <2>1. conns[k].work = NoWork
    BY <1>3, NothingLeft DEF GetRequested
  <2>2. Requested(k, c) = request[c]
    BY <2>1, WorkTypes DEF Requested
  <2>3. /\ job'[c].pc \in {"ack", "latest"} /\ job'[c].from = request[c]
        /\ \A d \in Chains \ {c} : job'[d] = job[d]
    BY <1>1, <1>3, <2>2 DEF GetRequested, Job
  <2>4. request[c] <= last[c] + 1
    BY <1>1
  <2>5. GoodRange(c)'
    BY <1>2, <2>3, <2>4 DEF GoodRange, ReadsRange, InTransaction
  <2> QED
    BY <2>3, <2>5, RangesStep
<1>4. CASE GetLatest(c, k)
  <2>1. conns[k].work = NoWork
    BY <1>4, NothingLeft DEF GetLatest
  <2>2. Checked(k, c) = last[c]
    BY <1>1, <2>1, WorkTypes DEF Checked, Larger
  <2>3. /\ job'[c].pc = "head" /\ job'[c].from = last[c] + 1
        /\ \A d \in Chains \ {c} : job'[d] = job[d]
    BY <1>1, <1>4, <2>2 DEF GetLatest, Job
  <2>4. last[c] + 1 <= last[c] + 1
    BY <1>1
  <2>5. GoodRange(c)'
    BY <1>2, <2>3, <2>4 DEF GoodRange, ReadsRange, InTransaction
  <2> QED
    BY <2>3, <2>5, RangesStep
<1>5. CASE GetHead(c, k) \/ HeadFails(c, k)
  <2>1. /\ job[c].pc = "head" /\ job'[c].pc = "range" /\ job'[c].from = job[c].from
        /\ \A d \in Chains \ {c} : job'[d] = job[d]
    BY <1>1, <1>5 DEF GetHead, HeadFails, StartAt, Job
  <2>2. GoodRange(c)'
    BY <1>1, <1>2, <2>1 DEF GoodRange, ReadsRange, InTransaction
  <2> QED
    BY <2>1, <2>2, RangesStep
<1>6. CASE Acknowledge(c, k)
  <2>1. /\ job[c].pc = "ack" /\ job'[c].pc = "head" /\ job'[c].from = job[c].from
        /\ \A d \in Chains \ {c} : job'[d] = job[d]
    BY <1>1, <1>6 DEF Acknowledge, Go, Job
  <2>2. GoodRange(c)'
    BY <1>1, <1>2, <2>1 DEF GoodRange, ReadsRange, InTransaction
  <2> QED
    BY <2>1, <2>2, RangesStep
<1> QED
  BY <1>3, <1>4, <1>5, <1>6

(* The start of a range, its end, and the watch of new logs.               *)
LEMMA RangeMoves ==
  ASSUME IndexerInv, Quiet, Ranges, [FaultyNext]_vars, NEW c \in Chains,
         \/ QueryRange(c) \/ Watch(c) \/ StreamEnds(c) \/ \E k \in Conns : Save(c, k)
  PROVE  Ranges'
<1>1. /\ job \in [Chains -> Job] /\ last \in [Chains -> 0..MaxBlock] /\ GoodRange(c)
  BY TypeOKParts DEF IndexerInv, Typed, TableTypes, Ranges
<1>2. CASE QueryRange(c)
  <2>1. /\ job[c].pc = "range" /\ job'[c].pc = "route" /\ job'[c].from = job[c].from
        /\ job'[c].cursor = 0 /\ last' = last
        /\ \A d \in Chains \ {c} : job'[d] = job[d]
    BY <1>1, <1>2 DEF QueryRange, Job
  <2>2. \A e \in Events : ~(e.pos <= 0)
    BY EventTypes
  <2>3. GoodRange(c)'
    BY <1>1, <2>1, <2>2 DEF GoodRange, ReadsRange, InTransaction
  <2> QED
    BY <2>1, <2>3, RangesStep
<1>3. CASE Watch(c)
  <2>1. PICK since :
          job' = [job EXCEPT ![c] = [Begun EXCEPT !.pc = "watch", !.watching = TRUE,
                                       !.since = since, !.counted = job[c].counted]]
    BY <1>3 DEF Watch
  <2>2. job'[c].pc = "watch" /\ \A d \in Chains \ {c} : job'[d] = job[d]
    BY <1>1, <2>1 DEF Begun
  <2> QED
    BY <2>2, NoRange, RangesStep
<1>4. CASE StreamEnds(c)
  <2>1. job'[c].pc = "ended" /\ \A d \in Chains \ {c} : job'[d] = job[d]
    BY <1>1, <1>4 DEF StreamEnds, Go, Job
  <2> QED
    BY <2>1, NoRange, RangesStep
<1>5. ASSUME NEW k \in Conns, Save(c, k) PROVE Ranges'
  <2>1. /\ job'[c].pc = "range" /\ job'[c].from = job[c].to + 1
        /\ \A d \in Chains \ {c} : job'[d] = job[d]
    BY <1>1, <1>5 DEF Save, Job
  <2>2. job[c].to + 1 <= last'[c] + 1
    <3>1. last'[c] = Larger(last[c], job[c].to) /\ job[c].to \in Nat
      BY <1>1, <1>5, SaveCalm DEF Job
    <3> QED
      BY <1>1, <3>1 DEF Larger
  <2>3. GoodRange(c)'
    BY <2>1, <2>2 DEF GoodRange, ReadsRange, InTransaction
  <2> QED
    BY <2>1, <2>3, RangesStep
<1> QED
  BY <1>2, <1>3, <1>4, <1>5

(* A restart goes back to a block at most one past the last saved one.     *)
LEMMA RangeRestarts ==
  ASSUME IndexerInv, Quiet, Ranges, [FaultyNext]_vars, NEW c \in Chains,
         RpcFails(c) \/ \E k \in Conns : IdleTimer(c, k) \/ ReindexTimer(c, k)
  PROVE  Ranges'
<1>1. job \in [Chains -> Job]
  BY TypeOKParts DEF IndexerInv, Typed
<1>2. CASE Restart(c)
  <2>1. job'[c].pc = "start" /\ \A d \in Chains \ {c} : job'[d] = job[d]
    BY <1>1, <1>2 DEF Restart, Begun
  <2> QED
    BY <2>1, NoRange, RangesStep
<1>3. ASSUME NEW k \in Conns, IdleTimer(c, k), ~Restart(c) PROVE Ranges'
  <2>1. job' = [job EXCEPT ![c].counted = Cardinality(EventsSeen(k, c))]
    BY <1>3 DEF IdleTimer
  <2>2. /\ \A d \in Chains \ {c} : job'[d] = job[d]
        /\ job'[c].pc = job[c].pc /\ job'[c].watching = job[c].watching
        /\ job'[c].event = job[c].event /\ job'[c].from = job[c].from
        /\ job'[c].to = job[c].to /\ job'[c].cursor = job[c].cursor
    BY <1>1, <2>1 DEF Job
  <2>3. GoodRange(c)'
    BY <2>2, RangeStays, TablesGrow
  <2> QED
    BY <2>2, <2>3, RangesStep
<1>4. RpcFails(c) \/ (\E k \in Conns : ReindexTimer(c, k)) => Restart(c)
  BY DEF RpcFails, ReindexTimer
<1> QED
  BY <1>2, <1>3, <1>4

(* The event an indexer begins with is the first it has not passed.        *)
LEMMA RangeBegin ==
  ASSUME IndexerInv, Quiet, Ranges, [FaultyNext]_vars, NEW c \in Chains, NEW k \in Conns,
         Begin(c, k)
  PROVE  Ranges'
<1>1. /\ job \in [Chains -> Job] /\ Idle(k) /\ UNCHANGED <<head, tables>>
      /\ head[c] \in 1..MaxBlock
      /\ GoodRange(c) /\ GoodJob(c) /\ job[c].pc \in {"route", "watch"}
  BY TypeOKParts DEF IndexerInv, JobInv, Typed, TableTypes, Ranges, Begin
<1>2. conns[k].tx = "none"
  BY <1>1, NothingLeft
<1>3. PICK e \in Events :
        /\ Earliest(e, Pending(c))
        /\ job' = [job EXCEPT ![c].pc = "insert", ![c].conn = k, ![c].event = e]
  BY <1>2 DEF Begin
<1>4. /\ \A d \in Chains \ {c} : job'[d] = job[d]
      /\ job'[c].pc = "insert" /\ job'[c].event = e
      /\ job'[c].watching = job[c].watching /\ job'[c].from = job[c].from
      /\ job'[c].to = job[c].to /\ job'[c].cursor = job[c].cursor
  BY <1>1, <1>3 DEF Job
<1>5. CASE job[c].watching
  <2>1. GoodRange(c)'
    BY <1>4, <1>5 DEF GoodRange, ReadsRange
  <2> QED
    BY <1>4, <2>1, RangesStep
<1>6. CASE ~job[c].watching
  <2>1. job[c].pc = "route" /\ ReadsRange(c) /\ job[c].to < head[c]
    BY <1>1, <1>6 DEF GoodJob, ReadsRange
  <2>2. job[c].to \in Nat /\ job[c].cursor \in Nat
    BY <1>1, EventTypes DEF Job, Positions
  <2>3. Smaller(job[c].to, head[c]) = job[c].to
    BY <1>1, <2>1, <2>2 DEF Smaller
  <2>4. ASSUME NEW f \in Events, InRange(f, c), f.pos < e.pos
        PROVE  f.pos <= job[c].cursor
    <3> SUFFICES ASSUME ~(f.pos <= job[c].cursor) PROVE FALSE
      OBVIOUS
    <3>1. f.pos \in Nat /\ e.pos \in Nat
      BY EventTypes
    <3>2. f \in Pending(c)
      BY <1>6, <2>2, <2>3, <2>4, <3>1 DEF Pending, InRange
    <3>3. e.pos <= f.pos
      BY <1>3, <3>2 DEF Earliest
    <3> QED
      BY <2>4, <3>1, <3>3
  <2>5. \A f : InRange(f, c)' <=> InRange(f, c)
    BY <1>4 DEF InRange
  <2>6. \A f : Written(f)' <=> Written(f)
    BY <1>1 DEF Written
  <2>7. GoodRange(c)'
    BY <1>1, <1>4, <2>1, <2>4, <2>5, <2>6 DEF GoodRange, ReadsRange, InTransaction
  <2> QED
    BY <1>4, <2>7, RangesStep
<1> QED
  BY <1>5, <1>6

(* The statements of a transaction keep the range.                         *)
LEMMA RangeStages ==
  ASSUME IndexerInv, Quiet, Ranges, [FaultyNext]_vars, NEW c \in Chains,
         Insert(c) \/ Apply(c)
  PROVE  Ranges'
<1>1. PICK k \in Conns, e \in Events : k = job[c].conn /\ e = job[c].event
  BY OwnConn DEF Insert, Apply, InTransaction
<1>2. /\ job[c].pc \in InTransaction \ {"rollback"} /\ UNCHANGED <<head, tables>>
  BY DEF Insert, Apply, InTransaction
<1>3. PICK stage \in {"rollback", "apply", "commit"} :
        Go(c, stage) /\ (stage = "rollback" => Written(e))
  <2>1. CASE Apply(c)
    BY <2>1 DEF Apply
  <2>2. CASE Insert(c)
    <3>1. Go(c, IF Duplicate(k, e) THEN "rollback" ELSE "apply")
      BY <1>1, <2>2 DEF Insert
    <3>2. conns[k].work.logged = {}
      BY <1>1, <2>2, WorkTypes DEF Insert, Quiet, Contents, InTransaction
    <3>3. Duplicate(k, e) => Written(e)
      BY <3>2 DEF Duplicate, Written
    <3> QED
      BY <3>1, <3>3
  <2> QED
    BY <2>1, <2>2
<1>4. /\ job' = [job EXCEPT ![c] = GoneOn(c, stage)] /\ job'[c] = GoneOn(c, stage)
      /\ GoneOn(c, stage).pc = stage /\ GoneOn(c, stage).event = e
      /\ GoneOn(c, stage).watching = job[c].watching
      /\ GoneOn(c, stage).from = job[c].from /\ GoneOn(c, stage).to = job[c].to
  BY <1>1, <1>2, <1>3, GoOn DEF InTransaction
<1>5. GoneOn(c, stage).cursor = job[c].cursor
  BY TypeOKParts DEF GoneOn, IndexerInv, Typed, Job
<1> HIDE DEF GoneOn
<1>6. \A d \in Chains \ {c} : job'[d] = job[d]
  BY <1>4
<1>7. \A f : (InRange(f, c)' <=> InRange(f, c)) /\ (Written(f)' <=> Written(f))
  BY <1>2, <1>4 DEF InRange, Written
<1>8. GoodRange(c)'
  <2>1. GoodRange(c)
    BY DEF Ranges
  <2> QED
    BY <1>1, <1>2, <1>3, <1>4, <1>5, <1>7, <2>1 DEF GoodRange, ReadsRange, InTransaction
<1> QED
  BY <1>6, <1>8, RangesStep

(* An event that was committed, or found in the table, is passed.          *)
LEMMA RangeEnds ==
  ASSUME IndexerInv, Quiet, Ranges, [FaultyNext]_vars, NEW c \in Chains,
         Commit(c) \/ Rollback(c)
  PROVE  Ranges'
<1>1. PICK k \in Conns, e \in Events : k = job[c].conn /\ e = job[c].event
  BY OwnConn DEF Commit, Rollback, InTransaction
<1>2. NextEvent(c) /\ head' = head /\ job[c].pc \in InTransaction
  BY DEF Commit, Rollback, InTransaction
<1>3. /\ job \in [Chains -> Job] /\ GoodRange(c) /\ Contents(c)
  BY <1>2, TypeOKParts DEF IndexerInv, Typed, Ranges, Quiet
<1>4. /\ \A d \in Chains \ {c} : job'[d] = job[d]
      /\ job'[c].pc = Back(c) /\ job'[c].watching = job[c].watching
      /\ job'[c].from = job[c].from /\ job'[c].to = job[c].to
      /\ job'[c].cursor = e.pos
  BY <1>1, <1>2, <1>3 DEF NextEvent, Job
<1>5. last' = last /\ logged \subseteq logged'
  BY CommitCalm, TablesGrow DEF Rollback
<1>6. CASE job[c].watching
  <2>1. job'[c].pc = "watch"
    BY <1>4, <1>6 DEF Back
  <2> QED
    BY <1>4, <2>1, NoRange, RangesStep
<1>7. CASE ~job[c].watching
  <2>1. Written(e)'
    <3>1. CASE Rollback(c)
      BY <1>1, <1>3, <1>5, <3>1 DEF Rollback, GoodRange, Written
    <3>2. CASE Commit(c)
      BY <1>1, <3>2, CommitCalm DEF Written
    <3> QED
      BY <3>1, <3>2
  <2>2. ASSUME NEW f \in Events, InRange(f, c)', f.pos <= e.pos PROVE Written(f)'
    <3>1. InRange(f, c) /\ ReadsRange(c)
      BY <1>2, <1>4, <1>7, <2>2 DEF InRange, ReadsRange
    <3>2. f.chain = e.chain
      BY <1>1, <1>3, <3>1 DEF InRange, Contents
    <3>3. f.pos \in Nat /\ e.pos \in Nat
      BY EventTypes
    <3>4. CASE f.pos = e.pos
      BY <2>1, <3>2, <3>4
    <3>5. CASE f.pos < e.pos
      <4>1. f.pos <= job[c].cursor
        BY <1>1, <1>2, <1>3, <3>1, <3>5 DEF GoodRange
      <4>2. Written(f)
        BY <1>3, <3>1, <4>1 DEF GoodRange
      <4> QED
        BY <1>5, <4>2 DEF Written
    <3> QED
      BY <2>2, <3>3, <3>4, <3>5
  <2>3. job'[c].pc = "route" /\ job'[c].from <= last'[c] + 1
    BY <1>2, <1>3, <1>4, <1>5, <1>7 DEF Back, GoodRange, ReadsRange
  <2>4. GoodRange(c)'
    BY <1>4, <2>2, <2>3 DEF GoodRange, InTransaction
  <2> QED
    BY <1>4, <2>4, RangesStep
<1> QED
  BY <1>6, <1>7

(* Ranges is inductive.                                                    *)
LEMMA RangesNext ==
  ASSUME IndexerInv, Quiet, Ranges, [FaultyNext]_vars
  PROVE  Ranges'
<1>1. ASSUME NEW c \in Chains, Steps(c) PROVE Ranges'
  BY <1>1, RangeStarts, RangeMoves, RangeBegin, RangeStages, RangeEnds DEF Steps
<1>2. ASSUME NEW c \in Chains,
             \/ StreamEnds(c) \/ RpcFails(c)
             \/ \E k \in Conns : GetHead(c, k) \/ IdleTimer(c, k) \/ ReindexTimer(c, k)
      PROVE Ranges'
  BY <1>2, RangeStarts, RangeMoves, RangeRestarts
<1>3. ASSUME NEW c \in Chains, Mine(c) \/ RequestReindex(c) PROVE Ranges'
  BY <1>3, RangesSame DEF Mine, RequestReindex
<1>4. ASSUME NEW c \in Chains
      PROVE  ~StatementFails(c) /\ \A k \in Conns : ~StartFails(c, k) /\ ~RestartInSave(c, k)
  BY NothingLeft DEF StartFails, RestartInSave, StatementFails, Quiet, Ranges
<1>5. ASSUME NEW k \in Conns PROVE ~Drain(k) /\ ~DrainFails(k)
  BY NothingLeft DEF Drain, DrainFails
<1>6. CASE Crash
  <2>1. \A c \in Chains : job'[c].pc = "start"
    BY <1>6, NewPool DEF Crash, Begun
  <2>2. \A c \in Chains : GoodRange(c)'
    BY <2>1, NoRange
  <2> QED
    BY <2>2, TablesGrow, CheckedStays DEF Ranges
<1>7. CASE UNCHANGED vars
  BY <1>7, RangesSame DEF vars
<1> QED
  BY <1>1, <1>2, <1>3, <1>4, <1>5, <1>6, <1>7 DEF FaultyNext, Next, Faults

(* The initial states have no checked block.                               *)
LEMMA RangesInit == Init /\ ~MayError => Ranges
<1> SUFFICES ASSUME Init, ~MayError PROVE Ranges
  OBVIOUS
<1>1. CheckedBlocksAreLogged
  BY EventTypes DEF Init, CheckedBlocksAreLogged
<1>2. \A c \in Chains : request[c] <= last[c] /\ GoodRange(c)
  BY DEF Init, Begun, GoodRange, ReadsRange, InTransaction
<1> QED
  BY <1>1, <1>2 DEF Ranges

(* When, besides, no statement fails, a block that is called checked has   *)
(* all its events in the table, though the process dies, requests to the   *)
(* node fail, streams end and blocks are indexed again.                    *)
THEOREM CheckedBlocksTheorem ==
  ASSUME ~CancelMidway, ~MayError
  PROVE  FaultySpec => []CheckedBlocksAreLogged
<1>1. Init => Quiet /\ Ranges
  BY QuietInit, RangesInit
<1>2. IndexerInv /\ IndexerInv' /\ Quiet /\ Ranges /\ [FaultyNext]_vars => Quiet' /\ Ranges'
  BY QuietNext, RangesNext
<1>3. Ranges => CheckedBlocksAreLogged
  BY DEF Ranges
<1> QED
  BY <1>1, <1>2, <1>3, Invariance, PTL DEF FaultySpec

-----------------------------------------------------------------------------
(***************************************************************************)
(* The ledger.                                                             *)
(***************************************************************************)
LEMMA LedgerInit == Init => Ledger!Init
  BY DEF Init, Ledger!Init

(* A commit is a step of the ledger, a saved range is one that checks, or  *)
(* repeats what is checked, and nothing else shows.                        *)
LEMMA LedgerNext ==
  ASSUME IndexerInv, Quiet, Ranges, [FaultyNext]_vars
  PROVE  [Ledger!Next]_<<last, logged, rows, applied>>
<1>1. ASSUME NEW c \in Chains, Commit(c) PROVE Ledger!Next
  <2>1. PICK e \in Events : e = job[c].event
    BY <1>1, CommitCalm
  <2>2. /\ \A f \in logged : Key(f) # Key(e)
        /\ last' = last /\ logged' = logged \cup {e}
        /\ IF e.kind = "stake" \/ Recorded(e) \in rows
           THEN /\ rows' = rows \cup {Recorded(e)}
                /\ applied' = [applied EXCEPT ![e] = @ + 1]
           ELSE UNCHANGED <<rows, applied>>
    BY <1>1, <2>1, CommitCalm
  <2>3. applied \in [Events -> Nat]
    BY DEF IndexerInv, TypeOK
  <2>4. Ledger!Record(e)
    BY <2>2, <2>3 DEF Ledger!Record
  <2> QED
    BY <2>4 DEF Ledger!Next
<1>2. ASSUME NEW c \in Chains, NEW k \in Conns, Save(c, k)
      PROVE  Ledger!Next \/ UNCHANGED <<last, logged, rows, applied>>
  <2>1. /\ UNCHANGED <<logged, rows, applied>>
        /\ last' = [last EXCEPT ![c] = Larger(last[c], job[c].to)]
        /\ last \in [Chains -> 0..MaxBlock] /\ job[c].to \in Nat
    BY <1>2, SaveCalm, TypeOKParts DEF IndexerInv, TableTypes, Typed, Job
  <2>2. last'[c] = Larger(last[c], job[c].to)
    BY <2>1
  <2>3. CASE job[c].to > last[c]
    <3>1. last' = [last EXCEPT ![c] = last'[c]] /\ last'[c] > last[c]
      BY <2>1, <2>2, <2>3 DEF Larger
    <3>2. \A e \in Events :
            e.chain = c /\ e.block <= last'[c] => \E f \in logged : Key(f) = Key(e)
      BY <2>1, CheckedStays DEF CheckedBlocksAreLogged, Written
    <3>3. Ledger!Check(c)
      BY <2>1, <3>1, <3>2 DEF Ledger!Check
    <3> QED
      BY <3>3 DEF Ledger!Next
  <2>4. CASE ~(job[c].to > last[c])
    <3>1. Larger(last[c], job[c].to) = last[c]
      BY <2>1, <2>4 DEF Larger
    <3> QED
      BY <2>1, <3>1
  <2> QED
    BY <2>3, <2>4
<1> QED
  BY <1>1, <1>2, CalmTables

(* The tables of the indexers go through the states of the ledger.         *)
THEOREM LedgerTheorem ==
  ASSUME ~CancelMidway, ~MayError
  PROVE  FaultySpec => LedgerSpec
<1>1. Init => Quiet /\ Ranges
  BY QuietInit, RangesInit
<1>2. IndexerInv /\ IndexerInv' /\ Quiet /\ Ranges /\ [FaultyNext]_vars => Quiet' /\ Ranges'
  BY QuietNext, RangesNext
<1>3. IndexerInv /\ Quiet /\ Ranges /\ [FaultyNext]_vars
        => [Ledger!Next]_<<last, logged, rows, applied>>
  BY LedgerNext
<1> QED
  BY <1>1, <1>2, <1>3, LedgerInit, Invariance, PTL DEF FaultySpec, LedgerSpec, Ledger!Spec
=============================================================================
