---------------------------- MODULE StakeIndexer ----------------------------
(***************************************************************************)
(* The staking indexers (src/indexer/src/unified_indexer.rs and            *)
(* postgres.rs).  There is one for each chain, all share a connection      *)
(* pool.  An indexer asks the node for the staking events of the blocks it *)
(* has not checked, in ranges, then watches for new ones.  For each event  *)
(* a transaction inserts a row into stake_stakeevent and changes the       *)
(* summary of the stake in stake_stake.                                    *)
(*                                                                         *)
(* Beside it run two timers.  When one of them, or the indexer, returns an *)
(* error, try_join drops the other two wherever they wait, and the indexer *)
(* starts over.  A dropped transaction is neither committed nor rolled     *)
(* back: its connection goes back to the pool as it is (RecyclingMethod    *)
(* Fast), and the next user's statements run inside it.                    *)
(*                                                                         *)
(* An amount is represented by the events that were added up to it.        *)
(***************************************************************************)
EXTENDS Integers, FiniteSets

CONSTANTS
  Chains,
  Conns,         \* the connections of the pool
  Events,        \* the staking events of all chains
  MaxBlock,      \* bound on the blocks of a chain
  QueryBlocks,   \* blocks of a query (500)
  MaxRequests,   \* bound on the reindex requests of a chain
  CancelMidway,  \* whether a timer may fire in the middle of a transaction
  MayError,      \* whether a statement of a transaction may fail
  MayCrash,      \* whether the process may die
  None

Kinds == {"stake", "withdraw", "slash", "release"}

ASSUME IndexerAssumption ==
  /\ \A e \in Events :
       /\ e.chain \in Chains /\ e.kind \in Kinds
       /\ e.block \in 1..MaxBlock /\ e.pos \in Nat \ {0}
  /\ \A e, f \in Events : e.chain = f.chain /\ e.pos < f.pos => e.block <= f.block
  /\ \A e, f \in Events : e.chain = f.chain /\ e.pos = f.pos => e = f
  /\ IsFiniteSet(Events)
  /\ MaxBlock \in Nat \ {0} /\ QueryBlocks \in Nat \ {0} /\ MaxRequests \in Nat
  /\ CancelMidway \in BOOLEAN /\ MayError \in BOOLEAN /\ MayCrash \in BOOLEAN
  /\ None \notin Events \cup Conns

VARIABLES
  head,     \* the newest block of each chain
  asked,    \* how often a reindex was requested
  request,  \* start_block_number of the pending ReindexRequest, or 0
  last,     \* stake_lastblock, 0 when there is no row
  logged,   \* stake_stakeevent
  rows,     \* stakes that have a row in stake_stake
  applied,  \* how often each event was added to the amount of its row
  conns,    \* state of each connection
  job       \* state of each indexer

tables == <<request, last, logged, rows, applied>>
vars   == <<head, asked, tables, conns, job>>

(* The summary an event is about, the one the handlers change, and the     *)
(* unique key of stake_stakeevent.  process_slash_event and                *)
(* process_release_event pass the staker for both parties.                 *)
Stake(e) == <<e.chain, e.staker, e.stakee>>
RecordedStakee(e) == IF e.kind \in {"slash", "release"} THEN e.staker ELSE e.stakee
Recorded(e) == <<e.chain, e.staker, RecordedStakee(e)>>
Key(e) == <<e.tx, e.chain, RecordedStakee(e)>>
Stakes == {Stake(e) : e \in Events} \cup {Recorded(e) : e \in Events}

(* What the open transaction of a connection has written.                  *)
NoWork == [logged |-> {}, rows |-> {}, applied |-> {}, locked |-> {},
           last |-> [c \in Chains |-> 0], acked |-> {}]
WorkType ==
  [logged: SUBSET Events, rows: SUBSET Stakes, applied: SUBSET Events,
   locked: SUBSET Stakes, last: [Chains -> 0..MaxBlock], acked: SUBSET Chains]

(* A statement that was sent, waits for a lock, and whose sender is gone.   *)
Sent ==
  ({"insert", "apply"} \X Events) \cup ({"save"} \X Chains \X (1..MaxBlock))

Clean == [tx |-> "none", work |-> NoWork, queued |-> None]

Begun == [pc |-> "start", conn |-> None, event |-> None, watching |-> FALSE,
          from |-> 0, to |-> 0, current |-> 0, cursor |-> 0, since |-> 0,
          counted |-> 0]

InTransaction == {"insert", "apply", "commit", "rollback"}
Stages == {"start", "ack", "latest", "head", "range", "route", "watch", "ended"}
            \cup InTransaction
Positions == {e.pos : e \in Events} \cup {0}

TypeOK ==
  /\ head \in [Chains -> 1..MaxBlock]
  /\ asked \in [Chains -> 0..MaxRequests]
  /\ request \in [Chains -> 0..MaxBlock]
  /\ last \in [Chains -> 0..MaxBlock]
  /\ logged \in SUBSET Events
  /\ rows \in SUBSET Stakes
  /\ applied \in [Events -> Nat]
  /\ conns \in [Conns -> [tx: {"none", "open", "aborted"}, work: WorkType,
                          queued: Sent \cup {None}]]
  /\ job \in [Chains ->
       [pc: Stages, conn: Conns \cup {None}, event: Events \cup {None},
        watching: BOOLEAN, from: 0..MaxBlock + 1, to: 0..MaxBlock,
        current: 0..MaxBlock + 1, cursor: Positions, since: 0..MaxBlock,
        counted: Nat]]
  /\ \A c \in Chains : last[c] < head[c]

Init ==
  /\ head = [c \in Chains |-> 1]
  /\ asked = [c \in Chains |-> 0]
  /\ request = [c \in Chains |-> 0]
  /\ last = [c \in Chains |-> 0]
  /\ logged = {}
  /\ rows = {}
  /\ applied = [e \in Events |-> 0]
  /\ conns = [k \in Conns |-> Clean]
  /\ job = [c \in Chains |-> Begun]

-----------------------------------------------------------------------------
Larger(m, n) == IF m > n THEN m ELSE n
Smaller(m, n) == IF m < n THEN m ELSE n

Idle(k) == \A c \in Chains : job[c].conn # k

(* A connection that answers: a statement that was sent before the sender  *)
(* was dropped comes first, and in an aborted transaction all fail.        *)
Usable(k) == conns[k].queued = None /\ conns[k].tx # "aborted"

Others(k) == Conns \ {k}

(* The rows a transaction holds: another one that wants them waits.        *)
LastIsLocked(k, c) == \E l \in Others(k) : conns[l].work.last[c] > 0
RequestIsLocked(k, c) == \E l \in Others(k) : c \in conns[l].work.acked
KeyIsLocked(k, e) ==
  \E l \in Others(k) : \E f \in conns[l].work.logged : Key(f) = Key(e)
StakeIsLocked(k, e) ==
  /\ e.kind = "stake" \/ Recorded(e) \in rows
  /\ \E l \in Others(k) : Recorded(e) \in conns[l].work.locked

(* Plausible bug: the upsert overwrites the block number.                  *)
PublishLastOverwrites(work) ==
  /\ request' = [c \in Chains |-> IF c \in work.acked THEN 0 ELSE request[c]]
  /\ last' = [c \in Chains |-> IF work.last[c] > 0 THEN work.last[c] ELSE last[c]]
  /\ logged' = logged \cup work.logged
  /\ rows' = rows \cup work.rows
  /\ applied' = [e \in Events |-> applied[e] + (IF e \in work.applied THEN 1 ELSE 0)]

(* What a commit makes visible.  stake_lastblock keeps the greatest.       *)
Publish(work) ==
  /\ request' = [c \in Chains |-> IF c \in work.acked THEN 0 ELSE request[c]]
  /\ last' = [c \in Chains |-> Larger(last[c], work.last[c])]
  /\ logged' = logged \cup work.logged
  /\ rows' = rows \cup work.rows
  /\ applied' = [e \in Events |-> applied[e] + (IF e \in work.applied THEN 1 ELSE 0)]

(* A statement outside a transaction of its own: it commits by itself,     *)
(* unless the connection was returned with a transaction open.             *)
Execute(k, work) ==
  IF conns[k].tx = "open"
  THEN conns' = [conns EXCEPT ![k].work = work] /\ UNCHANGED tables
  ELSE Publish(work) /\ UNCHANGED conns

Go(c, stage) == job' = [job EXCEPT ![c].pc = stage]

(* The error that ends the whole join, and main's loop with a new pool.    *)
AllStartOver ==
  /\ conns' = [k \in Conns |-> Clean]
  /\ job' = [c \in Chains |-> Begun]

-----------------------------------------------------------------------------
(***************************************************************************)
(* get_query_start_block.                                                  *)
(***************************************************************************)
Requested(k, c) == IF c \in conns[k].work.acked THEN 0 ELSE request[c]
Checked(k, c) == Larger(last[c], conns[k].work.last[c])

GetRequested(c, k) ==
  /\ job[c].pc = "start" /\ Idle(k) /\ Usable(k)
  /\ job' = [job EXCEPT ![c].pc = IF Requested(k, c) > 0 THEN "ack" ELSE "latest",
                        ![c].from = Requested(k, c)]
  /\ UNCHANGED <<head, asked, tables, conns>>

(* Plausible bug: the request stays pending.                               *)
AcknowledgeNothing(c, k) ==
  /\ job[c].pc = "ack" /\ Idle(k) /\ Usable(k) /\ ~RequestIsLocked(k, c)
  /\ Go(c, "head")
  /\ UNCHANGED <<head, asked, tables, conns>>

Acknowledge(c, k) ==
  /\ job[c].pc = "ack" /\ Idle(k) /\ Usable(k) /\ ~RequestIsLocked(k, c)
  /\ Execute(k, [conns[k].work EXCEPT !.acked = @ \cup {c}])
  /\ Go(c, "head")
  /\ UNCHANGED <<head, asked>>

(* Every contract starts at block 1.                                       *)
GetLatest(c, k) ==
  /\ job[c].pc = "latest" /\ Idle(k) /\ Usable(k)
  /\ job' = [job EXCEPT ![c].pc = "head", ![c].from = Checked(k, c) + 1]
  /\ UNCHANGED <<head, asked, tables, conns>>

(* A query that meets an aborted transaction here ends all indexers.       *)
StartFails(c, k) ==
  /\ job[c].pc \in {"start", "ack", "latest"} /\ Idle(k)
  /\ conns[k].tx = "aborted" /\ conns[k].queued = None
  /\ AllStartOver
  /\ UNCHANGED <<head, asked, tables>>

-----------------------------------------------------------------------------
(***************************************************************************)
(* process_all_events.                                                     *)
(***************************************************************************)
EventsSeen(k, c) == {e \in logged \cup conns[k].work.logged : e.chain = c}

(* The timers start and the newest block is read, or 2 when that fails.    *)
StartAt(c, k, current) ==
  /\ job[c].pc = "head" /\ Idle(k) /\ Usable(k)
  /\ job' = [job EXCEPT ![c].pc = "range", ![c].current = current,
                        ![c].counted = Cardinality(EventsSeen(k, c))]
  /\ UNCHANGED <<head, asked, tables, conns>>

GetHead(c, k) == StartAt(c, k, head[c])
HeadFails(c, k) == StartAt(c, k, 2)

(* Plausible bug: the last range is not cut at the newest block.           *)
QueryRangeBeyond(c) ==
  /\ job[c].pc = "range" /\ job[c].from < job[c].current - 1
  /\ job' = [job EXCEPT ![c].pc = "route", ![c].cursor = 0,
                        ![c].to = job[c].from + QueryBlocks - 1]
  /\ UNCHANGED <<head, asked, tables, conns>>

QueryRange(c) ==
  /\ job[c].pc = "range" /\ job[c].from < job[c].current - 1
  /\ job' = [job EXCEPT ![c].pc = "route", ![c].cursor = 0,
       ![c].to = Smaller(job[c].from + QueryBlocks - 1, job[c].current - 1)]
  /\ UNCHANGED <<head, asked, tables, conns>>

(* The stream begins with the block it asks for, or with the next one when *)
(* the node does not replay logs from before the filter was made.          *)
Watch(c) ==
  LET before == Larger(job[c].from, job[c].current) - 1 IN
  /\ job[c].pc = "range" /\ job[c].from >= job[c].current - 1
  /\ \E since \in {before, Larger(before, head[c])} :
       job' = [job EXCEPT ![c] = [Begun EXCEPT !.pc = "watch", !.watching = TRUE,
                                    !.since = since, !.counted = job[c].counted]]
  /\ UNCHANGED <<head, asked, tables, conns>>

(* The logs still to be routed: of the range, or of the new blocks.        *)
Pending(c) ==
  {e \in Events :
     /\ e.chain = c /\ e.pos > job[c].cursor
     /\ IF job[c].watching THEN e.block \in job[c].since + 1 .. head[c]
        ELSE e.block \in job[c].from .. Smaller(job[c].to, head[c])}

Earliest(e, events) == e \in events /\ \A f \in events : e.pos <= f.pos

Back(c) == IF job[c].watching THEN "watch" ELSE "route"

(* route_log: add_or_extend_stake and update_stake_amount begin.  When     *)
(* BEGIN fails the handler logs the error and goes on.                     *)
Begin(c, k) ==
  /\ job[c].pc \in {"route", "watch"} /\ Idle(k) /\ conns[k].queued = None
  /\ \E e \in Events :
       /\ Earliest(e, Pending(c))
       /\ IF conns[k].tx = "aborted"
          THEN job' = [job EXCEPT ![c].cursor = e.pos] /\ UNCHANGED conns
          ELSE /\ job' = [job EXCEPT ![c].pc = "insert", ![c].conn = k,
                                     ![c].event = e]
               /\ conns' = [conns EXCEPT ![k].tx = "open"]
  /\ UNCHANGED <<head, asked, tables>>

Duplicate(k, e) == \E f \in logged \cup conns[k].work.logged : Key(f) = Key(e)

(* The insert succeeds or aborts the transaction.                          *)
InsertEvent(k, e) ==
  IF Duplicate(k, e)
  THEN conns' = [conns EXCEPT ![k].tx = "aborted", ![k].work = NoWork,
                              ![k].queued = None]
  ELSE conns' = [conns EXCEPT ![k].work.logged = @ \cup {e}, ![k].queued = None]

(* Plausible bug: ON CONFLICT DO NOTHING in place of the error.            *)
InsertIgnoringConflicts(c) ==
  LET k == job[c].conn  e == job[c].event IN
  /\ job[c].pc = "insert" /\ ~KeyIsLocked(k, e)
  /\ conns' = [conns EXCEPT ![k].work.logged =
                 IF Duplicate(k, e) THEN @ ELSE @ \cup {e}]
  /\ Go(c, "apply")
  /\ UNCHANGED <<head, asked, tables>>

(* Plausible bug: each statement commits by itself, the summary last.      *)
InsertAtOnce(c) ==
  LET k == job[c].conn  e == job[c].event IN
  /\ job[c].pc = "insert" /\ ~KeyIsLocked(k, e)
  /\ IF Duplicate(k, e)
     THEN InsertEvent(k, e) /\ UNCHANGED tables
     ELSE Publish([NoWork EXCEPT !.logged = {e}]) /\ UNCHANGED conns
  /\ Go(c, IF Duplicate(k, e) THEN "rollback" ELSE "apply")
  /\ UNCHANGED <<head, asked>>

Insert(c) ==
  LET k == job[c].conn  e == job[c].event IN
  /\ job[c].pc = "insert" /\ ~KeyIsLocked(k, e)
  /\ InsertEvent(k, e)
  /\ Go(c, IF Duplicate(k, e) THEN "rollback" ELSE "apply")
  /\ UNCHANGED <<head, asked, tables>>

(* The upsert of a stake, and the update of the others, which changes      *)
(* nothing when there is no row.                                           *)
ChangeSummary(k, e) ==
  LET work == conns[k].work
      changes == e.kind = "stake" \/ Recorded(e) \in rows \cup work.rows IN
  conns' = [conns EXCEPT ![k].queued = None, ![k].work =
    IF changes
    THEN [work EXCEPT !.rows = @ \cup {Recorded(e)}, !.applied = @ \cup {e},
                      !.locked = @ \cup {Recorded(e)}]
    ELSE work]

Apply(c) ==
  LET k == job[c].conn  e == job[c].event IN
  /\ job[c].pc = "apply" /\ ~StakeIsLocked(k, e)
  /\ ChangeSummary(k, e)
  /\ Go(c, "commit")
  /\ UNCHANGED <<head, asked, tables>>

(* Any other error of the two statements.                                  *)
StatementFails(c) ==
  /\ MayError /\ job[c].pc \in {"insert", "apply"}
  /\ conns' = [conns EXCEPT ![job[c].conn] = [Clean EXCEPT !.tx = "aborted"]]
  /\ Go(c, "rollback")
  /\ UNCHANGED <<head, asked, tables>>

(* The handler is done with its event, whether or not it was logged: a     *)
(* duplicate is no error, and any other is printed and forgotten.          *)
NextEvent(c) ==
  /\ conns' = [conns EXCEPT ![job[c].conn] = Clean]
  /\ job' = [job EXCEPT ![c].pc = Back(c), ![c].conn = None, ![c].event = None,
                        ![c].cursor = job[c].event.pos]

Commit(c) ==
  /\ job[c].pc = "commit"
  /\ Publish(conns[job[c].conn].work)
  /\ NextEvent(c)
  /\ UNCHANGED <<head, asked>>

Rollback(c) ==
  /\ job[c].pc = "rollback"
  /\ NextEvent(c)
  /\ UNCHANGED <<head, asked, tables>>

(* Plausible bug: the range is saved before its logs are routed.           *)
SaveEarly(c, k) ==
  /\ job[c].pc = "route" /\ job[c].cursor = 0
  /\ Idle(k) /\ Usable(k) /\ ~LastIsLocked(k, c)
  /\ Execute(k, [conns[k].work EXCEPT !.last[c] = Larger(@, job[c].to)])
  /\ job' = [job EXCEPT ![c].pc = "range", ![c].from = job[c].to + 1,
                        ![c].to = 0, ![c].cursor = 0]
  /\ UNCHANGED <<head, asked>>

(* update_last_checked_block when the logs of the range are routed.        *)
Save(c, k) ==
  /\ job[c].pc = "route" /\ Pending(c) = {}
  /\ Idle(k) /\ Usable(k) /\ ~LastIsLocked(k, c)
  /\ Execute(k, [conns[k].work EXCEPT !.last[c] = Larger(@, job[c].to)])
  /\ job' = [job EXCEPT ![c].pc = "range", ![c].from = job[c].to + 1,
                        ![c].to = 0, ![c].cursor = 0]
  /\ UNCHANGED <<head, asked>>

(* The stream ends without an error: the join waits for the timers.        *)
StreamEnds(c) ==
  /\ job[c].pc = "watch"
  /\ Go(c, "ended")
  /\ UNCHANGED <<head, asked, tables, conns>>

-----------------------------------------------------------------------------
(***************************************************************************)
(* The timers, the errors, and the drop of the three futures.              *)
(***************************************************************************)
(* What a dropped indexer leaves in its connection: its transaction as it  *)
(* is, with or without the statement that waits for a lock.                *)
Left(c) ==
  LET k == job[c].conn  e == job[c].event  stage == job[c].pc IN
  {conns} \cup
  IF \/ stage = "insert" /\ KeyIsLocked(k, e)
     \/ stage = "apply" /\ StakeIsLocked(k, e)
  THEN {[conns EXCEPT ![k].queued = <<stage, e>>]}
  ELSE {}

Restart(c) ==
  /\ job[c].pc \in InTransaction => CancelMidway
  /\ conns' \in Left(c)
  /\ job' = [job EXCEPT ![c] = Begun]
  /\ UNCHANGED <<head, asked, tables>>

(* The drop of an indexer that waits for the lock of its stake_lastblock.  *)
RestartInSave(c, k) ==
  /\ CancelMidway
  /\ job[c].pc = "route" /\ Pending(c) = {} /\ job[c].to > 0
  /\ Idle(k) /\ Usable(k) /\ LastIsLocked(k, c)
  /\ conns' = [conns EXCEPT ![k].queued = <<"save", c, job[c].to>>]
  /\ job' = [job EXCEPT ![c] = Begun]
  /\ UNCHANGED <<head, asked, tables>>

(* The rest of such a statement, when the lock is free.                    *)
Drain(k) ==
  /\ conns[k].queued # None
  /\ LET sent == conns[k].queued IN
     \/ /\ sent[1] = "insert" /\ ~KeyIsLocked(k, sent[2])
        /\ InsertEvent(k, sent[2])
        /\ UNCHANGED tables
     \/ /\ sent[1] = "apply" /\ ~StakeIsLocked(k, sent[2])
        /\ ChangeSummary(k, sent[2])
        /\ UNCHANGED tables
     \/ /\ sent[1] = "save" /\ ~LastIsLocked(k, sent[2])
        /\ IF conns[k].tx = "open"
           THEN /\ conns' = [conns EXCEPT ![k].queued = None,
                     ![k].work.last[sent[2]] = Larger(@, sent[3])]
                /\ UNCHANGED tables
           ELSE /\ Publish([NoWork EXCEPT !.last[sent[2]] = sent[3]])
                /\ conns' = [conns EXCEPT ![k].queued = None]
  /\ UNCHANGED <<head, asked, job>>

(* It may fail as well, as the victim of a deadlock for one.               *)
DrainFails(k) ==
  /\ MayError /\ conns[k].queued # None
  /\ conns' = [conns EXCEPT ![k] =
       [Clean EXCEPT !.tx = IF conns[k].tx = "open" THEN "aborted" ELSE "none"]]
  /\ UNCHANGED <<head, asked, tables, job>>

InJoin(c) == job[c].pc \notin {"start", "ack", "latest", "head"}

(* Plausible bug: the timer takes an unchanged count for progress.         *)
IdleTimerUnchanged(c, k) ==
  LET seen == Cardinality(EventsSeen(k, c)) IN
  /\ InJoin(c) /\ Idle(k) /\ conns[k].queued = None
  /\ IF conns[k].tx = "aborted" \/ seen < job[c].counted
     THEN Restart(c)
     ELSE /\ job' = [job EXCEPT ![c].counted = seen]
          /\ UNCHANGED <<head, asked, tables, conns>>

(* throw_when_no_events_logged after 15 minutes.  Its query fails in an    *)
(* aborted transaction, which ends the join as well.                       *)
IdleTimer(c, k) ==
  LET seen == Cardinality(EventsSeen(k, c)) IN
  /\ InJoin(c) /\ Idle(k) /\ conns[k].queued = None
  /\ IF conns[k].tx = "aborted" \/ seen <= job[c].counted
     THEN Restart(c)
     ELSE /\ job' = [job EXCEPT ![c].counted = seen]
          /\ UNCHANGED <<head, asked, tables, conns>>

(* throw_when_reindex_requested, every minute.                             *)
ReindexTimer(c, k) ==
  /\ InJoin(c) /\ Idle(k) /\ conns[k].queued = None
  /\ conns[k].tx = "aborted" \/ Requested(k, c) > 0
  /\ Restart(c)

(* A request to the node fails: the logs of a range, the time of a block.  *)
RpcFails(c) ==
  /\ job[c].pc \in {"range", "route", "watch"}
  /\ Restart(c)

Crash ==
  /\ MayCrash
  /\ AllStartOver
  /\ UNCHANGED <<head, asked, tables>>

-----------------------------------------------------------------------------
(* The chain, and an operator who asks for blocks to be indexed again.     *)
Mine(c) ==
  /\ head[c] < MaxBlock
  /\ head' = [head EXCEPT ![c] = @ + 1]
  /\ UNCHANGED <<asked, tables, conns, job>>

RequestReindex(c) ==
  /\ asked[c] < MaxRequests /\ request[c] = 0
  /\ \E block \in 1..last[c] : request' = [request EXCEPT ![c] = block]
  /\ asked' = [asked EXCEPT ![c] = @ + 1]
  /\ UNCHANGED <<head, last, logged, rows, applied, conns, job>>

Steps(c) ==
  \/ \E k \in Conns : \/ GetRequested(c, k) \/ Acknowledge(c, k) \/ GetLatest(c, k)
                      \/ HeadFails(c, k) \/ Begin(c, k) \/ Save(c, k)
  \/ QueryRange(c) \/ Watch(c)
  \/ Insert(c) \/ Apply(c) \/ Commit(c) \/ Rollback(c)

Next ==
  \/ \E c \in Chains : \/ Steps(c) \/ StreamEnds(c) \/ RpcFails(c)
                       \/ Mine(c) \/ RequestReindex(c)
                       \/ \E k \in Conns : \/ GetHead(c, k) \/ IdleTimer(c, k)
                                           \/ ReindexTimer(c, k)
  \/ Crash

Spec == Init /\ [][Next]_vars

(* What comes on top where statements fail, or indexers are dropped while  *)
(* they wait for one.                                                      *)
Faults ==
  \/ \E c \in Chains : \/ StatementFails(c)
                       \/ \E k \in Conns : StartFails(c, k) \/ RestartInSave(c, k)
  \/ \E k \in Conns : Drain(k) \/ DrainFails(k)

FaultyNext == Next \/ Faults
FaultySpec == Init /\ [][FaultyNext]_vars

(* From some moment on an indexer that starts over comes to its stream:    *)
(* the process stays alive, the node answers while a range is read, and a  *)
(* range takes less time than the timers leave.                            *)
Settled ==
  <>[][\A c \in Chains :
         job'[c].pc = "start" => job[c].pc \in {"start", "watch", "ended"}]_vars

(* The process runs, the timers fire, and the node answers again and again *)
(* when it is asked for its newest block.                                  *)
FairSpec ==
  /\ Spec /\ Settled
  /\ \A c \in Chains :
       /\ WF_vars(Steps(c))
       /\ SF_vars(\E k \in Conns : GetHead(c, k))
       /\ WF_vars(\E k \in Conns : IdleTimer(c, k))
       /\ WF_vars(\E k \in Conns : ReindexTimer(c, k))

-----------------------------------------------------------------------------
(***************************************************************************)
(* Properties.                                                             *)
(***************************************************************************)
Written(e) == \E f \in logged : Key(f) = Key(e)

(* Every event of a block that stake_lastblock calls checked is in         *)
(* stake_stakeevent: a crash, a failed request to the node or a reindex    *)
(* loses none (process_all_events, update_last_checked_block).             *)
CheckedBlocksAreLogged ==
  \A e \in Events : e.block <= last[e.chain] => Written(e)

(* An event changes the summary of its stake at most once, however often   *)
(* it is read, and no event changes it that is not in stake_stakeevent     *)
(* (the unique key, the transaction of add_or_extend_stake and             *)
(* update_stake_amount).                                                   *)
AppliedOnce ==
  \A e \in Events : applied[e] <= 1 /\ (applied[e] = 1 => e \in logged)

(* The stakes of logged events are in the summary (the transaction of      *)
(* add_or_extend_stake).                                                   *)
LoggedStakesAreApplied ==
  \A e \in logged : e.kind = "stake" => applied[e] = 1

(* The block where an indexer resumes never goes back, a reindex included  *)
(* (GREATEST in update_last_checked_block).                                *)
LastBlockGrows == [][\A c \in Chains : last'[c] >= last[c]]_vars

(* Everything the indexer does to the tables is a step of the ledger:      *)
(* events and summaries change together, once for each key, and blocks are *)
(* checked when their events are there.                                    *)
Ledger == INSTANCE StakeLedger
LedgerSpec == Ledger!Spec

(* An event two blocks behind the newest one is logged in the end, though  *)
(* streams end, nodes fail and the indexer skips a block when it starts to *)
(* watch: the timers bring it back.                                        *)
EventsAreLogged ==
  \A e \in Events : e.block + 2 <= head[e.chain] ~> Written(e)

(* A reindex request is taken up.                                          *)
ReindexRequestsAreTaken == \A c \in Chains : request[c] > 0 ~> request[c] = 0
=============================================================================
