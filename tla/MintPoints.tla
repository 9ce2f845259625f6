----------------------------- MODULE MintPoints -----------------------------
(***************************************************************************)
(* The human points of mints on one chain, which the indexer that reads    *)
(* the stakes records from the logs of two more contracts                  *)
(* (indexer/src/unified_indexer.rs and chain_config.rs).  Its timers and   *)
(* its connections are in StakeIndexer; here they start it over at any     *)
(* time.  Blocks stand for their timestamps.                               *)
(***************************************************************************)
EXTENDS Integers

CONSTANTS
  Logs,         \* what the contracts will have logged
  LastBlock,    \* bound on the blocks of the chain
  Span,         \* blocks of a range
  FirstBlock,   \* start_block of the chain's first contract
  StartOf,      \* start_block of the contracts of the mints
  Activated,    \* HUMAN_POINTS_START_TIMESTAMP
  Year          \* how much earlier Human ID mints count

VARIABLES
  head,     \* the newest block
  checked,  \* stake_lastblock, 0 when there is no row
  request,  \* start_block_number of a ReindexRequest, or 0
  awarded,  \* the rows of registry_humanpoints, by their unique key
  job,      \* process_all_events
  failed    \* history: logs whose insert failed, which is only printed

mintVars == <<head, checked, request, awarded, job, failed>>

Begun == [step |-> "start", from |-> 0, to |-> 0, current |-> 0, todo |-> {},
          seen |-> {}]
Happened == {l \in Logs : l.block <= head}
Key(l) == <<l.to, l.contract, l.tx>>

MintTypeOK ==
  /\ head \in 0..LastBlock
  /\ checked \in 0..head
  /\ request \in 0..(checked + 1)
  /\ awarded \subseteq {Key(l) : l \in Happened} /\ failed \subseteq Happened
  /\ job.step \in {"start", "range", "route", "watch", "ended"}
  /\ job.todo \subseteq {l \in Happened : l.block \in job.from..job.to}
  /\ job.current <= head /\ job.to <= head

MintInit ==
  /\ head = 2
  /\ checked = 0
  /\ request = 0
  /\ awarded = {}
  /\ job = Begun
  /\ failed = {}

Lesser(m, n) == IF m < n THEN m ELSE n
Greater(m, n) == IF m > n THEN m ELSE n
Step(from, to) == job.step = from /\ job' = to

-----------------------------------------------------------------------------
MineBlock ==
  /\ head < LastBlock
  /\ head' = head + 1
  /\ UNCHANGED <<checked, request, awarded, job, failed>>

(* An operator has blocks read again.                                      *)
RequestReindex ==
  /\ request = 0
  /\ request' \in FirstBlock..checked
  /\ UNCHANGED <<head, checked, awarded, job, failed>>

(* get_query_start_block; a node that does not tell its block counts as    *)
(* one that is at block 2.                                                 *)
StartJob ==
  /\ \E current \in {head, 2} :
       Step("start",
            [Begun EXCEPT !.step = "range", !.current = current,
              !.from = IF request > 0 THEN request
                       ELSE IF checked > 0 THEN checked + 1 ELSE FirstBlock])
  /\ request' = 0
  /\ UNCHANGED <<head, checked, awarded, failed>>

QueryRange ==
  LET to == Lesser(job.from + Span - 1, job.current - 1) IN
  /\ job.from < job.current - 1
  /\ Step("range",
          [job EXCEPT !.step = "route", !.to = to,
            !.todo = {l \in Happened : l.block \in job.from..to}])
  /\ UNCHANGED <<head, checked, request, awarded, failed>>

(* route_log, and process_passport_mint_log, which wants the schema of the *)
(* contract, or process_human_id_mint_log, which wants a mint.             *)
Counts(l) ==
  /\ l.block >= StartOf[l.contract]
  /\ l.block >= Activated - (IF l.contract = "humanId" THEN Year ELSE 0)
  /\ l.valid

(* add_human_points_event, on conflict do nothing; a failure is printed.   *)
Route(l) ==
  \/ /\ awarded' = IF Counts(l) THEN awarded \cup {Key(l)} ELSE awarded
     /\ UNCHANGED failed
  \/ /\ Counts(l)
     /\ failed' = failed \cup {l}
     /\ UNCHANGED awarded

(* Logs come in the order of their positions.                              *)
First(logs) == CHOOSE l \in logs : \A k \in logs : l.position <= k.position

RoutePast ==
  /\ job.todo # {}
  /\ Step("route", [job EXCEPT !.todo = @ \ {First(@)}])
  /\ Route(First(job.todo))
  /\ UNCHANGED <<head, checked, request>>

(* Plausible bug: the block is saved as soon as its range was queried.     *)
SaveBlockFirst ==
  /\ Step("route", IF job.todo # {} THEN job
                   ELSE [job EXCEPT !.step = "range", !.from = job.to + 1])
  /\ checked' = Greater(checked, job.to)
  /\ UNCHANGED <<head, request, awarded, failed>>

SaveBlock ==
  /\ job.todo = {}
  /\ Step("route", [job EXCEPT !.step = "range", !.from = job.to + 1])
  /\ checked' = Greater(checked, job.to)
  /\ UNCHANGED <<head, request, awarded, failed>>

(* The stream begins with the block it is asked for, or with the next one. *)
StartStream ==
  LET from == Greater(job.from, job.current) IN
  /\ job.from >= job.current - 1
  /\ \E at \in {from - 1, Greater(from - 1, head)} :
       Step("range", [Begun EXCEPT !.step = "watch",
                       !.seen = {l \in Happened : l.block <= at}])
  /\ UNCHANGED <<head, checked, request, awarded, failed>>

(* It does not save the blocks it has seen.                                *)
StreamLog ==
  LET coming == Happened \ job.seen IN
  /\ coming # {}
  /\ Step("watch", [job EXCEPT !.seen = @ \cup {First(coming)}])
  /\ Route(First(coming))
  /\ UNCHANGED <<head, checked, request>>

(* A stream that ends waits for the timer.                                 *)
EndStream ==
  /\ Step("watch", [Begun EXCEPT !.step = "ended"])
  /\ UNCHANGED <<head, checked, request, awarded, failed>>

(* A timer fires, a query or the timestamp of a block fails, or the        *)
(* process dies.                                                           *)
StartOver ==
  /\ job.step # "start"
  /\ job' = Begun
  /\ UNCHANGED <<head, checked, request, awarded, failed>>

MintNext ==
  \/ MineBlock \/ RequestReindex \/ StartJob \/ QueryRange \/ RoutePast
  \/ SaveBlock \/ StartStream \/ StreamLog \/ EndStream \/ StartOver

-----------------------------------------------------------------------------
(* A mint that counts and whose block is saved as checked is awarded,      *)
(* wherever the indexer was started over and whatever was read again,      *)
(* unless its insert failed.                                               *)
CheckedMintsAreAwarded ==
  \A l \in Happened :
    Counts(l) /\ l.block \in FirstBlock..checked =>
      Key(l) \in awarded \/ l \in failed
=============================================================================
