--------------------------- MODULE LegacyIndexer ---------------------------
(***************************************************************************)
(* The indexer of the old staking contract                                 *)
(* (src/indexer/src/legacy_staking_indexer.rs): it reads the blocks that   *)
(* are not marked as checked in ranges, then listens to new ones, and      *)
(* starts over when a timer sees that no more blocks were marked.  Rows    *)
(* have no key, so that a stake may be recorded more than once.            *)
(***************************************************************************)
EXTENDS Integers

CONSTANTS
  LastBlock,  \* bound on the blocks of the chain
  Span        \* blocks of a range

VARIABLES
  head,      \* get_block_number
  stakes,    \* the blocks with an event of the contract
  checked,   \* stake_lastblock of chain 0; 0 is the start block
  recorded,  \* the blocks whose event is in registry_gtcstakeevent
  job,       \* listen_for_stake_events and its timer
  ahead,     \* history: blocks of a range that were not mined when it was read
  failed     \* history: blocks whose range or row failed, which is only logged

legacyVars == <<head, stakes, checked, recorded, job, ahead, failed>>

Blocks == 1..LastBlock
Ended == LastBlock + Span
Begun == [step |-> "start", start |-> 0, from |-> 0, to |-> 0, current |-> 0,
          todo |-> {}, at |-> 0]

LegacyTypeOK ==
  /\ head \in 0..LastBlock
  /\ stakes \subseteq 1..head /\ recorded \subseteq stakes /\ failed \subseteq stakes
  /\ checked \in 0..Ended
  /\ ahead \subseteq 1..Ended
  /\ job.step \in {"start", "range", "insert", "watch", "ended"}
  /\ job.start <= checked
  /\ job.todo \subseteq stakes \cap (job.from..job.to)
  /\ job.current <= head

LegacyInit ==
  /\ head = 2
  /\ stakes = {2}
  /\ checked = 0
  /\ recorded = {}
  /\ job = Begun
  /\ ahead = {}
  /\ failed = {}

First(blocks) == CHOOSE b \in blocks : \A c \in blocks : b <= c
Greater(m, n) == IF m > n THEN m ELSE n

-----------------------------------------------------------------------------
MineBlock ==
  /\ head < LastBlock
  /\ head' = head + 1
  /\ stakes' \in {stakes, stakes \cup {head + 1}}
  /\ UNCHANGED <<checked, recorded, job, ahead, failed>>

(* get_latest_block_legacy, then a connection and the number of its block. *)
StartJob ==
  /\ job.step = "start"
  /\ job' = [Begun EXCEPT !.step = "range", !.start = checked,
                          !.from = checked + 1, !.current = head]
  /\ UNCHANGED <<head, stakes, checked, recorded, ahead, failed>>

(* A range of past events, which may end after the last block; when the    *)
(* query fails the loop goes on as if there were none.                     *)
QueryRange ==
  LET to == job.from + Span - 1
      found == stakes \cap (job.from..to) IN
  /\ job.step = "range" /\ job.from < job.current
  /\ ahead' = ahead \cup (head + 1..to)
  /\ \/ job' = [job EXCEPT !.step = "insert", !.to = to, !.todo = found]
        /\ UNCHANGED failed
     \/ job' = [job EXCEPT !.step = "insert", !.to = to]
        /\ failed' = failed \cup found
  /\ UNCHANGED <<head, stakes, checked, recorded>>

(* An error of the statement is logged, and the event is not tried again.  *)
Insert(b) ==
  \/ recorded' = recorded \cup {b} /\ UNCHANGED failed
  \/ failed' = failed \cup {b} /\ UNCHANGED recorded

InsertPast ==
  /\ job.step = "insert" /\ job.todo # {}
  /\ Insert(First(job.todo))
  /\ job' = [job EXCEPT !.todo = @ \ {First(@)}]
  /\ UNCHANGED <<head, stakes, checked, ahead>>

NextRange == [job EXCEPT !.step = "range", !.from = job.to]

(* Plausible bug: the range is marked before its events are inserted.      *)
MarkRangeFirst ==
  /\ job.step = "insert"
  /\ checked' = Greater(checked, job.to)
  /\ job' = IF job.todo = {} THEN NextRange ELSE job
  /\ UNCHANGED <<head, stakes, recorded, ahead, failed>>

(* update_last_checked_block_legacy; the next range begins with the last   *)
(* block of this one.                                                      *)
MarkRange ==
  /\ job.step = "insert" /\ job.todo = {}
  /\ checked' = Greater(checked, job.to)
  /\ job' = NextRange
  /\ UNCHANGED <<head, stakes, recorded, ahead, failed>>

(* The node has the stream begin with the block it asks for, or with the   *)
(* next one that is mined.                                                 *)
StartStream ==
  /\ job.step = "range" /\ job.from >= job.current
  /\ \E at \in {job.current - 1, Greater(job.current - 1, head)} :
       job' = [Begun EXCEPT !.step = "watch", !.start = job.start, !.at = at]
  /\ UNCHANGED <<head, stakes, checked, recorded, ahead, failed>>

StreamEvent ==
  LET coming == stakes \cap (job.at + 1..head) IN
  /\ job.step = "watch" /\ coming # {}
  /\ Insert(First(coming))
  /\ job' = [job EXCEPT !.at = First(coming)]
  /\ UNCHANGED <<head, stakes, checked, ahead>>

(* The stream ends without an error, and the join waits for the timer.     *)
EndStream ==
  /\ job.step = "watch"
  /\ job' = [Begun EXCEPT !.step = "ended", !.start = job.start]
  /\ UNCHANGED <<head, stakes, checked, recorded, ahead, failed>>

(* throw_when_no_events_logged ends the join, wherever the loop is.        *)
Timer ==
  /\ job.step # "start"
  /\ job' = IF job.start = checked THEN Begun ELSE [job EXCEPT !.start = checked]
  /\ UNCHANGED <<head, stakes, checked, recorded, ahead, failed>>

(* The node fails, the mark cannot be saved, the process dies.             *)
BreakOff ==
  /\ job.step # "start"
  /\ job' = Begun
  /\ UNCHANGED <<head, stakes, checked, recorded, ahead, failed>>

LegacyNext ==
  \/ MineBlock \/ StartJob \/ QueryRange \/ InsertPast \/ MarkRange
  \/ StartStream \/ StreamEvent \/ EndStream \/ Timer \/ BreakOff

-----------------------------------------------------------------------------
(* A stake in a block that is marked as checked has been recorded, however *)
(* often the indexer broke off or was reset.  Excused are the errors that  *)
(* are only logged, and blocks that were marked before they were mined:    *)
(* after a reset nobody reads these.                                       *)
CheckedStakesAreRecorded ==
  \A b \in stakes : b <= checked => b \in recorded \cup failed \cup ahead
=============================================================================
