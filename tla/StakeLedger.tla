---------------------------- MODULE StakeLedger ----------------------------
(***************************************************************************)
(* What the staking indexer promises to the readers of its tables: a log   *)
(* of the staking events without duplicates, a summary that each entry of  *)
(* the log changes in the same step that logs it, and a block up to which  *)
(* the log is complete.                                                    *)
(***************************************************************************)
EXTENDS Integers

CONSTANTS Chains, Events, Key(_), Recorded(_)

VARIABLES last, logged, rows, applied

Init ==
  /\ last = [c \in Chains |-> 0]
  /\ logged = {}
  /\ rows = {}
  /\ applied = [e \in Events |-> 0]

(* An event is logged.  It changes its summary if there is one, and a      *)
(* stake makes one.                                                        *)
Record(e) ==
  LET counts == e.kind = "stake" \/ Recorded(e) \in rows IN
  /\ \A f \in logged : Key(f) # Key(e)
  /\ logged' = logged \cup {e}
  /\ rows' = rows \cup (IF counts THEN {Recorded(e)} ELSE {})
  /\ applied' = [applied EXCEPT ![e] = @ + (IF counts THEN 1 ELSE 0)]
  /\ UNCHANGED last

(* More blocks are declared checked.                                       *)
Check(c) ==
  /\ last' = [last EXCEPT ![c] = last'[c]] /\ last'[c] > last[c]
  /\ \A e \in Events :
       e.chain = c /\ e.block <= last'[c] => \E f \in logged : Key(f) = Key(e)
  /\ UNCHANGED <<logged, rows, applied>>

Next ==
  \/ \E e \in Events : Record(e)
  \/ \E c \in Chains : Check(c)

Spec == Init /\ [][Next]_<<last, logged, rows, applied>>
=============================================================================
