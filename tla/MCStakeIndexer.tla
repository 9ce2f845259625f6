--------------------------- MODULE MCStakeIndexer ---------------------------
(* Small chains for the staking indexers.                                  *)
EXTENDS StakeIndexer, TLC

CONSTANTS Op, Eth, Ann, Bob

Event(chain, pos, block, tx, kind, staker, stakee) ==
  [chain |-> chain, pos |-> pos, block |-> block, tx |-> tx, kind |-> kind,
   staker |-> staker, stakee |-> stakee]

(* A stake of Ann for Bob, one of her own, and changes of both.            *)
OneChain ==
  {Event(Op, 1, 1, 1, "stake", Ann, Bob),
   Event(Op, 2, 2, 2, "stake", Ann, Ann),
   Event(Op, 3, 3, 3, "withdraw", Ann, Bob),
   Event(Op, 4, 5, 4, "slash", Ann, Ann)}

(* An event on each of two chains.                                         *)
TwoChains ==
  {Event(Op, 1, 1, 1, "stake", Ann, Bob),
   Event(Eth, 1, 1, 1, "stake", Ann, Bob)}

(* Neither the connections nor the two chains differ in anything.          *)
Symmetry == Permutations(Conns) \cup Permutations(Chains)
=============================================================================
