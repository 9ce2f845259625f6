-------------------------- MODULE MCScorePipeline --------------------------
(* Small instances of ScorePipeline for TLC.                               *)
EXTENDS ScorePipeline, TLC

CONSTANTS w1, w2, b1, p1, p2, old, new, other

(* A stamp and its renewal, and the stamp of a second provider.            *)
ThreeStamps == [c \in Credentials |-> IF c = other THEN p2 ELSE p1]
Expiries == [c \in Credentials |-> IF c = old THEN 0 ELSE 1]

Symmetry == Permutations(Workers)
=============================================================================
