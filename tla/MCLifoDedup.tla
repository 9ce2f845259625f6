----------------------------- MODULE MCLifoDedup -----------------------------
(* Small instances of LifoDedup.                                            *)
EXTENDS LifoDedup, TLC

CONSTANTS n1, n2, n3

(* The stamps of one provider, before and after its nullifiers were         *)
(* rotated, and with both: of one account or of two that share a nullifier. *)
S(N, e) == [nullifiers |-> N, expires |-> e]

(* One provider, so one stamp per passport; short- and long-lived stamps.   *)
RotatingPassports ==
  {{S({n1}, 1)}, {S({n1, n2}, 1)}, {S({n2}, 2)}}

(* The same with longer lives, and a second provider: passports of one or   *)
(* two stamps.                                                              *)
TwoProviderPassports ==
  {{S({n1}, 1)}, {S({n1, n2}, 2)}, {S({n2}, 3)},
   {S({n1, n2}, 1), S({n3}, 2)}, {S({n1}, 2), S({n3}, 3)}, {S({n3}, 1)}}

TwoNullifiers == {n1, n2}
ThreeNullifiers == {n1, n2, n3}
OnlyN1 == {n1}

(* Workers are interchangeable, and so are addresses.                       *)
Symmetry == Permutations(Requests) \cup Permutations(Addresses)
==============================================================================
