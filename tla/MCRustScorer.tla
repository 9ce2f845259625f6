---------------------------- MODULE MCRustScorer ----------------------------
(* Alice has an old Google stamp with one nullifier and a GitHub stamp of   *)
(* the same account with a newer one as well; Bob has a stamp of it, whose *)
(* nullifiers come in the other order.                                     *)
EXTENDS RustScorer, TLC

CONSTANTS alice, bob, google, github, a1, a2, b1, n1, n2

MCHolderOf == [c \in Credentials |-> IF c = b1 THEN bob ELSE alice]
MCProviderOf == [c \in Credentials |-> IF c = a2 THEN github ELSE google]
MCExpiresAt == [c \in Credentials |-> IF c = a1 THEN 1 ELSE 2]

MCUploads == {{a1, a2}, {b1}}

Symmetry == Permutations(Requests)

Listed(s) == [n \in {s[i] : i \in DOMAIN s} |-> CHOOSE i \in DOMAIN s : s[i] = n]
MCPlace ==
  [c \in Credentials |->
     CASE c = a1 -> Listed(<<n1>>)
       [] c = a2 -> Listed(<<n1, n2>>)
       [] c = b1 -> Listed(<<n2, n1>>)]
=============================================================================
