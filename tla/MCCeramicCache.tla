-------------------------- MODULE MCCeramicCache --------------------------
(* Small caches.                                                           *)
EXTENDS CeramicCache, TLC

CONSTANTS CoinbaseProvider, Github, C1, C2, G1

(* Two credentials of Coinbase and one of another provider.                *)
SmallProviderOf ==
  C1 :> CoinbaseProvider @@ C2 :> CoinbaseProvider @@ G1 :> Github

(* The workers do not differ, nor do the credentials of one provider.      *)
Symmetry == Permutations(Requests) \cup Permutations({C1, C2})
=============================================================================
