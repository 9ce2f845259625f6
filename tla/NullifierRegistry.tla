------------------------- MODULE NullifierRegistry -------------------------
(***************************************************************************)
(* What LIFO deduplication promises, whatever its tables and statements:   *)
(* every nullifier has at most one owner, an owner loses a nullifier only  *)
(* after it lapsed, and an address is credited only for nullifiers it owns *)
(* or that have lapsed.                                                    *)
(***************************************************************************)
CONSTANTS
  Addresses, Nullifiers,
  Nobody           \* the owner of a nullifier no one has claimed

VARIABLES
  owner,   \* who owns each nullifier
  lapsed,  \* the nullifiers whose ownership has expired at some moment
  held     \* the nullifiers each address is credited for

regVars == <<owner, lapsed, held>>

RegTypeOK ==
  /\ owner \in [Nullifiers -> Addresses \cup {Nobody}]
  /\ lapsed \in SUBSET Nullifiers
  /\ held \in [Addresses -> SUBSET Nullifiers]

RegInit ==
  /\ owner = [n \in Nullifiers |-> Nobody]
  /\ lapsed = {}
  /\ held = [a \in Addresses |-> {}]

(* Free nullifiers get owners, lapsed ones may change theirs, and owned    *)
(* ones may lapse.                                                         *)
Register ==
  /\ owner' \in [Nullifiers -> Addresses \cup {Nobody}]
  /\ \A n \in Nullifiers :
       owner'[n] # owner[n] =>
         owner'[n] # Nobody /\ (owner[n] = Nobody \/ n \in lapsed)
  /\ lapsed' \in SUBSET {n \in Nullifiers : owner'[n] # Nobody}
  /\ lapsed \subseteq lapsed'
  /\ UNCHANGED held

(* An address is credited for N instead of what it was credited for.       *)
Credit(a, N) ==
  /\ \A n \in N : owner[n] = a \/ n \in lapsed
  /\ held' = [held EXCEPT ![a] = N]
  /\ UNCHANGED <<owner, lapsed>>

RegNext ==
  \/ Register
  \/ \E a \in Addresses, N \in SUBSET Nullifiers : Credit(a, N)

RegSpec == RegInit /\ [][RegNext]_regVars

(* The purpose of the registry (Event LIFO_DEDUPLICATION: a stamp counts   *)
(* for one address): a nullifier that never lapsed is credited to one      *)
(* address at most, provided Nobody is not an address.                     *)
Exclusive ==
  \A a, b \in Addresses : a # b => held[a] \cap held[b] \subseteq lapsed
=============================================================================
