---------------------------- MODULE ServiceProofs ----------------------------
(***************************************************************************)
(* What the smaller services promise, for any number of requests and rows: *)
(* a nonce, an account and the place of the active configuration are       *)
(* claimed once, terms are recorded as they were signed, an evaluation     *)
(* issues valid credentials only, an import is whole or not there, a clone *)
(* of a scorer has a weight of its own, every firewall rule has a priority *)
(* of its own, and an answer shows the stamps that its score counts.       *)
(***************************************************************************)
EXTENDS Logins, WeightConfigs, HumanPoints, Credentials, Contributions, WafRules,
        ScoreResponses, FiniteSetTheorems, WellFoundedInduction, TLAPS

-----------------------------------------------------------------------------
(***************************************************************************)
(* Logins.                                                                 *)
(***************************************************************************)
LoginSpec == LoginInit /\ [][LoginNext]_loginVars

(* The types that the proofs need.                                         *)
LoginTypes ==
  /\ nonces \in [Nonces -> {"none", "fresh", "expired", "used"}]
  /\ signed \subseteq Message
  /\ terms \in Versions \cup {Nobody}
  /\ accounts \in [People -> Nat]
  /\ at \in [Clients -> {"idle", "read", "save", "verify", "account", "create"}]
  /\ message \in [Clients -> Message \cup {NoMessage}]
  /\ \A c \in Clients : at[c] # "idle" => message[c] \in signed
  /\ taken \in [Nonces -> Nat]

(* Who is about to save a nonce, or to create an account.                  *)
Saving(c, n) == at[c] = "save" /\ message[c].nonce = n
Creates(c, a) == at[c] = "create" /\ message[c].who = a

(* A nonce that was taken is used for good; while it is saved a second     *)
(* time, two had read it.                                                  *)
NonceInv ==
  \A n \in Nonces :
    /\ taken[n] > 0 => nonces[n] = "used"
    /\ taken[n] > 1 => n \in twice
    /\ \A c \in Clients : taken[n] > 0 /\ Saving(c, n) => n \in twice
    /\ \A c, d \in Clients : c # d /\ Saving(c, n) /\ Saving(d, n) => n \in twice

AccountInv ==
  \A a \in People :
    /\ accounts[a] > 1 => a \in twice
    /\ \A c \in Clients : accounts[a] > 0 /\ Creates(c, a) => a \in twice
    /\ \A c, d \in Clients : c # d /\ Creates(c, a) /\ Creates(d, a) => a \in twice

LoginInv == LoginTypes /\ NonceInv /\ AccountInv

(* The invariant of the logins holds at the start.                         *)
LEMMA LoginInitially == LoginInit => LoginInv /\ ProofsAreSigned
  BY DEF LoginInit, LoginInv, LoginTypes, NonceInv, AccountInv, ProofsAreSigned,
         Saving, Creates

(* Every step of a login keeps the types.                                  *)
LEMMA LoginTypesStep == LoginTypes /\ [LoginNext]_loginVars => LoginTypes'
<1> SUFFICES ASSUME LoginTypes, [LoginNext]_loginVars PROVE LoginTypes'
  OBVIOUS
<1> USE DEF LoginTypes
<1>1. CASE Sign
  <2>1. PICK n \in Nonces, a \in People, k \in Kinds :
          /\ k = "terms" => terms # Nobody
          /\ nonces' = [nonces EXCEPT ![n] = "fresh"]
          /\ signed' = signed \cup
               {[kind |-> k, who |-> a, nonce |-> n,
                 text |-> IF k = "terms" THEN terms ELSE Nobody]}
    BY <1>1 DEF Sign
  <2>2. signed' \subseteq Message /\ signed \subseteq signed'
    BY <2>1 DEF Message
  <2> QED BY <1>1, <2>1, <2>2 DEF Sign
<1>2. CASE Expire
  BY <1>2 DEF Expire
<1>3. CASE ActivateTerms
  BY <1>3 DEF ActivateTerms
<1>4. ASSUME NEW c \in Clients, Submit(c) PROVE LoginTypes'
  BY <1>4 DEF Submit
<1>5. ASSUME NEW c \in Clients, ReadNonce(c) PROVE LoginTypes'
  BY <1>5 DEF ReadNonce, Continue, Answer
<1>6. ASSUME NEW c \in Clients, SaveNonce(c) PROVE LoginTypes'
  <2>1. message[c].nonce \in Nonces
    BY <1>6 DEF SaveNonce, Message
  <2> QED BY <1>6, <2>1 DEF SaveNonce, Continue
<1>7. ASSUME NEW c \in Clients, \/ Verified(c) \/ Authenticate(c) \/ SubmitPassport(c)
                                \/ VerificationFails(c) \/ AcceptTerms(c)
      PROVE  LoginTypes'
  BY <1>7 DEF Verified, Authenticate, SubmitPassport, VerificationFails, AcceptTerms,
              AcceptWith, Continue, Answer
<1>8. ASSUME NEW c \in Clients, FindAccount(c) PROVE LoginTypes'
  BY <1>8 DEF FindAccount, Continue, Answer
<1>9. ASSUME NEW c \in Clients, CreateAccount(c) PROVE LoginTypes'
  <2>1. message[c].who \in People
    BY <1>9 DEF CreateAccount, Message
  <2> QED BY <1>9, <2>1 DEF CreateAccount, Answer
<1>10. CASE UNCHANGED loginVars
  BY <1>10 DEF loginVars
<1> QED
  BY <1>1, <1>2, <1>3, <1>4, <1>5, <1>6, <1>7, <1>8, <1>9, <1>10 DEF LoginNext

(* A step that starts no saving and takes no nonce back keeps NonceInv.    *)
LEMMA NonceKept ==
  ASSUME NonceInv, twice \subseteq twice', taken' = taken,
         \A n \in Nonces : nonces[n] = "used" => nonces'[n] = "used",
         \A c \in Clients, n \in Nonces : Saving(c, n)' => Saving(c, n)
  PROVE  NonceInv'
  BY DEF NonceInv

(* Accounts are kept where none is created.                                *)
LEMMA AccountKept ==
  ASSUME AccountInv, twice \subseteq twice', accounts' = accounts,
         \A c \in Clients, a \in People : Creates(c, a)' => Creates(c, a)
  PROVE  AccountInv'
  BY DEF AccountInv

(* A nonce is saved by whoever read it fresh.                              *)
LEMMA NonceStep == LoginInv /\ [LoginNext]_loginVars => NonceInv'
<1> SUFFICES ASSUME LoginInv, [LoginNext]_loginVars PROVE NonceInv'
  OBVIOUS
<1> USE DEF LoginInv
<1>0. LoginTypes /\ LoginTypes' BY LoginTypesStep
<1>1. CASE Sign
  <2>1. \A n \in Nonces : nonces[n] = "used" => nonces'[n] = "used"
    BY <1>0, <1>1 DEF Sign, LoginTypes
  <2> QED BY <1>1, <2>1, NonceKept DEF Sign, Saving
<1>2. CASE Expire
  <2>1. \A n \in Nonces : nonces[n] = "used" => nonces'[n] = "used"
    BY <1>0, <1>2 DEF Expire, LoginTypes
  <2> QED BY <1>2, <2>1, NonceKept DEF Expire, Saving
<1>3. CASE ActivateTerms
  BY <1>3, NonceKept DEF ActivateTerms, Saving
<1>4. ASSUME NEW c \in Clients, Submit(c) PROVE NonceInv'
  <2>1. \A d \in Clients, n \in Nonces : Saving(d, n)' => Saving(d, n)
    BY <1>0, <1>4 DEF Submit, Saving, LoginTypes
  <2> QED BY <1>4, <2>1, NonceKept DEF Submit
<1>5. ASSUME NEW c \in Clients, ReadNonce(c) PROVE NonceInv'
  <2> DEFINE m == message[c].nonce
  <2>1. UNCHANGED <<nonces, taken>> /\ twice \subseteq twice' /\ at[c] = "read"
    BY <1>5 DEF ReadNonce, Together
  <2>2. CASE nonces[m] # "fresh"
    <3>1. \A d \in Clients, n \in Nonces : Saving(d, n)' => Saving(d, n)
      BY <1>0, <1>5, <2>2 DEF ReadNonce, Answer, Saving, LoginTypes
    <3> QED BY <2>1, <3>1, NonceKept
  <2>3. CASE nonces[m] = "fresh"
    <3>1. at' = [at EXCEPT ![c] = "save"] /\ message' = message
      BY <1>5, <2>3 DEF ReadNonce, Continue
    <3>2. \A d \in Clients \ {c}, n \in Nonces : Saving(d, n)' <=> Saving(d, n)
      BY <1>0, <3>1 DEF Saving, LoginTypes
    <3>3. \A d \in Clients \ {c} : Saving(d, m) => m \in twice'
      BY <1>5, <2>3 DEF ReadNonce, Together, Saving
    <3>4. \A n \in Nonces : Saving(c, n)' => n = m
      BY <3>1 DEF Saving
    <3>5. m \in Nonces => taken[m] = 0
      BY <1>0, <2>3 DEF NonceInv, LoginTypes
    <3> HIDE DEF m
    <3> QED BY <2>1, <3>2, <3>3, <3>4, <3>5 DEF NonceInv
  <2> QED BY <2>2, <2>3
<1>6. ASSUME NEW c \in Clients, SaveNonce(c) PROVE NonceInv'
  <2>0. message[c].nonce \in Nonces
    BY <1>0, <1>6 DEF SaveNonce, LoginTypes, Message
  <2> PICK m \in Nonces : m = message[c].nonce
    BY <2>0
  <2>1. /\ Saving(c, m)
        /\ nonces' = [nonces EXCEPT ![m] = "used"]
        /\ taken' = [taken EXCEPT ![m] = @ + 1]
        /\ at' = [at EXCEPT ![c] = "verify"] /\ UNCHANGED <<message, twice>>
    BY <1>0, <1>6 DEF SaveNonce, Continue, Saving, LoginTypes, Message
  <2>2. \A d \in Clients, n \in Nonces : Saving(d, n)' => Saving(d, n) /\ d # c
    BY <1>0, <2>1 DEF Saving, LoginTypes
  <2>3. /\ \A n \in Nonces \ {m} : taken'[n] = taken[n] /\ nonces'[n] = nonces[n]
        /\ taken'[m] = taken[m] + 1 /\ nonces'[m] = "used" /\ taken[m] \in Nat
    BY <1>0, <2>1 DEF LoginTypes
  <2>4. ASSUME NEW n \in Nonces, n # m
        PROVE  /\ taken'[n] > 0 => nonces'[n] = "used"
               /\ taken'[n] > 1 => n \in twice'
               /\ \A d \in Clients : taken'[n] > 0 /\ Saving(d, n)' => n \in twice'
               /\ \A d, e \in Clients : d # e /\ Saving(d, n)' /\ Saving(e, n)' => n \in twice'
    BY <2>1, <2>2, <2>3, <2>4 DEF NonceInv
  <2>5. taken'[m] > 1 => m \in twice'
    BY <2>1, <2>3 DEF NonceInv
  <2>6. \A d \in Clients : Saving(d, m)' => m \in twice'
    BY <2>1, <2>2 DEF NonceInv
  <2> QED BY <2>3, <2>4, <2>5, <2>6 DEF NonceInv
<1>7. ASSUME NEW c \in Clients, \/ Verified(c) \/ Authenticate(c) \/ SubmitPassport(c)
                                \/ VerificationFails(c) \/ AcceptTerms(c)
                                \/ FindAccount(c) \/ CreateAccount(c)
      PROVE  NonceInv'
  <2>1. UNCHANGED <<nonces, taken>> /\ twice \subseteq twice'
    BY <1>7 DEF Verified, Authenticate, SubmitPassport, VerificationFails, AcceptTerms,
                AcceptWith, FindAccount, CreateAccount, Together
  <2>2. /\ \A d \in Clients \ {c} : at'[d] = at[d] /\ message'[d] = message[d]
        /\ at'[c] # "save"
    BY <1>0, <1>7 DEF Verified, Authenticate, SubmitPassport, VerificationFails,
       AcceptTerms, AcceptWith, FindAccount, CreateAccount, Continue, Answer, LoginTypes
  <2> QED BY <2>1, <2>2, NonceKept DEF Saving
<1>8. CASE UNCHANGED loginVars
  BY <1>8, NonceKept DEF loginVars, Saving
<1> QED
  BY <1>1, <1>2, <1>3, <1>4, <1>5, <1>6, <1>7, <1>8 DEF LoginNext

(* An account is created by whoever found none.                            *)
LEMMA AccountStep == LoginInv /\ [LoginNext]_loginVars => AccountInv'
<1> SUFFICES ASSUME LoginInv, [LoginNext]_loginVars PROVE AccountInv'
  OBVIOUS
<1> USE DEF LoginInv
<1>0. LoginTypes /\ LoginTypes' BY LoginTypesStep
<1>1. CASE Sign \/ Expire \/ ActivateTerms
  BY <1>1, AccountKept DEF Sign, Expire, ActivateTerms, Creates
<1>2. ASSUME NEW c \in Clients, \/ Submit(c) \/ ReadNonce(c) \/ SaveNonce(c)
                                \/ Verified(c) \/ Authenticate(c) \/ SubmitPassport(c)
                                \/ VerificationFails(c) \/ AcceptTerms(c)
      PROVE  AccountInv'
  <2>1. UNCHANGED accounts /\ twice \subseteq twice'
    BY <1>2 DEF Submit, ReadNonce, SaveNonce, Verified, Authenticate, SubmitPassport,
                VerificationFails, AcceptTerms, AcceptWith, Together
  <2>2. /\ \A d \in Clients \ {c} : at'[d] = at[d] /\ message'[d] = message[d]
        /\ at'[c] # "create"
    BY <1>0, <1>2 DEF Submit, ReadNonce, SaveNonce, Verified, Authenticate, SubmitPassport,
       VerificationFails, AcceptTerms, AcceptWith, Continue, Answer, LoginTypes
  <2> QED BY <2>1, <2>2, AccountKept DEF Creates
<1>3. ASSUME NEW c \in Clients, FindAccount(c) PROVE AccountInv'
  <2> DEFINE b == message[c].who
  <2>1. UNCHANGED accounts /\ twice \subseteq twice' /\ at[c] = "account"
        /\ b \in People
    BY <1>0, <1>3 DEF FindAccount, Together, LoginTypes, Message
  <2>2. CASE accounts[b] > 0
    <3>1. \A d \in Clients, a \in People : Creates(d, a)' => Creates(d, a)
      BY <1>0, <1>3, <2>1, <2>2 DEF FindAccount, Answer, Creates, LoginTypes
    <3> QED BY <2>1, <3>1, AccountKept
  <2>3. CASE accounts[b] = 0
    <3>1. at' = [at EXCEPT ![c] = "create"] /\ message' = message
      BY <1>3, <2>3 DEF FindAccount, Continue
    <3>2. \A d \in Clients \ {c}, a \in People : Creates(d, a)' <=> Creates(d, a)
      BY <1>0, <3>1 DEF Creates, LoginTypes
    <3>3. \A d \in Clients \ {c} : Creates(d, b) => b \in twice'
      BY <1>3, <2>3 DEF FindAccount, Together, Creates
    <3>4. \A a \in People : Creates(c, a)' => a = b
      BY <3>1 DEF Creates
    <3> HIDE DEF b
    <3> QED BY <2>1, <2>3, <3>2, <3>3, <3>4 DEF AccountInv
  <2> QED BY <1>0, <2>1, <2>2, <2>3 DEF LoginTypes
<1>4. ASSUME NEW c \in Clients, CreateAccount(c) PROVE AccountInv'
  <2>0. message[c].who \in People
    BY <1>0, <1>4 DEF CreateAccount, LoginTypes, Message
  <2> PICK b \in People : b = message[c].who
    BY <2>0
  <2>1. /\ Creates(c, b)
        /\ accounts' = [accounts EXCEPT ![b] = @ + 1]
        /\ at' = [at EXCEPT ![c] = "idle"] /\ UNCHANGED twice
        /\ message' = [message EXCEPT ![c] = NoMessage]
    BY <1>0, <1>4 DEF CreateAccount, Answer, Creates, LoginTypes, Message
  <2>2. \A d \in Clients, a \in People : Creates(d, a)' => Creates(d, a) /\ d # c
    BY <1>0, <2>1 DEF Creates, LoginTypes
  <2>3. /\ \A a \in People \ {b} : accounts'[a] = accounts[a]
        /\ accounts'[b] = accounts[b] + 1 /\ accounts[b] \in Nat
    BY <1>0, <2>1 DEF LoginTypes
  <2>4. ASSUME NEW a \in People, a # b
        PROVE  /\ accounts'[a] > 1 => a \in twice'
               /\ \A d \in Clients : accounts'[a] > 0 /\ Creates(d, a)' => a \in twice'
               /\ \A d, e \in Clients : d # e /\ Creates(d, a)' /\ Creates(e, a)' => a \in twice'
    BY <2>1, <2>2, <2>3, <2>4 DEF AccountInv
  <2>5. accounts'[b] > 1 => b \in twice'
    BY <2>1, <2>3 DEF AccountInv
  <2>6. \A d \in Clients : Creates(d, b)' => b \in twice'
    BY <2>1, <2>2 DEF AccountInv
  <2> QED BY <2>3, <2>4, <2>5, <2>6 DEF AccountInv
<1>5. CASE UNCHANGED loginVars
  BY <1>5, AccountKept DEF loginVars, Creates
<1> QED
  BY <1>1, <1>2, <1>3, <1>4, <1>5 DEF LoginNext

(* Who is recorded as having accepted a text has signed it.                *)
LEMMA SignedStep ==
  ASSUME \A n \in Nonces : <<"stranger", n>> \notin People,
         LoginTypes, ProofsAreSigned, [LoginNext]_loginVars
  PROVE  ProofsAreSigned'
<1>1. CASE signed \subseteq signed' /\ proofs' = proofs
  BY <1>1 DEF ProofsAreSigned
<1>2. ASSUME NEW c \in Clients, AcceptTerms(c) PROVE ProofsAreSigned'
  <2> DEFINE m == message[c]
             x == Proof(IF m.text = terms THEN m.who ELSE Stranger(m), terms, m.nonce)
  <2>1. m \in signed /\ m.kind = "terms" /\ m.nonce \in Nonces /\ signed' = signed
    BY <1>2 DEF AcceptTerms, AcceptWith, LoginTypes, Message
  <2>2. proofs' \subseteq proofs \cup {x}
    BY <1>2 DEF AcceptTerms, AcceptWith, AddProof
  <2>3. x.address \in People => m.text = terms /\ x.address = m.who
    BY <2>1 DEF Proof, Stranger
  <2>4. x.text = terms /\ x.nonce = m.nonce
    BY DEF Proof
  <2> HIDE DEF m, x
  <2> QED BY <2>1, <2>2, <2>3, <2>4 DEF ProofsAreSigned
<1>3. ASSUME ~ \E c \in Clients : AcceptTerms(c)
      PROVE  signed \subseteq signed' /\ proofs' = proofs
  BY <1>3 DEF LoginNext, Sign, Expire, ActivateTerms, Submit, ReadNonce, SaveNonce,
     Verified, Authenticate, SubmitPassport, VerificationFails, FindAccount,
     CreateAccount, loginVars
<1> QED BY <1>1, <1>2, <1>3

(* The inductive invariant of the logins.                                  *)
THEOREM LoginInvariance == LoginSpec => []LoginInv
<1>1. LoginInv /\ [LoginNext]_loginVars => LoginInv'
  BY LoginTypesStep, NonceStep, AccountStep DEF LoginInv
<1> QED BY <1>1, LoginInitially, PTL DEF LoginSpec

(* A nonce lets one message in, but for two that read it at a time.        *)
THEOREM NonceTheorem == LoginSpec => []NonceTakenOnce
<1>1. LoginInv => NonceTakenOnce
  BY DEF LoginInv, NonceInv, NonceTakenOnce
<1> QED BY <1>1, LoginInvariance, PTL

(* An address gets one account, but for two first logins at a time.        *)
THEOREM AccountTheorem == LoginSpec => []OneAccount
<1>1. LoginInv => OneAccount
  BY DEF LoginInv, AccountInv, OneAccount
<1> QED BY <1>1, LoginInvariance, PTL

(* Terms are recorded as accepted by who signed these very terms, although *)
(* the text that is active changes in between.                             *)
THEOREM ProofsTheorem ==
  ASSUME \A n \in Nonces : <<"stranger", n>> \notin People
  PROVE  LoginSpec => []ProofsAreSigned
<1>1. LoginInv /\ ProofsAreSigned /\ [LoginNext]_loginVars => ProofsAreSigned'
  BY SignedStep DEF LoginInv
<1> QED BY <1>1, LoginInitially, LoginInvariance, PTL DEF LoginSpec

-----------------------------------------------------------------------------
(***************************************************************************)
(* Weight configurations.                                                  *)
(***************************************************************************)
ConfigSpec == ConfigInit /\ [][ConfigNext]_configVars

ConfigRow == [version: Nat, active: BOOLEAN]
Act ==
  [step: {"idle", "upload", "clone", "copy", "item", "deactivate", "wait",
          "activate", "commit"},
   id: 0..LastId, version: Nat, todo: Lines, of: Lines,
   found: SUBSET Ids, off: SUBSET Ids]

(* What is assumed of the constants.                                       *)
ConfigConstants ==
  LastId \in Nat /\ Typed \subseteq Nat /\ None \notin ConfigRow

ConfigTypes ==
  /\ configs \in [Ids -> ConfigRow \cup {None}]
  /\ items \in [Ids -> Lines]
  /\ acts \in [Admins -> Act]
  /\ activated \in BOOLEAN
  /\ cloned \in [Ids -> Lines \cup {None}]
  /\ touched \subseteq Ids
  /\ \A a \in Admins : acts[a].step \in {"clone", "copy"} => acts[a].id \in Ids

(* An activation holds the locks of the rows that it has found active, and *)
(* there is one at most that is about to commit: nothing else is active.   *)
GoodAct(a) ==
  /\ acts[a].off # {} => acts[a].step \in {"activate", "commit"}
  /\ acts[a].off \subseteq ActiveIds
  /\ acts[a].step = "commit" =>
       acts[a].id \in Existing /\ ActiveIds \subseteq acts[a].off \cup {acts[a].id}

ActiveInv ==
  /\ \A i, j \in ActiveIds : i = j
  /\ activated => ActiveIds # {}
  /\ \A a \in Admins : GoodAct(a)
  /\ \A a, b \in Admins : a # b =>
       /\ acts[a].off \cap acts[b].off = {}
       /\ ~(acts[a].step = "commit" /\ acts[b].step = "commit")

(* A set of numbers has a least one: the intervals below them are finite.  *)
LEMMA Least ==
  ASSUME NEW S \in SUBSET Nat, S # {}
  PROVE  \E m \in S : \A n \in S : m <= n
<1> DEFINE T == {1..m : m \in S}
<1>1. T \in SUBSET FiniteSubsetsOf(Nat) /\ T # {}
  <2>1. \A m \in S : 1..m \in SUBSET Nat /\ IsFiniteSet(1..m)
    BY FS_Interval
  <2> QED BY <2>1 DEF FiniteSubsetsOf
<1>2. PICK x \in T : \A y \in T : <<y, x>> \notin StrictSubsetOrdering(Nat)
  BY <1>1, FS_StrictSubsetOrderingWellFounded, WFMin
<1>3. PICK m \in S : x = 1..m
  OBVIOUS
<1>4. ASSUME NEW n \in S, n < m PROVE FALSE
  <2>1. 1..n \subseteq 1..m /\ m \in 1..m /\ m \notin 1..n
    BY <1>4
  <2>2. <<1..n, x>> \in StrictSubsetOrdering(Nat)
    BY <2>1, <1>3 DEF StrictSubsetOrdering
  <2> QED BY <2>2, <1>2
<1> QED BY <1>4

(* The next version is one more than that of the latest configuration.     *)
LEMMA NextVersionType ==
  ASSUME ConfigConstants, ConfigTypes
  PROVE  NextVersion \in Nat
<1> USE DEF ConfigConstants, ConfigTypes
<1>1. SUFFICES ASSUME Existing # {} PROVE NextVersion \in Nat
  BY DEF NextVersion
<1>2. Existing \subseteq 1..LastId
  BY DEF Existing, Ids
<1> DEFINE S == {LastId - i : i \in Existing}
<1>3. S \in SUBSET Nat /\ S # {}
  <2>1. \A i \in Existing : LastId - i \in Nat
    BY <1>2
  <2> QED BY <1>1, <2>1
<1>4. PICK m \in S : \A n \in S : m <= n
  BY <1>3, Least
<1>5. PICK i \in Existing : m = LastId - i
  BY <1>4
<1>6. \A j \in Existing : j <= i
  <2> SUFFICES ASSUME NEW j \in Existing PROVE j <= i
    OBVIOUS
  <2>1. LastId - i <= LastId - j
    BY <1>4, <1>5
  <2> QED BY <1>2, <2>1
<1>7. Latest \in Existing
  BY <1>5, <1>6 DEF Latest
<1>8. configs[Latest] \in ConfigRow
  BY <1>7 DEF Existing
<1> QED BY <1>1, <1>8 DEF NextVersion, ConfigRow

(* The next id is free.                                                    *)
LEMMA NextIdFree ==
  ASSUME ConfigConstants, ConfigTypes, HasRoom
  PROVE  NextId \in Ids /\ configs[NextId] = None /\ NextId \notin touched
<1> DEFINE S == {i \in Ids : configs[i] = None /\ i \notin touched}
<1>1. S \in SUBSET Nat /\ S # {}
  BY DEF HasRoom, Ids
<1>2. PICK i \in S : \A j \in S : i <= j
  BY <1>1, Least
<1>3. \A j \in Ids : j < i => configs[j] # None \/ j \in touched
  <2> SUFFICES ASSUME NEW j \in Ids, j < i, j \in S PROVE FALSE
    OBVIOUS
  <2>1. i <= j /\ i \in Int /\ j \in Int
    BY <1>2 DEF Ids
  <2> QED BY <2>1
<1> QED BY <1>2, <1>3 DEF NextId

(* An admin at rest holds no lock.                                         *)
LEMMA RestingType ==
  ASSUME ConfigConstants
  PROVE  Resting \in Act /\ Resting.off = {} /\ Resting.step = "idle"
  BY DEF ConfigConstants, Resting, Act, Lines, NoLines, Ids

(* No configuration is active at the start.                                *)
LEMMA ConfigInitially ==
  ASSUME ConfigConstants
  PROVE  ConfigInit => ConfigTypes /\ ActiveInv
<1> SUFFICES ASSUME ConfigInit PROVE ConfigTypes /\ ActiveInv
  OBVIOUS
<1>1. ConfigTypes
  BY RestingType DEF ConfigInit, ConfigTypes, ConfigConstants, ConfigRow, Ids
<1>2. ActiveIds = {}
  BY DEF ConfigConstants, ConfigInit, ActiveIds, Existing, Ids
<1> QED BY <1>1, <1>2, RestingType DEF ConfigInit, ActiveInv, GoodAct

(* What an admin does changes no rows by itself.                           *)
LEMMA ActTypes ==
  ASSUME ConfigConstants, ConfigTypes, NEW a \in Admins, NEW to \in Act,
         to.step \in {"clone", "copy"} => to.id \in Ids,
         acts' = [acts EXCEPT ![a] = to],
         configs' \in [Ids -> ConfigRow \cup {None}], items' \in [Ids -> Lines],
         activated' \in BOOLEAN, cloned' \in [Ids -> Lines \cup {None}],
         touched' \subseteq Ids
  PROVE  ConfigTypes'
BY DEF ConfigTypes

(* Every step keeps the types.                                             *)
LEMMA ConfigTypesStep ==
  ASSUME ConfigConstants, ConfigTypes, ActiveInv, [ConfigNext]_configVars
  PROVE  ConfigTypes'
<1>1. Resting \in Act /\ Resting.step = "idle" /\ NextVersion \in Nat
  BY RestingType, NextVersionType
<1>0. /\ configs \in [Ids -> ConfigRow \cup {None}] /\ items \in [Ids -> Lines]
      /\ activated \in BOOLEAN /\ cloned \in [Ids -> Lines \cup {None}]
      /\ touched \subseteq Ids /\ \A a \in Admins : acts[a] \in Act
  BY DEF ConfigTypes
<1>2. ASSUME NEW a \in Admins, BeginUpload(a) PROVE ConfigTypes'
  <2>1. PICK v \in Nat :
          acts' = [acts EXCEPT ![a] = [Resting EXCEPT !.step = "upload", !.version = v]]
    BY <1>1, <1>2 DEF BeginUpload, Do, ConfigConstants
  <2> DEFINE to == [Resting EXCEPT !.step = "upload", !.version = v]
  <2>2. to \in Act /\ to.step = "upload"
    BY <1>1 DEF Act
  <2> HIDE DEF to
  <2>3. acts' = [acts EXCEPT ![a] = to]
    BY <2>1 DEF to
  <2> QED BY <1>0, <1>2, <2>2, <2>3, ActTypes DEF BeginUpload
<1>3. ASSUME NEW a \in Admins, FinishUpload(a) PROVE ConfigTypes'
  <2>1. NextId \in Ids
    BY <1>3, NextIdFree DEF FinishUpload
  <2>2. [version |-> acts[a].version, active |-> FALSE] \in ConfigRow
    BY <1>0 DEF Act, ConfigRow
  <2>3. configs' \in [Ids -> ConfigRow \cup {None}]
    BY <1>0, <1>3, <2>1, <2>2 DEF FinishUpload
  <2>4. items' \in [Ids -> Lines]
    BY <1>0, <1>3, <2>1 DEF FinishUpload
  <2>5. acts' = [acts EXCEPT ![a] = Resting]
    BY <1>3 DEF FinishUpload, Do
  <2> QED BY <1>0, <1>1, <1>3, <2>3, <2>4, <2>5, ActTypes DEF FinishUpload
<1>4. ASSUME NEW a \in Admins, PickSource(a) PROVE ConfigTypes'
  <2>1. PICK i \in Existing :
          acts' = [acts EXCEPT ![a] = [Resting EXCEPT !.step = "clone", !.id = i,
                                                      !.version = NextVersion]]
    BY <1>4 DEF PickSource, Do
  <2> DEFINE to == [Resting EXCEPT !.step = "clone", !.id = i, !.version = NextVersion]
  <2>2. i \in Ids /\ i \in 0..LastId
    BY DEF Existing, Ids, ConfigConstants
  <2>3. to \in Act /\ to.id = i
    BY <1>1, <2>2 DEF Act
  <2> HIDE DEF to
  <2>4. acts' = [acts EXCEPT ![a] = to]
    BY <2>1 DEF to
  <2> QED BY <1>0, <1>4, <2>2, <2>3, <2>4, ActTypes DEF PickSource
<1>5. ASSUME NEW a \in Admins, CreateClone(a) PROVE ConfigTypes'
  <2>1. NextId \in Ids
    BY <1>5, NextIdFree DEF CreateClone
  <2>2. [version |-> acts[a].version, active |-> FALSE] \in ConfigRow
    BY <1>0 DEF Act, ConfigRow
  <2> DEFINE to == [acts[a] EXCEPT !.step = "copy", !.found = {NextId}]
  <2>3. to \in Act /\ to.id = acts[a].id
    BY <1>0, <2>1 DEF Act
  <2>4. acts[a].step = "clone" /\ acts[a].id \in Ids
    BY <1>5 DEF CreateClone, Do, ConfigTypes
  <2> HIDE DEF to
  <2>5. acts' = [acts EXCEPT ![a] = Resting] \/ acts' = [acts EXCEPT ![a] = to]
    BY <1>5 DEF CreateClone, Do, to
  <2>6. configs' \in [Ids -> ConfigRow \cup {None}]
    BY <1>0, <1>5, <2>1, <2>2 DEF CreateClone
  <2> QED BY <1>0, <1>1, <1>5, <2>3, <2>4, <2>5, <2>6, ActTypes DEF CreateClone
<1>6. ASSUME NEW a \in Admins, ReadItems(a) PROVE ConfigTypes'
  <2>1. acts[a].id \in Ids
    BY <1>6 DEF ReadItems, Do, ConfigTypes
  <2>2. items[acts[a].id] \in Lines
    BY <1>0, <2>1
  <2> DEFINE to == [acts[a] EXCEPT !.step = "item", !.todo = items[acts[a].id],
                                   !.of = items[acts[a].id]]
  <2>3. to \in Act /\ to.step = "item"
    BY <1>0, <2>2 DEF Act
  <2> HIDE DEF to
  <2>4. acts' = [acts EXCEPT ![a] = to]
    BY <1>6 DEF ReadItems, Do, to
  <2> QED BY <1>0, <1>6, <2>3, <2>4, ActTypes DEF ReadItems
<1>7. ASSUME NEW a \in Admins, CopyItem(a) PROVE ConfigTypes'
  <2>1. PICK i \in acts[a].found, p \in Providers :
          /\ IF i \in Existing /\ items[i][p] = 0
             THEN /\ Do(a, "item", [acts[a] EXCEPT !.todo[p] = 0])
                  /\ items' = [items EXCEPT ![i][p] = acts[a].todo[p]]
             ELSE Do(a, "item", Resting) /\ UNCHANGED items
          /\ UNCHANGED <<configs, activated, cloned, touched>>
    BY <1>7 DEF CopyItem, CopyItemFrom
  <2> DEFINE to == [acts[a] EXCEPT !.todo[p] = 0]
  <2>2. acts[a].todo \in Lines /\ i \in Ids
    BY <1>0 DEF Act
  <2>3. [acts[a].todo EXCEPT ![p] = 0] \in Lines
    BY <2>2 DEF Lines
  <2>4. to \in Act /\ to.step = acts[a].step
    BY <1>0, <2>3 DEF Act
  <2> HIDE DEF to
  <2>5. acts[a].step = "item"
    BY <2>1 DEF Do
  <2>6. acts' = [acts EXCEPT ![a] = Resting] \/ acts' = [acts EXCEPT ![a] = to]
    BY <2>1 DEF Do, to
  <2>7. items' \in [Ids -> Lines]
    <3>1. [items[i] EXCEPT ![p] = acts[a].todo[p]] \in Lines
      BY <1>0, <2>2 DEF Lines
    <3>2. items' = items \/ items' = [items EXCEPT ![i] = [items[i] EXCEPT ![p] = acts[a].todo[p]]]
      BY <2>1
    <3> QED BY <1>0, <2>2, <3>1, <3>2
  <2> QED BY <1>0, <1>1, <2>1, <2>4, <2>5, <2>6, <2>7, ActTypes
<1>8. ASSUME NEW a \in Admins, ReportClone(a) PROVE ConfigTypes'
  <2>1. acts[a].of \in Lines
    BY <1>0 DEF Act
  <2>2. cloned' \in [Ids -> Lines \cup {None}]
    BY <1>0, <1>8, <2>1 DEF ReportClone
  <2> QED BY <1>0, <1>1, <1>8, <2>2, ActTypes DEF ReportClone, Do
<1>9. ASSUME NEW a \in Admins, BeginActivate(a) PROVE ConfigTypes'
  <2>1. PICK i \in Existing \ ActiveIds :
          acts' = [acts EXCEPT ![a] = [Resting EXCEPT !.step = "deactivate", !.id = i]]
    BY <1>9 DEF BeginActivate, Do
  <2> DEFINE to == [Resting EXCEPT !.step = "deactivate", !.id = i]
  <2>2. i \in 0..LastId
    BY DEF Existing, Ids, ConfigConstants
  <2>3. to \in Act /\ to.step = "deactivate"
    BY <1>1, <2>2 DEF Act
  <2> HIDE DEF to
  <2>4. acts' = [acts EXCEPT ![a] = to]
    BY <2>1 DEF to
  <2> QED BY <1>0, <1>9, <2>3, <2>4, ActTypes DEF BeginActivate
<1>10. ASSUME NEW a \in Admins, FindActive(a) PROVE ConfigTypes'
  <2> DEFINE to == [acts[a] EXCEPT !.step = "wait", !.found = ActiveIds]
  <2>1. ActiveIds \in SUBSET Ids
    BY DEF ActiveIds, Existing
  <2>2. to \in Act /\ to.step = "wait"
    BY <1>0, <2>1 DEF Act
  <2> HIDE DEF to
  <2>3. acts' = [acts EXCEPT ![a] = to]
    BY <1>10 DEF FindActive, Do, to
  <2> QED BY <1>0, <1>10, <2>2, <2>3, ActTypes DEF FindActive
<1>11. ASSUME NEW a \in Admins, Deactivate(a) PROVE ConfigTypes'
  <2> DEFINE to == [acts[a] EXCEPT !.step = "activate", !.found = {},
                                   !.off = acts[a].found \cap ActiveIds]
  <2>1. acts[a].found \cap ActiveIds \in SUBSET Ids
    BY DEF ActiveIds, Existing
  <2>2. to \in Act /\ to.step = "activate"
    BY <1>0, <2>1 DEF Act
  <2> HIDE DEF to
  <2>3. acts' = [acts EXCEPT ![a] = to]
    BY <1>11 DEF Deactivate, Do, to
  <2> QED BY <1>0, <1>11, <2>2, <2>3, ActTypes DEF Deactivate
<1>12. ASSUME NEW a \in Admins, SetActive(a) PROVE ConfigTypes'
  <2> DEFINE to == [acts[a] EXCEPT !.step = "commit"]
  <2>1. to \in Act /\ to.step = "commit"
    BY <1>0 DEF Act
  <2> HIDE DEF to
  <2>2. acts' = [acts EXCEPT ![a] = Resting] \/ acts' = [acts EXCEPT ![a] = to]
    BY <1>12 DEF SetActive, Do, to
  <2> QED BY <1>0, <1>1, <1>12, <2>1, <2>2, ActTypes DEF SetActive
<1>13. ASSUME NEW a \in Admins, CommitActive(a) PROVE ConfigTypes'
  <2>1. acts[a].id \in Existing /\ acts[a].off \subseteq Existing
    BY <1>13 DEF CommitActive, Do, ActiveInv, GoodAct, ActiveIds
  <2>2. \A i \in Existing : configs[i] \in ConfigRow
    BY <1>0 DEF Existing
  <2>3. \A i \in Existing, b \in BOOLEAN : [configs[i] EXCEPT !.active = b] \in ConfigRow
    BY <2>2 DEF ConfigRow
  <2>4. configs' \in [Ids -> ConfigRow \cup {None}]
    BY <1>0, <1>13, <2>1, <2>3 DEF CommitActive
  <2> QED BY <1>0, <1>1, <1>13, <2>4, ActTypes DEF CommitActive, Do
<1>14. ASSUME NEW a \in Admins, BreakOff(a) PROVE ConfigTypes'
  BY <1>0, <1>1, <1>14, ActTypes DEF BreakOff, Do
<1>15. CASE EditItem
  BY <1>15 DEF EditItem, Existing, Lines, ConfigTypes
<1>16. CASE DeleteConfig
  BY <1>16 DEF DeleteConfig, Existing, Lines, NoLines, ConfigTypes
<1>17. CASE UNCHANGED configVars
  BY <1>17 DEF configVars, ConfigTypes
<1> QED
  BY <1>2, <1>3, <1>4, <1>5, <1>6, <1>7, <1>8, <1>9, <1>10, <1>11, <1>12, <1>13,
     <1>14, <1>15, <1>16, <1>17 DEF ConfigNext

(* What an admin does outside the two updates of an activation leaves the  *)
(* active ones alone, and holds no lock.                                   *)
LEMMA ActApart ==
  ASSUME ConfigTypes, ActiveInv, NEW a \in Admins, NEW to \in Act,
         to.off = {}, to.step # "commit", acts' = [acts EXCEPT ![a] = to],
         ActiveIds' = ActiveIds, Existing \subseteq Existing', activated' = activated
  PROVE  ActiveInv'
<1>1. \A b \in Admins : acts'[b] = IF b = a THEN to ELSE acts[b]
  BY DEF ConfigTypes
<1>2. \A b \in Admins : GoodAct(b)'
  BY <1>1 DEF ActiveInv, GoodAct
<1>3. \A b, c \in Admins : b # c =>
        /\ acts'[b].off \cap acts'[c].off = {}
        /\ ~(acts'[b].step = "commit" /\ acts'[c].step = "commit")
  BY <1>1 DEF ActiveInv
<1> QED BY <1>2, <1>3 DEF ActiveInv

(* A new row is not active.                                                *)
LEMMA NewRow ==
  ASSUME ConfigConstants, ConfigTypes, NEW i \in Ids, configs[i] = None,
         NEW row \in ConfigRow, row.active = FALSE,
         configs' = [configs EXCEPT ![i] = row]
  PROVE  ActiveIds' = ActiveIds /\ Existing \subseteq Existing'
<1>1. /\ configs' \in [Ids -> ConfigRow \cup {None}]
      /\ \A j \in Ids : configs'[j] = IF j = i THEN row ELSE configs[j]
  BY DEF ConfigTypes
<1>2. Existing' = Existing \cup {i}
  BY <1>1 DEF Existing, ConfigConstants
<1> QED BY <1>1, <1>2 DEF ActiveIds, Existing

(* Every step keeps one place of the active one.                           *)
LEMMA ActiveStep ==
  ASSUME ConfigConstants, ConfigTypes, ActiveInv, [ConfigNext]_configVars
  PROVE  ActiveInv'
<1>1. Resting \in Act /\ Resting.step = "idle" /\ Resting.off = {}
  BY RestingType
<1>2. UNCHANGED configs => ActiveIds' = ActiveIds /\ Existing' = Existing
  BY DEF ActiveIds, Existing
<1>3. \A a \in Admins : acts[a] \in Act
  BY DEF ConfigTypes
<1>4. ASSUME NEW a \in Admins, acts[a].step \notin {"activate", "commit"}
      PROVE  acts[a].off = {}
  BY <1>4 DEF ActiveInv, GoodAct
<1>5. ASSUME NEW a \in Admins, acts' = [acts EXCEPT ![a] = Resting],
             UNCHANGED <<configs, activated>>
      PROVE  ActiveInv'
  BY <1>1, <1>2, <1>5, ActApart
<1>6. ASSUME NEW a \in Admins, BeginUpload(a) \/ PickSource(a) \/ BeginActivate(a)
      PROVE  ActiveInv'
  <2>1. PICK s \in {"upload", "clone", "deactivate"}, i \in 0..LastId, v \in Nat :
          acts' = [acts EXCEPT ![a] = [Resting EXCEPT !.step = s, !.id = i, !.version = v]]
    <3>1. Resting.id \in 0..LastId /\ Resting.version \in Nat /\ NextVersion \in Nat
      BY <1>1, NextVersionType DEF Act
    <3>2. CASE BeginUpload(a)
      <4>1. PICK v \in Nat :
              acts' = [acts EXCEPT ![a] = [Resting EXCEPT !.step = "upload", !.version = v]]
        BY <3>1, <3>2 DEF BeginUpload, Do, ConfigConstants
      <4>2. [Resting EXCEPT !.step = "upload", !.version = v]
              = [Resting EXCEPT !.step = "upload", !.id = Resting.id, !.version = v]
        BY <1>1 DEF Act
      <4> QED BY <3>1, <4>1, <4>2
    <3>3. CASE PickSource(a)
      <4>1. Existing \subseteq 0..LastId
        BY DEF Existing, Ids, ConfigConstants
      <4> QED BY <3>1, <3>3, <4>1 DEF PickSource, Do
    <3>4. CASE BeginActivate(a)
      <4>1. PICK i \in Existing :
              acts' = [acts EXCEPT ![a] = [Resting EXCEPT !.step = "deactivate", !.id = i]]
        BY <3>4 DEF BeginActivate, Do
      <4>2. [Resting EXCEPT !.step = "deactivate", !.id = i]
              = [Resting EXCEPT !.step = "deactivate", !.id = i, !.version = Resting.version]
        BY <1>1 DEF Act
      <4>3. i \in 0..LastId
        BY DEF Existing, Ids, ConfigConstants
      <4> QED BY <3>1, <4>1, <4>2, <4>3
    <3> QED BY <1>6, <3>2, <3>3, <3>4
  <2> DEFINE to == [Resting EXCEPT !.step = s, !.id = i, !.version = v]
  <2>2. to \in Act /\ to.off = {} /\ to.step # "commit"
    BY <1>1 DEF Act
  <2> HIDE DEF to
  <2>3. acts' = [acts EXCEPT ![a] = to]
    BY <2>1 DEF to
  <2>4. UNCHANGED <<configs, activated>>
    BY <1>6 DEF BeginUpload, PickSource, BeginActivate
  <2> QED BY <1>2, <2>2, <2>3, <2>4, ActApart
<1>7. ASSUME NEW a \in Admins, FinishUpload(a) PROVE ActiveInv'
  <2>1. NextId \in Ids /\ configs[NextId] = None
    BY <1>7, NextIdFree DEF FinishUpload
  <2> DEFINE row == [version |-> acts[a].version, active |-> FALSE]
  <2>2. row \in ConfigRow /\ row.active = FALSE
    BY <1>3 DEF Act, ConfigRow
  <2> HIDE DEF row
  <2>3. UNCHANGED configs \/ configs' = [configs EXCEPT ![NextId] = row]
    BY <1>7 DEF FinishUpload, row
  <2>4. ActiveIds' = ActiveIds /\ Existing \subseteq Existing'
    BY <1>2, <2>1, <2>2, <2>3, NewRow
  <2> QED BY <1>1, <1>7, <2>4, ActApart DEF FinishUpload, Do
<1>8. ASSUME NEW a \in Admins, CreateClone(a) PROVE ActiveInv'
  <2>1. NextId \in Ids /\ configs[NextId] = None
    BY <1>8, NextIdFree DEF CreateClone
  <2> DEFINE row == [version |-> acts[a].version, active |-> FALSE]
  <2>2. row \in ConfigRow /\ row.active = FALSE
    BY <1>3 DEF Act, ConfigRow
  <2> HIDE DEF row
  <2> DEFINE to == [acts[a] EXCEPT !.step = "copy", !.found = {NextId}]
  <2>3. to \in Act /\ to.step = "copy" /\ to.off = acts[a].off
    BY <1>3, <2>1 DEF Act
  <2>4. acts[a].step = "clone"
    BY <1>8 DEF CreateClone, Do
  <2>5. to.off = {}
    BY <1>4, <2>3, <2>4
  <2> HIDE DEF to
  <2>6. \/ UNCHANGED configs /\ acts' = [acts EXCEPT ![a] = Resting]
        \/ configs' = [configs EXCEPT ![NextId] = row] /\ acts' = [acts EXCEPT ![a] = to]
    BY <1>8 DEF CreateClone, Do, row, to
  <2>7. ActiveIds' = ActiveIds /\ Existing \subseteq Existing'
    BY <1>2, <2>1, <2>2, <2>6, NewRow
  <2> QED BY <1>1, <1>8, <2>3, <2>5, <2>6, <2>7, ActApart DEF CreateClone
<1>9. ASSUME NEW a \in Admins, ReadItems(a) \/ FindActive(a) PROVE ActiveInv'
  <2>1. acts[a].step \in {"copy", "deactivate"} /\ UNCHANGED <<configs, activated>>
    BY <1>9 DEF ReadItems, FindActive, Do
  <2>2. acts[a].off = {}
    BY <1>4, <2>1
  <2>3. CASE ReadItems(a)
    <3> DEFINE to == [acts[a] EXCEPT !.step = "item", !.todo = items[acts[a].id],
                                     !.of = items[acts[a].id]]
    <3>1. acts[a].id \in Ids
      BY <2>3 DEF ReadItems, Do, ConfigTypes
    <3>2. items[acts[a].id] \in Lines
      BY <3>1 DEF ConfigTypes
    <3>3. to \in Act /\ to.step = "item" /\ to.off = {}
      BY <1>3, <2>2, <3>2 DEF Act
    <3> HIDE DEF to
    <3>4. acts' = [acts EXCEPT ![a] = to]
      BY <2>3 DEF ReadItems, Do, to
    <3> QED BY <1>2, <2>1, <3>3, <3>4, ActApart
  <2>4. CASE FindActive(a)
    <3> DEFINE to == [acts[a] EXCEPT !.step = "wait", !.found = ActiveIds]
    <3>1. ActiveIds \in SUBSET Ids
      BY DEF ActiveIds, Existing
    <3>2. to \in Act /\ to.step = "wait" /\ to.off = {}
      BY <1>3, <2>2, <3>1 DEF Act
    <3> HIDE DEF to
    <3>3. acts' = [acts EXCEPT ![a] = to]
      BY <2>4 DEF FindActive, Do, to
    <3> QED BY <1>2, <2>1, <3>2, <3>3, ActApart
  <2> QED BY <1>9, <2>3, <2>4
<1>10. ASSUME NEW a \in Admins, CopyItem(a) PROVE ActiveInv'
  <2>1. PICK p \in Providers :
          \/ acts' = [acts EXCEPT ![a] = Resting]
          \/ acts' = [acts EXCEPT ![a] = [acts[a] EXCEPT !.todo[p] = 0]]
    BY <1>10 DEF CopyItem, CopyItemFrom, Do
  <2> DEFINE to == [acts[a] EXCEPT !.todo[p] = 0]
  <2>2. acts[a].step = "item"
    BY <1>10 DEF CopyItem, CopyItemFrom, Do
  <2>3. [acts[a].todo EXCEPT ![p] = 0] \in Lines
    BY <1>3 DEF Act, Lines
  <2>4. to \in Act /\ to.step = acts[a].step /\ to.off = acts[a].off
    BY <1>3, <2>3 DEF Act
  <2> HIDE DEF to
  <2>5. UNCHANGED <<configs, activated>>
    BY <1>10 DEF CopyItem, CopyItemFrom
  <2>6. CASE acts' = [acts EXCEPT ![a] = to]
    BY <1>2, <1>4, <2>2, <2>4, <2>5, <2>6, ActApart
  <2> QED BY <1>5, <2>1, <2>5, <2>6 DEF to
<1>11. ASSUME NEW a \in Admins, ReportClone(a) \/ BreakOff(a) PROVE ActiveInv'
  BY <1>5, <1>11 DEF ReportClone, BreakOff, Do
<1>12. ASSUME NEW a \in Admins, Deactivate(a) PROVE ActiveInv'
  <2> DEFINE off == acts[a].found \cap ActiveIds
  <2>1. \A b \in Admins : acts'[b] = IF b = a THEN [acts[a] EXCEPT !.step = "activate",
                                                        !.found = {}, !.off = off]
                                     ELSE acts[b]
    BY <1>12 DEF Deactivate, Do, ConfigTypes
  <2>2. acts'[a].step = "activate" /\ acts'[a].off = off
    BY <1>3, <2>1 DEF Act
  <2>3. \A b \in Admins \ {a} : acts[b].off \cap off = {}
    BY <1>12 DEF Deactivate, Locked, LockedBy
  <2>4. ActiveIds' = ActiveIds /\ Existing' = Existing /\ activated' = activated
    BY <1>2, <1>12 DEF Deactivate
  <2>5. off \subseteq ActiveIds
    OBVIOUS
  <2> HIDE DEF off
  <2>6. \A b \in Admins \ {a} : acts'[b] = acts[b]
    BY <2>1
  <2>7. \A b \in Admins : GoodAct(b)'
    BY <2>2, <2>4, <2>5, <2>6 DEF ActiveInv, GoodAct
  <2>8. \A b, c \in Admins : b # c =>
          /\ acts'[b].off \cap acts'[c].off = {}
          /\ ~(acts'[b].step = "commit" /\ acts'[c].step = "commit")
    BY <2>2, <2>3, <2>6 DEF ActiveInv
  <2> QED BY <2>4, <2>7, <2>8 DEF ActiveInv
<1>13. ASSUME NEW a \in Admins, SetActive(a) PROVE ActiveInv'
  <2>1. CASE acts' = [acts EXCEPT ![a] = Resting]
    BY <1>5, <1>13, <2>1 DEF SetActive
  <2>2. CASE acts' # [acts EXCEPT ![a] = Resting]
    <3>1. /\ acts[a].id \in Existing /\ ActiveIds \ (acts[a].off \cup {acts[a].id}) = {}
          /\ acts' = [acts EXCEPT ![a] = [acts[a] EXCEPT !.step = "commit"]]
      BY <1>13, <2>2 DEF SetActive, Do
    <3>2. \A b \in Admins \ {a} : acts[b].step # "commit" /\ acts'[b] = acts[b]
      BY <1>13, <3>1 DEF SetActive, ConfigTypes
    <3>3. /\ acts'[a].step = "commit" /\ acts'[a].off = acts[a].off
          /\ acts'[a].id = acts[a].id
      BY <1>3, <3>1 DEF Act, ConfigTypes
    <3>4. ActiveIds' = ActiveIds /\ Existing' = Existing /\ activated' = activated
      BY <1>2, <1>13 DEF SetActive
    <3>5. \A b \in Admins : GoodAct(b)'
      BY <3>1, <3>2, <3>3, <3>4 DEF ActiveInv, GoodAct
    <3>6. \A b, c \in Admins : b # c =>
            /\ acts'[b].off \cap acts'[c].off = {}
            /\ ~(acts'[b].step = "commit" /\ acts'[c].step = "commit")
      BY <3>2, <3>3 DEF ActiveInv
    <3> QED BY <3>4, <3>5, <3>6 DEF ActiveInv
  <2> QED BY <2>1, <2>2
<1>14. ASSUME NEW a \in Admins, CommitActive(a) PROVE ActiveInv'
  <2> DEFINE new == acts[a].id
  <2>1. acts[a].step = "commit" /\ acts' = [acts EXCEPT ![a] = Resting]
    BY <1>14 DEF CommitActive, Do
  <2>2. new \in Existing /\ ActiveIds \subseteq acts[a].off \cup {new}
    BY <2>1 DEF ActiveInv, GoodAct
  <2>3. /\ \A i \in Ids \ {new} : i \in acts[a].off =>
             configs'[i] = [configs[i] EXCEPT !.active = FALSE]
        /\ \A i \in Ids \ {new} : i \notin acts[a].off => configs'[i] = configs[i]
        /\ configs'[new] = [configs[new] EXCEPT !.active = TRUE]
    BY <1>14, <2>2 DEF CommitActive, Existing
  <2>4. acts[a].off \subseteq Existing
    BY DEF ActiveInv, GoodAct, ActiveIds
  <2>5. \A i \in Existing : configs[i] \in ConfigRow
    BY DEF ConfigTypes, Existing
  <2>6. \A i \in Existing, b \in BOOLEAN :
          /\ [configs[i] EXCEPT !.active = b] \in ConfigRow
          /\ [configs[i] EXCEPT !.active = b].active = b
    BY <2>5 DEF ConfigRow
  <2>7. Existing \subseteq Existing'
    <3> SUFFICES ASSUME NEW i \in Existing PROVE i \in Ids /\ configs'[i] # None
      BY DEF Existing
    <3>1. i \in Ids /\ configs[i] # None
      BY DEF Existing
    <3>2. configs'[i] \in ConfigRow \/ configs'[i] = configs[i]
      <4>1. CASE i = new
        BY <2>3, <2>6, <4>1
      <4>2. CASE i # new /\ i \in acts[a].off
        <5>1. configs'[i] = [configs[i] EXCEPT !.active = FALSE]
          BY <2>3, <3>1, <4>2
        <5> QED BY <2>6, <5>1
      <4>3. CASE i # new /\ i \notin acts[a].off
        BY <2>3, <3>1, <4>3
      <4> QED BY <4>1, <4>2, <4>3
    <3> QED BY <3>1, <3>2 DEF ConfigConstants
  <2>8. new \in ActiveIds'
    BY <2>2, <2>3, <2>6, <2>7 DEF ActiveIds
  <2>9. \A i \in ActiveIds' : i = new
    <3> SUFFICES ASSUME NEW i \in ActiveIds', i # new PROVE FALSE
      OBVIOUS
    <3>1. i \in Ids /\ configs'[i] # None /\ configs'[i].active
      BY DEF ActiveIds, Existing
    <3>2. CASE i \in acts[a].off
      <4>1. configs'[i] = [configs[i] EXCEPT !.active = FALSE] /\ i \in Existing
        BY <2>3, <2>4, <3>1, <3>2
      <4>2. [configs[i] EXCEPT !.active = FALSE].active = FALSE
        BY <2>6, <4>1
      <4> QED BY <3>1, <4>1, <4>2
    <3>3. CASE i \notin acts[a].off
      <4>1. i \in ActiveIds
        BY <2>3, <3>1, <3>3 DEF ActiveIds, Existing
      <4> QED BY <2>2, <3>3, <4>1
    <3> QED BY <3>2, <3>3
  <2>10. acts'[a] = Resting /\ \A b \in Admins \ {a} : acts'[b] = acts[b]
    BY <2>1 DEF ConfigTypes
  <2>11. \A b \in Admins \ {a} : acts[b].step # "commit" /\ acts[b].off \subseteq {new}
    BY <2>1, <2>2 DEF ActiveInv, GoodAct
  <2>12. \A b \in Admins : GoodAct(b)'
    BY <1>1, <2>8, <2>10, <2>11 DEF ActiveInv, GoodAct
  <2>13. \A b, c \in Admins : b # c =>
           /\ acts'[b].off \cap acts'[c].off = {}
           /\ ~(acts'[b].step = "commit" /\ acts'[c].step = "commit")
    BY <1>1, <2>10 DEF ActiveInv
  <2> QED BY <2>8, <2>9, <2>12, <2>13 DEF ActiveInv
<1>15. CASE EditItem
  BY <1>2, <1>15 DEF EditItem, ActiveInv, GoodAct
<1>16. CASE DeleteConfig
  <2>1. PICK i \in Existing :
          /\ Free(i) /\ configs' = [configs EXCEPT ![i] = None]
          /\ activated' = (activated /\ ~configs[i].active) /\ UNCHANGED acts
    BY <1>16 DEF DeleteConfig
  <2>2. \A j \in Ids : configs'[j] = IF j = i THEN None ELSE configs[j]
    BY <2>1 DEF ConfigTypes
  <2>3. Existing' = Existing \ {i}
    BY <2>1, <2>2 DEF Existing
  <2>4. ActiveIds' = ActiveIds \ {i}
    BY <2>2, <2>3 DEF ActiveIds, Existing
  <2>5. \A b \in Admins :
          i \notin acts[b].off /\ (acts[b].step = "commit" => acts[b].id # i)
    BY <2>1 DEF Free, LockedBy
  <2>6. \A b \in Admins : GoodAct(b)'
    BY <2>1, <2>3, <2>4, <2>5 DEF ActiveInv, GoodAct
  <2>7. activated' => ActiveIds' # {}
    BY <2>1, <2>4 DEF ActiveInv, ActiveIds
  <2> QED BY <2>1, <2>4, <2>6, <2>7 DEF ActiveInv
<1>17. CASE UNCHANGED configVars
  BY <1>2, <1>17 DEF configVars, ActiveInv, GoodAct
<1> QED
  BY <1>6, <1>7, <1>8, <1>9, <1>10, <1>11, <1>12, <1>13, <1>14, <1>15, <1>16, <1>17
  DEF ConfigNext

(* At any time one configuration at most is active, and from the first     *)
(* activation on there is one unless it was deleted: whatever admins clone,*)
(* upload, edit, delete and activate at a time.                            *)
THEOREM ActiveTheorem ==
  ASSUME ConfigConstants
  PROVE  ConfigSpec => []OneIsActive
<1> DEFINE Inv == ConfigTypes /\ ActiveInv
<1>1. ConfigInit => Inv
  BY ConfigInitially
<1>2. Inv /\ [ConfigNext]_configVars => Inv'
  BY ConfigTypesStep, ActiveStep
<1>3. Inv => OneIsActive
  <2> SUFFICES ASSUME Inv PROVE Cardinality(ActiveIds) <= 1
    BY DEF ActiveInv, OneIsActive
  <2>1. CASE ActiveIds = {}
    BY <2>1, FS_EmptySet
  <2>2. CASE ActiveIds # {}
    <3>1. PICK i : ActiveIds = {i}
      BY <2>2 DEF ActiveInv
    <3> QED BY <3>1, FS_Singleton
  <2> QED BY <2>1, <2>2
<1> HIDE DEF Inv
<1> QED BY <1>1, <1>2, <1>3, PTL DEF ConfigSpec

(* A clone is copied from "copy" on: none of its items is there yet; then  *)
(* each is there, or still to come as it was read.                         *)
Copying(a) == acts[a].step \in {"copy", "item"}

Half(a, i) ==
  /\ acts[a].step = "copy" => items[i] = NoLines
  /\ acts[a].step = "item" =>
       \A p \in Providers :
         \/ acts[a].todo[p] = 0 /\ items[i][p] = acts[a].of[p]
         \/ acts[a].todo[p] = acts[a].of[p] /\ items[i][p] = 0

(* An id that was never used has no items; who copies has one clone of his *)
(* own; one that was reported has what was read, and nobody copies to it.  *)
CloneInv ==
  /\ \A i \in Ids : configs[i] = None /\ i \notin touched =>
       /\ items[i] = NoLines /\ cloned[i] = None
       /\ \A a \in Admins : Copying(a) => i \notin acts[a].found
  /\ \A i \in Ids : i \notin touched /\ cloned[i] # None =>
       /\ items[i] = cloned[i]
       /\ \A a \in Admins : Copying(a) => i \notin acts[a].found
  /\ \A a \in Admins : Copying(a) =>
       /\ \A i, j \in acts[a].found : i = j
       /\ \A i \in acts[a].found : i \notin touched => Half(a, i)
  /\ \A a, b \in Admins :
       a # b /\ Copying(a) /\ Copying(b) => acts[a].found \cap acts[b].found = {}

(* What an admin does without copying leaves the clones as they are.       *)
LEMMA QuietStep ==
  ASSUME ConfigTypes, CloneInv, NEW a \in Admins, NEW to,
         to.step \notin {"copy", "item"},
         acts' = [acts EXCEPT ![a] = to], UNCHANGED <<items, cloned, touched>>,
         \A i \in Ids : configs'[i] = None => configs[i] = None
  PROVE  CloneInv'
<1>1. /\ acts'[a] = to /\ ~Copying(a)'
      /\ \A b \in Admins : b # a => acts'[b] = acts[b] /\ (Copying(b)' <=> Copying(b))
  BY DEF ConfigTypes, Copying
<1>2. \A b \in Admins : Copying(b)' => Copying(b) /\ acts'[b] = acts[b]
  BY <1>1
<1>3. \A b \in Admins, i \in Ids : acts'[b] = acts[b] => (Half(b, i)' <=> Half(b, i))
  BY DEF Half
<1>4. \A b \in Admins : acts[b].found \subseteq Ids
  BY DEF ConfigTypes, Act
<1> QED BY <1>2, <1>3, <1>4 DEF CloneInv

(* A page that is saved, or a clone that is begun, takes an id that was    *)
(* never used.                                                             *)
LEMMA NewIdStep ==
  ASSUME ConfigTypes, CloneInv, NEW n \in Ids, configs[n] = None, n \notin touched,
         NEW a \in Admins, NEW to, acts' = [acts EXCEPT ![a] = to],
         NEW row, row # None, configs' = [configs EXCEPT ![n] = row],
         UNCHANGED <<cloned, touched>>,
         \/ to.step \notin {"copy", "item"} /\ \E csv : items' = [items EXCEPT ![n] = csv]
         \/ to.step = "copy" /\ to.found = {n} /\ items' = items
  PROVE  CloneInv'
<1>1. /\ acts'[a] = to
      /\ \A b \in Admins : b # a => acts'[b] = acts[b] /\ (Copying(b)' <=> Copying(b))
  BY DEF ConfigTypes, Copying
<1>2. /\ configs'[n] # None
      /\ \A i \in Ids : i # n => configs'[i] = configs[i] /\ items'[i] = items[i]
  BY DEF ConfigTypes
<1>3. \A b \in Admins : acts[b].found \subseteq Ids
  BY DEF ConfigTypes, Act
<1>4. /\ items[n] = NoLines /\ cloned[n] = None
      /\ \A b \in Admins : Copying(b) => n \notin acts[b].found
  BY DEF CloneInv
<1>5. \A b \in Admins, i \in Ids : b # a /\ i # n => (Half(b, i)' <=> Half(b, i))
  BY <1>1, <1>2 DEF Half
<1>6. Copying(a)' => to.step = "copy" /\ to.found = {n} /\ Half(a, n)'
  BY <1>1, <1>4 DEF Copying, Half
<1>7. \A i \in Ids : configs'[i] = None /\ i \notin touched' =>
        /\ items'[i] = NoLines /\ cloned'[i] = None
        /\ \A b \in Admins : Copying(b)' => i \notin acts'[b].found
  BY <1>1, <1>2, <1>6 DEF CloneInv
<1>8. \A i \in Ids : i \notin touched' /\ cloned'[i] # None =>
        /\ items'[i] = cloned'[i]
        /\ \A b \in Admins : Copying(b)' => i \notin acts'[b].found
  BY <1>1, <1>2, <1>4, <1>6 DEF CloneInv
<1>9. \A b \in Admins : Copying(b)' =>
        /\ \A i, j \in acts'[b].found : i = j
        /\ \A i \in acts'[b].found : i \notin touched' => Half(b, i)'
  <2>1. CASE Copying(a)'
    <3>1. acts'[a].found = {n}
      BY <1>1, <1>6, <2>1
    <3> QED BY <1>1, <1>3, <1>4, <1>5, <1>6, <3>1 DEF CloneInv
  <2>2. CASE ~Copying(a)'
    BY <1>1, <1>3, <1>4, <1>5, <2>2 DEF CloneInv
  <2> QED BY <2>1, <2>2
<1>10. \A b, c \in Admins :
         b # c /\ Copying(b)' /\ Copying(c)' => acts'[b].found \cap acts'[c].found = {}
  <2>1. \A b \in Admins : b # a /\ Copying(b)' /\ Copying(a)' =>
          acts'[b].found \cap acts'[a].found = {}
    BY <1>1, <1>4, <1>6
  <2> QED BY <1>1, <2>1 DEF CloneInv
<1> QED BY <1>7, <1>8, <1>9, <1>10 DEF CloneInv

(* A clone goes on: its admin reads the items, or copies one of them.      *)
LEMMA CopyingStep ==
  ASSUME ConfigTypes, CloneInv, NEW a \in Admins, Copying(a), NEW to,
         to.step = "item", to.found = acts[a].found,
         acts' = [acts EXCEPT ![a] = to], UNCHANGED <<configs, cloned, touched>>,
         \A i \in Ids : i \notin acts[a].found => items'[i] = items[i],
         \A i \in acts[a].found : i \notin touched => Half(a, i)'
  PROVE  CloneInv'
<1>1. /\ acts'[a] = to /\ Copying(a)'
      /\ \A b \in Admins : b # a => acts'[b] = acts[b] /\ (Copying(b)' <=> Copying(b))
  BY DEF ConfigTypes, Copying
<1>2. \A b \in Admins : acts'[b].found = acts[b].found /\ (Copying(b)' <=> Copying(b))
  BY <1>1
<1>3. \A b \in Admins : acts[b].found \subseteq Ids
  BY DEF ConfigTypes, Act
<1>4. ASSUME NEW b \in Admins, b # a, Copying(b), NEW i \in acts[b].found, i \notin touched
      PROVE  Half(b, i)'
  <2>1. i \in Ids /\ i \notin acts[a].found /\ Half(b, i)
    BY <1>3, <1>4 DEF CloneInv
  <2>2. items'[i] = items[i] /\ acts'[b] = acts[b]
    BY <1>1, <1>4, <2>1
  <2> QED BY <2>1, <2>2 DEF Half
<1>5. \A i \in Ids : configs[i] = None /\ i \notin touched => items'[i] = items[i]
  BY DEF CloneInv
<1>6. \A i \in Ids : i \notin touched /\ cloned[i] # None => items'[i] = items[i]
  BY DEF CloneInv
<1> QED BY <1>2, <1>4, <1>5, <1>6 DEF CloneInv

(* An admin edits or deletes a configuration, which touches it.            *)
LEMMA TouchStep ==
  ASSUME ConfigTypes, CloneInv, NEW i \in Ids, touched' = touched \cup {i},
         UNCHANGED <<acts, cloned>>,
         \A j \in Ids : j # i => items'[j] = items[j] /\ configs'[j] = configs[j]
  PROVE  CloneInv'
<1>1. \A b \in Admins : acts[b].found \subseteq Ids /\ (Copying(b)' <=> Copying(b))
  BY DEF ConfigTypes, Act, Copying
<1>2. \A b \in Admins, j \in Ids : j # i => (Half(b, j)' <=> Half(b, j))
  BY DEF Half
<1>3. \A j \in Ids : j \notin touched' => j # i /\ j \notin touched
  OBVIOUS
<1> QED BY <1>1, <1>2, <1>3 DEF CloneInv

(* A clone that ends is whole.                                             *)
LEMMA ReportStep ==
  ASSUME ConfigConstants, ConfigTypes, CloneInv, NEW a \in Admins, ReportClone(a)
  PROVE  CloneInv'
<1>1. PICK x : x = acts[a]
  OBVIOUS
<1>2. /\ x.step = "item" /\ x.todo = NoLines /\ x.of \in Lines /\ Copying(a)
      /\ x.found \subseteq Ids
  BY <1>1 DEF ReportClone, Do, ConfigTypes, Act, Copying
<1>3. /\ acts' = [acts EXCEPT ![a] = Resting] /\ UNCHANGED <<configs, items, touched>>
      /\ cloned' = [i \in Ids |-> IF i \in x.found THEN x.of ELSE cloned[i]]
  BY <1>1 DEF ReportClone, Do
<1>4. /\ ~Copying(a)'
      /\ \A b \in Admins : b # a => acts'[b] = acts[b] /\ (Copying(b)' <=> Copying(b))
  BY <1>3 DEF ConfigTypes, Copying, Resting
<1>5. \A b \in Admins : acts[b].found \subseteq Ids
  BY DEF ConfigTypes, Act
<1>6. \A b \in Admins, i \in Ids : b # a => (Half(b, i)' <=> Half(b, i))
  BY <1>3, <1>4 DEF Half
<1>7. ASSUME NEW i \in x.found, i \notin touched PROVE items[i] = x.of
  <2>1. i \in Ids /\ Half(a, i) /\ items[i] \in Lines
    BY <1>1, <1>2, <1>7 DEF CloneInv, ConfigTypes
  <2>2. \A p \in Providers : x.todo[p] = 0
    BY <1>2 DEF NoLines
  <2>3. \A p \in Providers : items[i][p] = x.of[p]
    BY <1>1, <1>2, <2>1, <2>2 DEF Half
  <2> QED BY <1>2, <2>1, <2>3 DEF Lines
<1>8. \A i \in x.found : i \notin touched =>
        configs[i] # None /\ \A b \in Admins : b # a /\ Copying(b) => i \notin acts[b].found
  BY <1>1, <1>2 DEF CloneInv
<1>9. \A i \in Ids : configs'[i] = None /\ i \notin touched' =>
        /\ items'[i] = NoLines /\ cloned'[i] = None
        /\ \A b \in Admins : Copying(b)' => i \notin acts'[b].found
  BY <1>3, <1>4, <1>8 DEF CloneInv
<1>10. \A i \in Ids : i \notin touched' /\ cloned'[i] # None =>
         /\ items'[i] = cloned'[i]
         /\ \A b \in Admins : Copying(b)' => i \notin acts'[b].found
  <2> SUFFICES ASSUME NEW i \in Ids, i \notin touched, cloned'[i] # None
               PROVE  /\ items'[i] = cloned'[i]
                      /\ \A b \in Admins : Copying(b)' => i \notin acts'[b].found
    BY <1>3
  <2>1. CASE i \in x.found
    BY <1>3, <1>4, <1>7, <1>8, <2>1
  <2>2. CASE i \notin x.found
    <3>1. cloned'[i] = cloned[i]
      BY <1>3, <2>2
    <3> QED BY <1>3, <1>4, <3>1 DEF CloneInv
  <2> QED BY <2>1, <2>2
<1>11. \A b \in Admins : Copying(b)' =>
         /\ \A i, j \in acts'[b].found : i = j
         /\ \A i \in acts'[b].found : i \notin touched' => Half(b, i)'
  BY <1>3, <1>4, <1>5, <1>6 DEF CloneInv
<1>12. \A b, c \in Admins :
         b # c /\ Copying(b)' /\ Copying(c)' => acts'[b].found \cap acts'[c].found = {}
  BY <1>4 DEF CloneInv
<1> QED BY <1>9, <1>10, <1>11, <1>12 DEF CloneInv

(* An item is copied to the clone, or ends it.                             *)
LEMMA CopyItemStep ==
  ASSUME ConfigConstants, ConfigTypes, CloneInv, NEW a \in Admins, CopyItem(a)
  PROVE  CloneInv'
<1>1. PICK x : x = acts[a]
  OBVIOUS
<1>2. PICK i \in x.found, p \in Providers :
        /\ x.todo[p] # 0
        /\ IF i \in Existing /\ items[i][p] = 0
           THEN /\ Do(a, "item", [x EXCEPT !.todo[p] = 0])
                /\ items' = [items EXCEPT ![i][p] = x.todo[p]]
           ELSE Do(a, "item", Resting) /\ UNCHANGED items
        /\ UNCHANGED <<configs, activated, cloned, touched>>
  BY <1>1 DEF CopyItem, CopyItemFrom
<1>3. /\ x \in Act /\ x.step = "item" /\ x.todo \in Lines /\ i \in Ids /\ Copying(a)
      /\ x.found \subseteq Ids
  BY <1>1, <1>2 DEF Do, ConfigTypes, Act, Copying
<1>4. CASE i \in Existing /\ items[i][p] = 0
  <2>1. PICK todo : todo = [x.todo EXCEPT ![p] = 0]
    OBVIOUS
  <2>2. PICK y : y = [x EXCEPT !.todo = todo]
    OBVIOUS
  <2>3. /\ y.step = "item" /\ y.found = x.found /\ y.todo = todo /\ y.of = x.of
        /\ todo[p] = 0 /\ \A q \in Providers : q # p => todo[q] = x.todo[q]
    BY <1>3, <2>1, <2>2 DEF Act, Lines
  <2>4. acts' = [acts EXCEPT ![a] = y] /\ items' = [items EXCEPT ![i][p] = x.todo[p]]
    BY <1>2, <1>4, <2>1, <2>2 DEF Do
  <2>5. /\ \A j \in Ids : j # i => items'[j] = items[j]
        /\ items'[i] = [items[i] EXCEPT ![p] = x.todo[p]]
        /\ items[i] \in Lines /\ acts'[a] = y
    BY <1>3, <2>4 DEF ConfigTypes
  <2>6. /\ items'[i][p] = x.todo[p]
        /\ \A q \in Providers : q # p => items'[i][q] = items[i][q]
    BY <2>5 DEF Lines
  <2>7. ASSUME NEW j \in x.found, j \notin touched PROVE Half(a, j)'
    <3>1. j = i /\ Half(a, i)
      BY <1>1, <1>2, <1>3, <2>7 DEF CloneInv
    <3>2. \A q \in Providers : \/ x.todo[q] = 0 /\ items[i][q] = x.of[q]
                               \/ x.todo[q] = x.of[q] /\ items[i][q] = 0
      BY <1>1, <1>3, <3>1 DEF Half
    <3>3. \A q \in Providers : \/ y.todo[q] = 0 /\ items'[i][q] = y.of[q]
                               \/ y.todo[q] = y.of[q] /\ items'[i][q] = 0
      BY <1>2, <2>3, <2>6, <3>2
    <3> QED BY <2>3, <2>5, <3>1, <3>3 DEF Half
  <2> QED BY <1>1, <1>2, <1>3, <2>3, <2>4, <2>5, <2>7, CopyingStep
<1>5. CASE ~(i \in Existing /\ items[i][p] = 0)
  <2>1. acts' = [acts EXCEPT ![a] = Resting] /\ UNCHANGED <<configs, items, cloned, touched>>
    BY <1>2, <1>5 DEF Do
  <2>2. Resting.step \notin {"copy", "item"}
    BY DEF Resting
  <2> QED BY <2>1, <2>2, QuietStep
<1> QED BY <1>4, <1>5

(* The items are read, of whatever configuration it is by now.             *)
LEMMA ReadItemsStep ==
  ASSUME ConfigConstants, ConfigTypes, CloneInv, NEW a \in Admins, ReadItems(a)
  PROVE  CloneInv'
<1>1. PICK x, read : x = acts[a] /\ read = items[x.id]
  OBVIOUS
<1>2. /\ x \in Act /\ x.step = "copy" /\ x.id \in Ids /\ x.found \subseteq Ids /\ Copying(a)
      /\ read \in Lines
  BY <1>1 DEF ReadItems, Do, ConfigTypes, Act, Copying
<1>3. PICK y : y = [x EXCEPT !.step = "item", !.todo = read, !.of = read]
  OBVIOUS
<1>4. y.step = "item" /\ y.found = x.found /\ y.todo = read /\ y.of = read
  BY <1>2, <1>3 DEF Act
<1>5. /\ acts' = [acts EXCEPT ![a] = y] /\ UNCHANGED <<configs, items, cloned, touched>>
  BY <1>1, <1>3 DEF ReadItems, Do
<1>6. acts'[a] = y
  BY <1>5 DEF ConfigTypes
<1>7. ASSUME NEW i \in x.found, i \notin touched PROVE Half(a, i)'
  <2>1. items[i] = NoLines /\ i \in Ids
    BY <1>1, <1>2, <1>7 DEF CloneInv, Half
  <2>2. \A p \in Providers : items'[i][p] = 0
    BY <1>5, <2>1 DEF NoLines
  <2> QED BY <1>4, <1>6, <2>2 DEF Half
<1> QED BY <1>1, <1>2, <1>4, <1>5, <1>7, CopyingStep

(* A row that is activated or deactivated is there as it was.              *)
LEMMA CommitKeepsRows ==
  ASSUME ConfigConstants, ConfigTypes, ActiveInv, NEW a \in Admins, CommitActive(a)
  PROVE  \A i \in Ids : configs'[i] = None => configs[i] = None
<1>1. PICK x : x = acts[a]
  OBVIOUS
<1>2. configs' = [i \in Ids |->
        IF i = x.id THEN [configs[i] EXCEPT !.active = TRUE]
        ELSE IF i \in x.off THEN [configs[i] EXCEPT !.active = FALSE]
        ELSE configs[i]]
  BY <1>1 DEF CommitActive
<1>3. x.id \in Existing /\ x.off \subseteq Existing
  BY <1>1 DEF CommitActive, Do, ActiveInv, GoodAct, ActiveIds
<1>4. ASSUME NEW i \in Ids, configs[i] # None PROVE configs'[i] # None
  <2>1. PICK row \in ConfigRow : row = configs[i]
    BY <1>4 DEF ConfigTypes
  <2>2. [row EXCEPT !.active = TRUE] \in ConfigRow /\ [row EXCEPT !.active = FALSE] \in ConfigRow
    BY DEF ConfigRow
  <2>3. configs'[i] \in ConfigRow
    BY <1>2, <2>1, <2>2
  <2> QED BY <2>3 DEF ConfigConstants
<1> QED BY <1>4

(* Every step keeps the clones as they should be.                          *)
LEMMA CloneSteps ==
  ASSUME ConfigConstants, ConfigTypes, ActiveInv, CloneInv, [ConfigNext]_configVars
  PROVE  CloneInv'
<1>1. Resting.step \notin {"copy", "item"}
  BY DEF Resting
<1>2. \A a \in Admins : acts[a] \in Act
  BY DEF ConfigTypes
<1>3. ASSUME NEW a \in Admins, BeginUpload(a) PROVE CloneInv'
  <2>1. PICK v : acts' = [acts EXCEPT ![a] = [Resting EXCEPT !.step = "upload", !.version = v]]
    BY <1>3 DEF BeginUpload, Do
  <2>2. PICK to : to = [Resting EXCEPT !.step = "upload", !.version = v]
    OBVIOUS
  <2>3. to.step \notin {"copy", "item"}
    BY <2>2 DEF Resting
  <2> QED BY <1>3, <2>1, <2>2, <2>3, QuietStep DEF BeginUpload
<1>4. ASSUME NEW a \in Admins, FinishUpload(a) PROVE CloneInv'
  <2>1. acts' = [acts EXCEPT ![a] = Resting] /\ UNCHANGED <<cloned, touched>> /\ HasRoom
    BY <1>4 DEF FinishUpload, Do
  <2>2. CASE UNCHANGED <<configs, items>>
    BY <1>1, <2>1, <2>2, QuietStep
  <2>3. CASE ~UNCHANGED <<configs, items>>
    <3>1. PICK n, row : n = NextId /\ row = [version |-> acts[a].version, active |-> FALSE]
      OBVIOUS
    <3>2. n \in Ids /\ configs[n] = None /\ n \notin touched
      BY <2>1, <3>1, NextIdFree
    <3>3. row # None
      <4>1. row \in ConfigRow
        BY <1>2, <3>1 DEF Act, ConfigRow
      <4> QED BY <4>1 DEF ConfigConstants
    <3>4. configs' = [configs EXCEPT ![n] = row] /\ \E csv : items' = [items EXCEPT ![n] = csv]
      BY <1>4, <2>3, <3>1 DEF FinishUpload
    <3>5. PICK to : to = Resting
      OBVIOUS
    <3> QED BY <1>1, <2>1, <3>2, <3>3, <3>4, <3>5, NewIdStep
  <2> QED BY <2>2, <2>3
<1>5. ASSUME NEW a \in Admins, PickSource(a) PROVE CloneInv'
  <2>1. PICK i, v : acts' = [acts EXCEPT ![a] = [Resting EXCEPT !.step = "clone", !.id = i,
                                                                !.version = v]]
    BY <1>5 DEF PickSource, Do
  <2>2. PICK to : to = [Resting EXCEPT !.step = "clone", !.id = i, !.version = v]
    OBVIOUS
  <2>3. to.step \notin {"copy", "item"}
    BY <2>2 DEF Resting
  <2> QED BY <1>5, <2>1, <2>2, <2>3, QuietStep DEF PickSource
<1>6. ASSUME NEW a \in Admins, CreateClone(a) PROVE CloneInv'
  <2>1. CASE Taken(acts[a].version)
    BY <1>1, <1>6, <2>1, QuietStep DEF CreateClone, Do
  <2>2. CASE ~Taken(acts[a].version)
    <3>1. PICK n, row : n = NextId /\ row = [version |-> acts[a].version, active |-> FALSE]
      OBVIOUS
    <3>2. n \in Ids /\ configs[n] = None /\ n \notin touched
      BY <1>6, <3>1, NextIdFree DEF CreateClone
    <3>3. row # None
      <4>1. row \in ConfigRow
        BY <1>2, <3>1 DEF Act, ConfigRow
      <4> QED BY <4>1 DEF ConfigConstants
    <3>4. PICK to : to = [acts[a] EXCEPT !.step = "copy", !.found = {n}]
      OBVIOUS
    <3>5. to.step = "copy" /\ to.found = {n}
      BY <1>2, <3>4 DEF Act
    <3>6. /\ acts' = [acts EXCEPT ![a] = to] /\ configs' = [configs EXCEPT ![n] = row]
          /\ UNCHANGED <<items, cloned, touched>>
      BY <1>6, <2>2, <3>1, <3>4 DEF CreateClone, Do
    <3> QED BY <3>2, <3>3, <3>5, <3>6, NewIdStep
  <2> QED BY <2>1, <2>2
<1>7. ASSUME NEW a \in Admins, BeginActivate(a) PROVE CloneInv'
  <2>1. PICK i : acts' = [acts EXCEPT ![a] = [Resting EXCEPT !.step = "deactivate", !.id = i]]
    BY <1>7 DEF BeginActivate, Do
  <2>2. PICK to : to = [Resting EXCEPT !.step = "deactivate", !.id = i]
    OBVIOUS
  <2>3. to.step \notin {"copy", "item"}
    BY <2>2 DEF Resting
  <2> QED BY <1>7, <2>1, <2>2, <2>3, QuietStep DEF BeginActivate
<1>8. ASSUME NEW a \in Admins, FindActive(a) PROVE CloneInv'
  <2>1. PICK to : to = [acts[a] EXCEPT !.step = "wait", !.found = ActiveIds]
    OBVIOUS
  <2>2. to.step \notin {"copy", "item"}
    BY <1>2, <2>1 DEF Act
  <2> QED BY <1>8, <2>1, <2>2, QuietStep DEF FindActive, Do
<1>9. ASSUME NEW a \in Admins, Deactivate(a) PROVE CloneInv'
  <2>1. PICK to : to = [acts[a] EXCEPT !.step = "activate", !.found = {},
                                       !.off = acts[a].found \cap ActiveIds]
    OBVIOUS
  <2>2. to.step \notin {"copy", "item"}
    BY <1>2, <2>1 DEF Act
  <2> QED BY <1>9, <2>1, <2>2, QuietStep DEF Deactivate, Do
<1>10. ASSUME NEW a \in Admins, SetActive(a) PROVE CloneInv'
  <2>1. PICK to : to = [acts[a] EXCEPT !.step = "commit"]
    OBVIOUS
  <2>2. to.step \notin {"copy", "item"}
    BY <1>2, <2>1 DEF Act
  <2>3. acts' = [acts EXCEPT ![a] = to] \/ acts' = [acts EXCEPT ![a] = Resting]
    BY <1>10, <2>1 DEF SetActive, Do
  <2> QED BY <1>1, <1>10, <2>2, <2>3, QuietStep DEF SetActive
<1>11. ASSUME NEW a \in Admins, CommitActive(a) PROVE CloneInv'
  <2>1. \A i \in Ids : configs'[i] = None => configs[i] = None
    BY <1>11, CommitKeepsRows
  <2> QED BY <1>1, <1>11, <2>1, QuietStep DEF CommitActive, Do
<1>12. ASSUME NEW a \in Admins, BreakOff(a) PROVE CloneInv'
  BY <1>1, <1>12, QuietStep DEF BreakOff, Do
<1>13. CASE EditItem
  <2>1. PICK i \in Existing, p \in Providers, w \in Weights \cup {0} :
          /\ items' = [items EXCEPT ![i][p] = w] /\ touched' = touched \cup {i}
          /\ UNCHANGED <<configs, acts, cloned>>
    BY <1>13 DEF EditItem
  <2>2. i \in Ids /\ \A j \in Ids : j # i => items'[j] = items[j]
    BY <2>1 DEF Existing, ConfigTypes
  <2> QED BY <2>1, <2>2, TouchStep
<1>14. CASE DeleteConfig
  <2>1. PICK i \in Existing :
          /\ configs' = [configs EXCEPT ![i] = None] /\ items' = [items EXCEPT ![i] = NoLines]
          /\ touched' = touched \cup {i} /\ UNCHANGED <<acts, cloned>>
    BY <1>14 DEF DeleteConfig
  <2>2. i \in Ids /\ \A j \in Ids : j # i => items'[j] = items[j] /\ configs'[j] = configs[j]
    BY <2>1 DEF Existing, ConfigTypes
  <2> QED BY <2>1, <2>2, TouchStep
<1>15. CASE UNCHANGED configVars
  BY <1>15 DEF configVars, CloneInv, Copying, Half
<1> QED
  BY <1>3, <1>4, <1>5, <1>6, <1>7, <1>8, <1>9, <1>10, <1>11, <1>12, <1>13, <1>14, <1>15,
     ReadItemsStep, CopyItemStep, ReportStep
  DEF ConfigNext

(* ClonesAreWhole, for any number of admins and configurations: a clone    *)
(* that was reported has the items that were read, though it was created,  *)
(* read and filled in requests of its own, while others clone, upload,     *)
(* edit, activate and delete.                                              *)
THEOREM ClonesTheorem ==
  ASSUME ConfigConstants
  PROVE  ConfigSpec => []ClonesAreWhole
<1> DEFINE Inv == ConfigTypes /\ ActiveInv /\ CloneInv
<1>1. ConfigInit => Inv
  <2>1. ASSUME ConfigInit PROVE CloneInv
    <3>1. \A a \in Admins : ~Copying(a)
      BY <2>1 DEF ConfigInit, Copying, Resting
    <3>2. \A i \in Ids : configs[i] = None => i # 1
      <4>1. [version |-> 0, active |-> FALSE] # None
        <5>1. [version |-> 0, active |-> FALSE] \in ConfigRow
          BY DEF ConfigRow
        <5> QED BY <5>1 DEF ConfigConstants
      <4> QED BY <2>1, <4>1 DEF ConfigInit
    <3>3. /\ \A i \in Ids : i # 1 => items[i] = NoLines
          /\ \A i \in Ids : cloned[i] = None
      BY <2>1 DEF ConfigInit
    <3> QED BY <3>1, <3>2, <3>3 DEF CloneInv
  <2> QED BY <2>1, ConfigInitially
<1>2. Inv /\ [ConfigNext]_configVars => Inv'
  BY ConfigTypesStep, ActiveStep, CloneSteps
<1>3. Inv => ClonesAreWhole
  BY DEF CloneInv, ClonesAreWhole, Existing
<1> HIDE DEF Inv
<1> QED BY <1>1, <1>2, <1>3, PTL DEF ConfigSpec

-----------------------------------------------------------------------------
(***************************************************************************)
(* Human points.                                                           *)
(***************************************************************************)
PointSpec == HPInit /\ [][HPNext]_hpVars

(* The rows of HumanPoints, and what a transaction may have written.       *)
PointRow == [address: Holders, action: {"HKY", "SCB", "MM2", "MTA", "SOG"},
             hash: KeyHashes \cup {NoHash}]
Written == [qualified: SUBSET (Holders \X Programs), points: SUBSET PointRow]

(* What is assumed of the constants.                                       *)
PointConstants ==
  MaxScorings \in Nat /\ BonusAt \in Nat \ {0} /\ OGLimit \in Nat

(* A transaction writes for the address that it scores, and nothing after  *)
(* its end.                                                                *)
GoodScoring(p) ==
  /\ IF doing[p] = "idle" THEN job[p] = NoJob /\ unsaved[p] = NothingUnsaved
                          ELSE job[p] \in Job
  /\ job[p].language = "python" => unsaved[p] = NothingUnsaved
  /\ IsFiniteSet(unsaved[p].qualified) /\ IsFiniteSet(unsaved[p].points)
  /\ \A x \in unsaved[p].qualified : x[1] = job[p].address
  /\ \A row \in unsaved[p].points : row.address = job[p].address

PointTypes ==
  /\ qualified \in SUBSET (Holders \X Programs) /\ IsFiniteSet(qualified)
  /\ points \in SUBSET PointRow /\ IsFiniteSet(points)
  /\ doing \in [Scorings -> {"idle", "passing", "keys", "actions", "count",
                             "bonus", "limit", "limited", "unlimited"}]
  /\ job \in [Scorings -> Job \cup {NoJob}]
  /\ holds \in [Scorings -> BOOLEAN]
  /\ unsaved \in [Scorings -> Written]
  /\ scorings \in 0..MaxScorings
  /\ excused \subseteq {"SCB", "HKY", "MM2", "MTA"} \X (Holders \cup {NoHash})
  /\ \A p \in Scorings : GoodScoring(p)

(* Nothing unsaved is something that a transaction may have written.       *)
LEMMA EmptyWritten ==
  /\ NothingUnsaved \in Written
  /\ NothingUnsaved.qualified = {} /\ NothingUnsaved.points = {}
  BY DEF NothingUnsaved, Written

(* The types hold at the start.                                            *)
LEMMA PointsInitially == ASSUME PointConstants PROVE HPInit => PointTypes
<1> SUFFICES ASSUME HPInit PROVE PointTypes
  OBVIOUS
<1>1. \A p \in Scorings : GoodScoring(p)
  BY EmptyWritten, FS_EmptySet DEF HPInit, GoodScoring
<1> QED BY <1>1, EmptyWritten, FS_EmptySet DEF HPInit, PointTypes, PointConstants

(* What a statement of a scoring writes.                                   *)
Saves(p, passing, rows, next) ==
  /\ Active(p)
  /\ passing \subseteq {<<job[p].address, job[p].community>>}
  /\ rows \subseteq PointRow /\ IsFiniteSet(rows)
  /\ \A row \in rows : row.address = job[p].address
  /\ next \in {"keys", "count", "limit", "unlimited"}
  /\ Save(p, passing, rows, next)
  /\ holds' = holds

(* The rows are seen at once, by all or by its own transaction.            *)
LEMMA SaveStep ==
  ASSUME PointTypes, NEW p \in Scorings, NEW passing, NEW rows, NEW next,
         Saves(p, passing, rows, next)
  PROVE  /\ PointTypes'
         /\ doing' = [doing EXCEPT ![p] = next]
         /\ \A q \in Scorings \ {p} : unsaved'[q] = unsaved[q]
         /\ SeenPoints(p)' = SeenPoints(p) \cup rows
         /\ SeenQualified(p)' = SeenQualified(p) \cup passing
         /\ \/ qualified' = qualified /\ points' = points
            \/ /\ qualified' = qualified \cup passing /\ points' = points \cup rows
               /\ unsaved' = unsaved
         /\ points \subseteq points' /\ points' \subseteq points \cup rows
         /\ unsaved'[p].points \subseteq unsaved[p].points \cup rows
         /\ unsaved'[p].qualified \subseteq unsaved[p].qualified \cup passing
<1> DEFINE old == unsaved[p]
           new == [old EXCEPT !.qualified = @ \cup (passing \ qualified),
                              !.points = @ \cup (rows \ points)]
<1> USE DEF Saves
<1>1. /\ job[p] \in Job /\ old \in Written /\ next # "idle"
      /\ IsFiniteSet(old.qualified) /\ IsFiniteSet(old.points)
      /\ \A x \in old.qualified : x[1] = job[p].address
      /\ \A row \in old.points : row.address = job[p].address
  BY DEF PointTypes, GoodScoring, Active
<1>2. passing \in SUBSET (Holders \X Programs) /\ IsFiniteSet(passing)
  <2>1. job[p].address \in Holders /\ job[p].community \in Programs
    BY <1>1 DEF Job
  <2>2. IsFiniteSet({<<job[p].address, job[p].community>>})
    BY FS_Singleton
  <2> QED BY <2>1, <2>2, FS_Subset
<1>3. /\ new \in Written
      /\ new.qualified = old.qualified \cup (passing \ qualified)
      /\ new.points = old.points \cup (rows \ points)
  BY <1>1, <1>2 DEF Written
<1> HIDE DEF new, old
<1>4. IsFiniteSet(passing \ qualified) /\ IsFiniteSet(rows \ points)
  BY <1>2, FS_Subset
<1>5. IsFiniteSet(new.qualified) /\ IsFiniteSet(new.points)
  <2>1. IsFiniteSet(old.qualified \cup (passing \ qualified))
    BY <1>1, <1>4, FS_Union
  <2>2. IsFiniteSet(old.points \cup (rows \ points))
    BY <1>1, <1>4, FS_Union
  <2> QED BY <1>3, <2>1, <2>2
<1>6. /\ \A x \in new.qualified : x[1] = job[p].address
      /\ \A row \in new.points : row.address = job[p].address
  BY <1>1, <1>3
<1>7. /\ doing' = [doing EXCEPT ![p] = next] /\ UNCHANGED <<job, scorings, excused, holds>>
      /\ doing'[p] = next /\ \A q \in Scorings \ {p} : doing'[q] = doing[q]
  BY DEF Save, PointTypes
<1>8. CASE InRust(p)
  <2>1. unsaved' = [unsaved EXCEPT ![p] = new] /\ qualified' = qualified /\ points' = points
    BY <1>8 DEF Save, new, old
  <2>2. unsaved'[p] = new /\ \A q \in Scorings \ {p} : unsaved'[q] = unsaved[q]
    BY <2>1 DEF PointTypes
  <2>3. GoodScoring(p)'
    BY <1>1, <1>5, <1>6, <1>7, <1>8, <2>2 DEF GoodScoring, InRust, old
  <2>4. \A q \in Scorings \ {p} : GoodScoring(q)'
    BY <1>7, <2>2 DEF GoodScoring, PointTypes
  <2>5. PointTypes'
    BY <1>3, <1>7, <2>1, <2>3, <2>4 DEF PointTypes
  <2> QED BY <1>3, <1>7, <2>1, <2>2, <2>5 DEF SeenPoints, SeenQualified, old
<1>9. CASE ~InRust(p)
  <2>1. /\ unsaved' = unsaved /\ qualified' = qualified \cup passing
        /\ points' = points \cup rows
    BY <1>9 DEF Save
  <2>2. \A q \in Scorings : GoodScoring(q)'
    BY <1>1, <1>7, <2>1 DEF GoodScoring, PointTypes, old
  <2>3. IsFiniteSet(qualified') /\ IsFiniteSet(points')
    BY <1>2, <2>1, FS_Union DEF PointTypes
  <2>4. PointTypes'
    BY <1>2, <1>7, <2>1, <2>2, <2>3 DEF PointTypes
  <2> QED BY <1>7, <2>1, <2>4 DEF SeenPoints, SeenQualified
<1> QED BY <1>8, <1>9

(* The human key of a stamp is written unless the provider has one.        *)
LEMMA KeySaved ==
  ASSUME PointTypes, NEW p \in Scorings, RecordStampActions(p)
  PROVE  \E rows \in SUBSET PointRow :
           /\ rows = IF holds[p] \/ job[p].hash = NoHash THEN {}
                     ELSE {Row(job[p].address, "HKY", job[p].hash)}
           /\ doing[p] = "actions" /\ Saves(p, {}, rows, "count")
<1> DEFINE rows == IF holds[p] \/ job[p].hash = NoHash THEN {}
                   ELSE {Row(job[p].address, "HKY", job[p].hash)}
<1>1. Active(p) /\ doing[p] = "actions" /\ Save(p, {}, rows, "count") /\ holds' = holds
  BY DEF RecordStampActions, Active
<1>2. job[p].address \in Holders /\ job[p].hash \in KeyHashes \cup {NoHash}
  BY <1>1 DEF Active, PointTypes, GoodScoring, Job
<1>3. rows \in SUBSET PointRow /\ \A row \in rows : row.address = job[p].address
  BY <1>2 DEF PointRow, Row
<1>4. IsFiniteSet(rows)
  BY FS_EmptySet, FS_Singleton
<1> HIDE DEF rows
<1>5. Saves(p, {}, rows, "count")
  BY <1>1, <1>3, <1>4 DEF Saves
<1> QED BY <1>1, <1>3, <1>5 DEF rows

(* The bonus and the limited points are written after a check.             *)
LEMMA AwardSaved ==
  ASSUME PointTypes, NEW p \in Scorings, AwardBonus(p) \/ AwardLimited(p)
  PROVE  \E rows \in SUBSET PointRow, next \in {"limit", "unlimited"},
            action \in {"SCB", "MM2", "MTA"} :
           /\ rows = IF holds[p] THEN {Row(job[p].address, action, NoHash)} ELSE {}
           /\ \/ AwardBonus(p) /\ doing[p] = "bonus" /\ next = "limit" /\ action = "SCB"
              \/ /\ AwardLimited(p) /\ doing[p] = "limited" /\ next = "unlimited"
                 /\ action = Limited(p)
           /\ Saves(p, {}, rows, next)
<1> DEFINE action == IF doing[p] = "bonus" THEN "SCB" ELSE Limited(p)
           next == IF doing[p] = "bonus" THEN "limit" ELSE "unlimited"
           rows == IF holds[p] THEN {Row(job[p].address, action, NoHash)} ELSE {}
<1>1. /\ Active(p) /\ Save(p, {}, rows, next) /\ holds' = holds
      /\ \/ AwardBonus(p) /\ doing[p] = "bonus"
         \/ AwardLimited(p) /\ doing[p] = "limited"
  BY DEF AwardBonus, AwardLimited, Active
<1>2. job[p].address \in Holders
  BY <1>1 DEF Active, PointTypes, GoodScoring, Job
<1>3. action \in {"SCB", "MM2", "MTA"} /\ next \in {"limit", "unlimited"}
  BY DEF Limited
<1>4. /\ doing[p] = "bonus" => next = "limit" /\ action = "SCB"
      /\ doing[p] = "limited" => next = "unlimited" /\ action = Limited(p)
  OBVIOUS
<1> HIDE DEF action, next
<1>5. rows \in SUBSET PointRow /\ \A row \in rows : row.address = job[p].address
  BY <1>2, <1>3 DEF PointRow, Row
<1>6. IsFiniteSet(rows)
  BY FS_EmptySet, FS_Singleton
<1> HIDE DEF rows
<1>7. Saves(p, {}, rows, next)
  BY <1>1, <1>3, <1>5, <1>6 DEF Saves
<1> QED BY <1>1, <1>3, <1>4, <1>5, <1>7 DEF rows

(* A check writes nothing but what it could not see.                       *)
LEMMA CheckStep ==
  ASSUME PointTypes, NEW p \in Scorings,
         NEW from \in {"keys", "count", "limit"}, NEW answer \in BOOLEAN,
         NEW next \in {"actions", "bonus", "limited"},
         NEW which \in {"SCB", "HKY", "MM2", "MTA"} \X (Holders \cup {NoHash}),
         NEW others, Check(p, from, answer, next, which, others)
  PROVE  /\ PointTypes'
         /\ doing[p] = from /\ doing'[p] = next /\ holds'[p] = answer
         /\ \A q \in Scorings \ {p} : doing'[q] = doing[q] /\ holds'[q] = holds[q]
         /\ UNCHANGED <<qualified, points, job, unsaved, scorings>>
         /\ excused \subseteq excused'
         /\ (\E q \in Scorings \ {p} : others[q]) => which \in excused'
<1>1. /\ doing[p] = from /\ doing' = [doing EXCEPT ![p] = next]
      /\ holds' = [holds EXCEPT ![p] = answer]
      /\ UNCHANGED <<qualified, points, job, unsaved, scorings>>
      /\ excused' = IF \E q \in Scorings \ {p} : others[q] THEN excused \cup {which}
                    ELSE excused
  BY DEF Check
<1>2. /\ doing'[p] = next /\ holds'[p] = answer
      /\ \A q \in Scorings \ {p} : doing'[q] = doing[q] /\ holds'[q] = holds[q]
  BY <1>1 DEF PointTypes
<1>3. \A q \in Scorings : GoodScoring(q)'
  BY <1>1, <1>2 DEF PointTypes, GoodScoring
<1>4. PointTypes'
  BY <1>1, <1>3 DEF PointTypes
<1> QED BY <1>1, <1>2, <1>4

(* A scoring that is over holds nothing.                                   *)
LEMMA OverStep ==
  ASSUME PointTypes, NEW p \in Scorings, Over(p)
  PROVE  /\ \A q \in Scorings : GoodScoring(q)'
         /\ doing' \in [Scorings -> {"idle", "passing", "keys", "actions", "count",
                                     "bonus", "limit", "limited", "unlimited"}]
         /\ job' \in [Scorings -> Job \cup {NoJob}]
         /\ holds' \in [Scorings -> BOOLEAN] /\ unsaved' \in [Scorings -> Written]
         /\ scorings' = scorings
         /\ doing'[p] = "idle" /\ unsaved'[p] = NothingUnsaved
         /\ \A q \in Scorings \ {p} : /\ doing'[q] = doing[q] /\ holds'[q] = holds[q]
                                      /\ job'[q] = job[q] /\ unsaved'[q] = unsaved[q]
<1>1. /\ doing' = [doing EXCEPT ![p] = "idle"] /\ job' = [job EXCEPT ![p] = NoJob]
      /\ holds' = [holds EXCEPT ![p] = FALSE]
      /\ unsaved' = [unsaved EXCEPT ![p] = NothingUnsaved] /\ scorings' = scorings
  BY DEF Over
<1>2. /\ doing'[p] = "idle" /\ unsaved'[p] = NothingUnsaved /\ job'[p] = NoJob
      /\ \A q \in Scorings \ {p} : /\ doing'[q] = doing[q] /\ holds'[q] = holds[q]
                                   /\ job'[q] = job[q] /\ unsaved'[q] = unsaved[q]
  BY <1>1 DEF PointTypes
<1>3. GoodScoring(p)'
  BY <1>2, EmptyWritten, FS_EmptySet DEF GoodScoring
<1>4. \A q \in Scorings \ {p} : GoodScoring(q)'
  BY <1>2 DEF GoodScoring, PointTypes
<1> QED BY <1>1, <1>2, <1>3, <1>4, EmptyWritten DEF PointTypes

(* The commit of a transaction, with the points that have no limit.        *)
LEMMA CommitStep ==
  ASSUME PointTypes, NEW p \in Scorings, AwardUnlimited(p)
  PROVE  /\ PointTypes' /\ Over(p) /\ doing[p] = "unlimited"
         /\ qualified' = SeenQualified(p) /\ excused' = excused
         /\ \E rows \in SUBSET PointRow :
              /\ points' = SeenPoints(p) \cup rows
              /\ \A row \in rows : row.action = "SOG"
<1> DEFINE rows == IF job[p].address \in OnLists
                   THEN {Row(job[p].address, "SOG", NoHash)} ELSE {}
<1>1. /\ doing[p] = "unlimited" /\ Over(p)
      /\ qualified' = SeenQualified(p) /\ points' = SeenPoints(p) \cup rows
      /\ excused' = excused
  BY DEF AwardUnlimited
<1>2. job[p].address \in Holders
  BY <1>1 DEF PointTypes, GoodScoring, Job
<1>3. rows \in SUBSET PointRow /\ \A row \in rows : row.action = "SOG"
  BY <1>2 DEF PointRow, Row
<1>4. IsFiniteSet(rows)
  BY FS_EmptySet, FS_Singleton
<1> HIDE DEF rows
<1>5. /\ SeenQualified(p) \in SUBSET (Holders \X Programs) /\ IsFiniteSet(SeenQualified(p))
      /\ SeenPoints(p) \in SUBSET PointRow /\ IsFiniteSet(SeenPoints(p))
  BY FS_Union DEF PointTypes, GoodScoring, SeenQualified, SeenPoints, Written
<1>6. IsFiniteSet(points')
  BY <1>1, <1>4, <1>5, FS_Union
<1>7. PointTypes'
  BY <1>1, <1>3, <1>5, <1>6, OverStep DEF PointTypes
<1> QED BY <1>1, <1>3, <1>7

(* A scoring starts with nothing written.                                  *)
LEMMA StartStep ==
  ASSUME PointConstants, PointTypes, NEW p \in Scorings, Start(p)
  PROVE  /\ PointTypes' /\ doing[p] = "idle" /\ doing'[p] = "passing"
         /\ unsaved[p] = NothingUnsaved
         /\ \A q \in Scorings \ {p} : doing'[q] = doing[q] /\ job'[q] = job[q]
         /\ UNCHANGED <<qualified, points, holds, unsaved, excused>>
<1>1. /\ doing[p] = "idle" /\ doing' = [doing EXCEPT ![p] = "passing"]
      /\ scorings < MaxScorings /\ scorings' = scorings + 1
      /\ UNCHANGED <<qualified, points, holds, unsaved, excused>>
  BY DEF Start
<1>2. PICK j \in Job : job' = [job EXCEPT ![p] = j]
  BY DEF Start
<1>3. /\ doing'[p] = "passing" /\ job'[p] = j
      /\ \A q \in Scorings \ {p} : doing'[q] = doing[q] /\ job'[q] = job[q]
  BY <1>1, <1>2 DEF PointTypes
<1>4. unsaved[p] = NothingUnsaved
  BY <1>1 DEF PointTypes, GoodScoring
<1>5. GoodScoring(p)'
  BY <1>1, <1>3, <1>4, EmptyWritten, FS_EmptySet DEF GoodScoring
<1>6. \A q \in Scorings \ {p} : GoodScoring(q)'
  BY <1>1, <1>3 DEF GoodScoring, PointTypes
<1>7. scorings' \in 0..MaxScorings
  BY <1>1 DEF PointTypes, PointConstants
<1>8. PointTypes'
  BY <1>1, <1>2, <1>5, <1>6, <1>7 DEF PointTypes
<1> QED BY <1>1, <1>3, <1>4, <1>8

(* A passing score is recorded before anything is counted.                 *)
LEMMA PassingSaved ==
  ASSUME PointTypes, NEW p \in Scorings, RecordPassingScore(p)
  PROVE  /\ doing[p] = "passing"
         /\ Saves(p, {<<job[p].address, job[p].community>>}, {}, "keys")
  BY FS_EmptySet DEF RecordPassingScore, Active, Saves

(* The scorings that have a key of a provider to save, or have saved one   *)
(* and not committed, exclude each other, unless one did not see the other.*)
SavesKeys(p, a) ==
  \/ doing[p] = "actions" /\ job[p].address = a
  \/ KeyRows(unsaved[p].points, a) # {}

OneKey(rows, a) == \A r, s \in KeyRows(rows, a) : r = s

KeysKept(a) ==
  /\ OneKey(points, a)
  /\ \A p \in Scorings :
       /\ OneKey(SeenPoints(p), a)
       /\ doing[p] = "actions" /\ job[p].address = a /\ ~holds[p] =>
            KeyRows(SeenPoints(p), a) = {}
  /\ \A p, q \in Scorings : p # q => ~(SavesKeys(p, a) /\ SavesKeys(q, a))

KeysInv == \A a \in Holders : <<"HKY", a>> \notin excused => KeysKept(a)

(* What saves no human key leaves the keys alone.                          *)
LEMMA KeysApart ==
  ASSUME KeysInv, excused \subseteq excused',
         \A a \in Holders : KeyRows(points', a) = KeyRows(points, a),
         \A p \in Scorings :
           /\ \A a \in Holders :
                KeyRows(unsaved'[p].points, a) \subseteq KeyRows(unsaved[p].points, a)
           /\ doing'[p] = "actions" => /\ doing[p] = "actions" /\ job'[p] = job[p]
                                       /\ holds'[p] = holds[p]
  PROVE  KeysInv'
<1> SUFFICES ASSUME NEW a \in Holders, KeysKept(a) PROVE KeysKept(a)'
  BY DEF KeysInv
<1>1. OneKey(points, a)'
  BY DEF KeysKept, OneKey
<1>2. \A p \in Scorings : KeyRows(SeenPoints(p)', a) \subseteq KeyRows(SeenPoints(p), a)
  BY DEF KeyRows, SeenPoints
<1>3. \A p \in Scorings : SavesKeys(p, a)' => SavesKeys(p, a)
  BY DEF SavesKeys
<1> QED BY <1>1, <1>2, <1>3 DEF KeysKept, OneKey

(* The checks, by what they find and what they may miss.                   *)
LEMMA KeysRead ==
  ASSUME PointTypes, NEW p \in Scorings, ReadKeys(p)
  PROVE  LET b == job[p].address IN
         /\ PointTypes' /\ doing[p] = "keys"
         /\ doing'[p] = "actions" /\ holds'[p] = (KeyRows(SeenPoints(p), b) # {})
         /\ \A q \in Scorings \ {p} : doing'[q] = doing[q] /\ holds'[q] = holds[q]
         /\ UNCHANGED <<qualified, points, job, unsaved>> /\ excused \subseteq excused'
         /\ (\E q \in Scorings \ {p} : SavesKeys(q, b)) => <<"HKY", b>> \in excused'
<1> DEFINE b == job[p].address
           answer == (KeyRows(SeenPoints(p), b) # {})
           which == <<"HKY", b>>
           others == SavingKeys(b)
<1>1. Check(p, "keys", answer, "actions", which, others)
  BY DEF ReadKeys
<1>2. b \in Holders
  BY <1>1 DEF Check, PointTypes, GoodScoring, Job
<1>3. answer \in BOOLEAN /\ which \in {"SCB", "HKY", "MM2", "MTA"} \X (Holders \cup {NoHash})
  BY <1>2
<1>4. \A q \in Scorings : SavesKeys(q, b) => others[q]
  BY DEF SavesKeys, SavingKeys
<1> HIDE DEF answer, which, others
<1>5. /\ PointTypes'
      /\ doing[p] = "keys" /\ doing'[p] = "actions" /\ holds'[p] = answer
      /\ \A q \in Scorings \ {p} : doing'[q] = doing[q] /\ holds'[q] = holds[q]
      /\ UNCHANGED <<qualified, points, job, unsaved, scorings>>
      /\ excused \subseteq excused'
      /\ (\E q \in Scorings \ {p} : others[q]) => which \in excused'
  BY <1>1, <1>3, CheckStep
<1> QED BY <1>4, <1>5 DEF answer, which

(* Whose passing score is not committed, and who is about to award points  *)
(* that are limited or has awarded some and not committed them.            *)
Pending(p, a) == Communities(unsaved[p].qualified, a) # {}
SavesLimited(p, action) ==
  \/ doing[p] = "limited" /\ Limited(p) = action
  \/ Awarded(unsaved[p].points, action) # {}

(* The count of the passing scores, and whose are not seen yet.            *)
LEMMA PassingCounted ==
  ASSUME PointTypes, NEW p \in Scorings, CountPassing(p)
  PROVE  LET b == job[p].address IN
         /\ PointTypes' /\ doing[p] = "count" /\ doing'[p] = "bonus"
         /\ holds'[p] = (Cardinality(Communities(SeenQualified(p), b)) >= BonusAt)
         /\ \A q \in Scorings \ {p} : doing'[q] = doing[q] /\ holds'[q] = holds[q]
         /\ UNCHANGED <<qualified, points, job, unsaved>> /\ excused \subseteq excused'
         /\ (\E q \in Scorings \ {p} : Pending(q, b)) => <<"SCB", b>> \in excused'
<1> DEFINE b == job[p].address
           answer == (Cardinality(Communities(SeenQualified(p), b)) >= BonusAt)
           which == <<"SCB", b>>
           others == NotCommitted(b)
<1>1. Check(p, "count", answer, "bonus", which, others)
  BY DEF CountPassing, CountPassingOf
<1>2. b \in Holders
  BY <1>1 DEF Check, PointTypes, GoodScoring, Job
<1>3. answer \in BOOLEAN /\ which \in {"SCB", "HKY", "MM2", "MTA"} \X (Holders \cup {NoHash})
  BY <1>2
<1>4. \A q \in Scorings : Pending(q, b) => others[q]
  BY DEF Pending, NotCommitted
<1> HIDE DEF answer, which, others
<1>5. /\ PointTypes'
      /\ doing[p] = "count" /\ doing'[p] = "bonus" /\ holds'[p] = answer
      /\ \A q \in Scorings \ {p} : doing'[q] = doing[q] /\ holds'[q] = holds[q]
      /\ UNCHANGED <<qualified, points, job, unsaved, scorings>>
      /\ excused \subseteq excused'
      /\ (\E q \in Scorings \ {p} : others[q]) => which \in excused'
  BY <1>1, <1>3, CheckStep
<1> QED BY <1>4, <1>5 DEF answer, which

(* The check of the limit, and whose points are not seen yet.              *)
LEMMA LimitChecked ==
  ASSUME PointTypes, NEW p \in Scorings, CheckLimit(p)
  PROVE  /\ PointTypes' /\ doing[p] = "limit" /\ doing'[p] = "limited"
         /\ holds'[p] =>
              Cardinality(Awarded(SeenPoints(p), Limited(p))) < OGLimit
         /\ \A q \in Scorings \ {p} : doing'[q] = doing[q] /\ holds'[q] = holds[q]
         /\ UNCHANGED <<qualified, points, job, unsaved>> /\ excused \subseteq excused'
         /\ (\E q \in Scorings \ {p} : SavesLimited(q, Limited(p))) =>
              <<Limited(p), NoHash>> \in excused'
<1> DEFINE answer == (/\ job[p].address \in OnLists
                      /\ Cardinality(Awarded(SeenPoints(p), Limited(p))) < OGLimit)
           which == <<Limited(p), NoHash>>
           others == SavingLimited(Limited(p))
<1>1. Check(p, "limit", answer, "limited", which, others)
  BY DEF CheckLimit, CheckLimitOf
<1>2. answer \in BOOLEAN /\ which \in {"SCB", "HKY", "MM2", "MTA"} \X (Holders \cup {NoHash})
  BY DEF Limited
<1>3. \A q \in Scorings : SavesLimited(q, Limited(p)) => others[q]
  BY DEF SavesLimited, SavingLimited
<1>4. answer => Cardinality(Awarded(SeenPoints(p), Limited(p))) < OGLimit
  OBVIOUS
<1> HIDE DEF answer, which, others
<1>5. /\ PointTypes'
      /\ doing[p] = "limit" /\ doing'[p] = "limited" /\ holds'[p] = answer
      /\ \A q \in Scorings \ {p} : doing'[q] = doing[q] /\ holds'[q] = holds[q]
      /\ UNCHANGED <<qualified, points, job, unsaved, scorings>>
      /\ excused \subseteq excused'
      /\ (\E q \in Scorings \ {p} : others[q]) => which \in excused'
  BY <1>1, <1>2, CheckStep
<1> QED BY <1>3, <1>4, <1>5 DEF which

(* Every step keeps one human key of each provider, or excuses it.         *)
LEMMA KeysStep ==
  ASSUME PointConstants, PointTypes, KeysInv, [HPNext]_hpVars
  PROVE  KeysInv'
<1>1. ASSUME NEW p \in Scorings, NEW passing, NEW rows, NEW next,
             Saves(p, passing, rows, next), \A row \in rows : row.action # "HKY"
      PROVE  KeysInv'
  <2>1. /\ \A q \in Scorings \ {p} : unsaved'[q] = unsaved[q]
        /\ points \subseteq points' /\ points' \subseteq points \cup rows
        /\ unsaved'[p].points \subseteq unsaved[p].points \cup rows
        /\ doing' = [doing EXCEPT ![p] = next]
    BY <1>1, SaveStep
  <2>2. \A q \in Scorings : doing'[q] = "actions" => doing[q] = "actions"
    BY <1>1, <2>1 DEF PointTypes, Saves
  <2>3. job' = job /\ excused' = excused /\ holds' = holds
    BY <1>1 DEF Save, Saves
  <2>4. \A a \in Holders : KeyRows(points', a) = KeyRows(points, a)
    BY <1>1, <2>1 DEF KeyRows
  <2>5. \A q \in Scorings : \A a \in Holders :
          KeyRows(unsaved'[q].points, a) \subseteq KeyRows(unsaved[q].points, a)
    BY <1>1, <2>1 DEF KeyRows
  <2> QED BY <1>1, <2>2, <2>3, <2>4, <2>5, KeysApart
<1>2. ASSUME NEW p \in Scorings, Start(p) PROVE KeysInv'
  BY <1>2, StartStep, KeysApart
<1>3. ASSUME NEW p \in Scorings, RecordPassingScore(p) PROVE KeysInv'
  <2>1. Saves(p, {<<job[p].address, job[p].community>>}, {}, "keys")
    BY <1>3, PassingSaved
  <2>2. \A row \in {} : row.action # "HKY"
    OBVIOUS
  <2> QED BY <1>1, <2>1, <2>2
<1>4. ASSUME NEW p \in Scorings, AwardBonus(p) \/ AwardLimited(p) PROVE KeysInv'
  <2>1. PICK rows \in SUBSET PointRow, next \in {"limit", "unlimited"},
            action \in {"SCB", "MM2", "MTA"} :
           /\ rows = IF holds[p] THEN {Row(job[p].address, action, NoHash)} ELSE {}
           /\ Saves(p, {}, rows, next)
    BY <1>4, AwardSaved
  <2>2. \A row \in rows : row.action # "HKY"
    BY <2>1 DEF Row
  <2> QED BY <1>1, <2>1, <2>2
<1>5. ASSUME NEW p \in Scorings, CountPassing(p) \/ CheckLimit(p) PROVE KeysInv'
  <2>1. /\ doing'[p] # "actions"
        /\ \A q \in Scorings \ {p} : doing'[q] = doing[q] /\ holds'[q] = holds[q]
        /\ UNCHANGED <<points, job, unsaved>>
        /\ excused \subseteq excused'
    BY <1>5, PassingCounted, LimitChecked
  <2> QED BY <2>1, KeysApart
<1>6. ASSUME NEW p \in Scorings, ReadKeys(p) PROVE KeysInv'
  <2> DEFINE b == job[p].address
  <2>1. /\ doing'[p] = "actions" /\ holds'[p] = (KeyRows(SeenPoints(p), b) # {})
        /\ \A q \in Scorings \ {p} : doing'[q] = doing[q] /\ holds'[q] = holds[q]
        /\ UNCHANGED <<points, job, unsaved>> /\ excused \subseteq excused'
        /\ (\E q \in Scorings \ {p} : SavesKeys(q, b)) => <<"HKY", b>> \in excused'
    BY <1>6, KeysRead
  <2> SUFFICES ASSUME NEW a \in Holders, <<"HKY", a>> \notin excused', KeysKept(a)
               PROVE  KeysKept(a)'
    BY <2>1 DEF KeysInv
  <2>2. OneKey(points, a)' /\ \A q \in Scorings : OneKey(SeenPoints(q), a)'
    BY <2>1 DEF KeysKept, OneKey, SeenPoints
  <2>3. \A q \in Scorings : doing'[q] = "actions" /\ job'[q].address = a /\ ~holds'[q] =>
          KeyRows(SeenPoints(q)', a) = {}
    BY <2>1 DEF KeysKept, SeenPoints
  <2>4. \A q \in Scorings \ {p} : SavesKeys(q, a)' <=> SavesKeys(q, a)
    BY <2>1 DEF SavesKeys
  <2>5. a # b => (SavesKeys(p, a)' => SavesKeys(p, a))
    BY <2>1 DEF SavesKeys
  <2>6. \A q, r \in Scorings : q # r => ~(SavesKeys(q, a) /\ SavesKeys(r, a))'
    BY <2>1, <2>4, <2>5 DEF KeysKept
  <2> QED BY <2>2, <2>3, <2>6 DEF KeysKept
<1>7. ASSUME NEW p \in Scorings, RecordStampActions(p) PROVE KeysInv'
  <2>1. PICK rows \in SUBSET PointRow :
           /\ rows = IF holds[p] \/ job[p].hash = NoHash THEN {}
                     ELSE {Row(job[p].address, "HKY", job[p].hash)}
           /\ doing[p] = "actions" /\ Saves(p, {}, rows, "count")
    BY <1>7, KeySaved
  <2>2. CASE rows = {}
    BY <1>1, <2>1, <2>2
  <2>3. CASE rows # {}
    <3> DEFINE b == job[p].address
    <3>1. /\ \A q \in Scorings \ {p} : unsaved'[q] = unsaved[q]
          /\ points \subseteq points' /\ points' \subseteq points \cup rows
          /\ unsaved'[p].points \subseteq unsaved[p].points \cup rows
          /\ doing' = [doing EXCEPT ![p] = "count"]
          /\ SeenPoints(p)' = SeenPoints(p) \cup rows
      BY <2>1, SaveStep
    <3>2. doing'[p] = "count" /\ \A q \in Scorings \ {p} : doing'[q] = doing[q]
      BY <3>1 DEF PointTypes
    <3>3. job' = job /\ excused' = excused /\ holds' = holds
      BY <2>1 DEF Save, Saves
    <3>4. ~holds[p] /\ \A a : KeyRows(rows, a) = IF a = b THEN rows ELSE {}
      BY <2>1, <2>3 DEF KeyRows, Row
    <3>5. \A r, s \in rows : r = s
      BY <2>1
    <3> SUFFICES ASSUME NEW a \in Holders, KeysKept(a) PROVE KeysKept(a)'
      BY <3>3 DEF KeysInv
    <3>6. CASE a # b
      <4>1. KeyRows(points', a) = KeyRows(points, a)
        BY <3>1, <3>4, <3>6 DEF KeyRows
      <4>2. \A q \in Scorings :
              KeyRows(unsaved'[q].points, a) \subseteq KeyRows(unsaved[q].points, a)
        BY <3>1, <3>4, <3>6 DEF KeyRows
      <4>3. \A q \in Scorings : KeyRows(SeenPoints(q)', a) \subseteq KeyRows(SeenPoints(q), a)
        BY <4>1, <4>2 DEF KeyRows, SeenPoints
      <4>4. \A q \in Scorings : SavesKeys(q, a)' => SavesKeys(q, a)
        BY <3>2, <3>3, <4>2 DEF SavesKeys
      <4> QED BY <3>2, <3>3, <4>1, <4>3, <4>4 DEF KeysKept, OneKey
    <3>7. CASE a = b
      <4>1. KeyRows(SeenPoints(p), a) = {} /\ SavesKeys(p, a)
        BY <2>1, <3>4, <3>7 DEF KeysKept, SavesKeys
      <4>2. \A q \in Scorings \ {p} :
              ~SavesKeys(q, a) /\ KeyRows(unsaved[q].points, a) = {}
        BY <4>1 DEF KeysKept, SavesKeys
      <4>3. KeyRows(points, a) = {}
        BY <4>1 DEF KeyRows, SeenPoints
      <4>4. KeyRows(points', a) \subseteq rows
        BY <3>1, <4>3 DEF KeyRows
      <4>5. KeyRows(SeenPoints(p)', a) \subseteq rows
        BY <3>1, <4>1 DEF KeyRows
      <4>6. \A q \in Scorings \ {p} : KeyRows(SeenPoints(q)', a) \subseteq rows
        BY <3>1, <4>2, <4>4 DEF KeyRows, SeenPoints
      <4>7. \A q \in Scorings \ {p} : ~SavesKeys(q, a)'
        BY <3>1, <3>2, <3>3, <4>2 DEF SavesKeys
      <4>8. \A q \in Scorings : ~(doing'[q] = "actions" /\ job'[q].address = a)
        BY <3>2, <3>3, <4>2 DEF SavesKeys
      <4> QED BY <3>5, <4>4, <4>5, <4>6, <4>7, <4>8 DEF KeysKept, OneKey
    <3> QED BY <3>6, <3>7
  <2> QED BY <2>2, <2>3
<1>8. ASSUME NEW p \in Scorings, AwardUnlimited(p) PROVE KeysInv'
  <2>1. /\ Over(p) /\ doing[p] = "unlimited" /\ excused' = excused
        /\ \E rows \in SUBSET PointRow : /\ points' = SeenPoints(p) \cup rows
                                         /\ \A row \in rows : row.action = "SOG"
    BY <1>8, CommitStep
  <2>2. \A a \in Holders : KeyRows(points', a) = KeyRows(SeenPoints(p), a)
    BY <2>1 DEF KeyRows
  <2>3. /\ doing'[p] = "idle" /\ unsaved'[p].points = {}
        /\ \A q \in Scorings \ {p} : /\ doing'[q] = doing[q] /\ holds'[q] = holds[q]
                                     /\ job'[q] = job[q] /\ unsaved'[q] = unsaved[q]
    BY <2>1, OverStep, EmptyWritten
  <2> SUFFICES ASSUME NEW a \in Holders, KeysKept(a) PROVE KeysKept(a)'
    BY <2>1 DEF KeysInv
  <2>4. \A q \in Scorings : SavesKeys(q, a)' => SavesKeys(q, a)
    BY <2>3 DEF SavesKeys, KeyRows
  <2>5. CASE KeyRows(unsaved[p].points, a) = {}
    <3>1. KeyRows(points', a) = KeyRows(points, a)
      BY <2>2, <2>5 DEF KeyRows, SeenPoints
    <3>2. \A q \in Scorings : KeyRows(SeenPoints(q)', a) \subseteq KeyRows(SeenPoints(q), a)
      BY <2>3, <3>1 DEF KeyRows, SeenPoints
    <3> QED BY <2>3, <2>4, <3>1, <3>2 DEF KeysKept, OneKey
  <2>6. CASE KeyRows(unsaved[p].points, a) # {}
    <3>1. \A q \in Scorings \ {p} :
            ~SavesKeys(q, a) /\ KeyRows(unsaved[q].points, a) = {}
      BY <2>6 DEF KeysKept, SavesKeys
    <3>2. \A q \in Scorings : KeyRows(SeenPoints(q)', a) = KeyRows(SeenPoints(p), a)
      BY <2>2, <2>3, <3>1 DEF KeyRows, SeenPoints
    <3>3. \A q \in Scorings : ~(doing'[q] = "actions" /\ job'[q].address = a)
      BY <2>3, <3>1 DEF SavesKeys
    <3> QED BY <2>2, <2>4, <3>2, <3>3 DEF KeysKept, OneKey
  <2> QED BY <2>5, <2>6
<1>9. ASSUME NEW p \in Scorings, Break(p) PROVE KeysInv'
  <2>1. Over(p) /\ excused \subseteq excused' /\ points' = points
    BY <1>9 DEF Break
  <2>2. /\ doing'[p] = "idle" /\ unsaved'[p].points = {}
        /\ \A q \in Scorings \ {p} : /\ doing'[q] = doing[q] /\ holds'[q] = holds[q]
                                     /\ job'[q] = job[q] /\ unsaved'[q] = unsaved[q]
    BY <2>1, OverStep, EmptyWritten
  <2>3. \A q \in Scorings, a \in Holders :
          KeyRows(unsaved'[q].points, a) \subseteq KeyRows(unsaved[q].points, a)
    BY <2>2 DEF KeyRows
  <2> QED BY <2>1, <2>2, <2>3, KeysApart
<1>10. CASE UNCHANGED hpVars
  BY <1>10, KeysApart DEF hpVars
<1> QED BY <1>2, <1>3, <1>4, <1>5, <1>6, <1>7, <1>8, <1>9, <1>10 DEF HPNext

(* The same for the limited points, whose rows are counted.                *)
Below(rows, action) == Cardinality(Awarded(rows, action)) <= OGLimit

LimitKept(action) ==
  /\ Below(points, action)
  /\ \A p \in Scorings :
       /\ Below(SeenPoints(p), action)
       /\ doing[p] = "limited" /\ Limited(p) = action /\ holds[p] =>
            Cardinality(Awarded(SeenPoints(p), action)) < OGLimit
  /\ \A p, q \in Scorings : p # q => ~(SavesLimited(p, action) /\ SavesLimited(q, action))

LimitInv ==
  \A action \in {"MM2", "MTA"} : <<action, NoHash>> \notin excused => LimitKept(action)

(* The points that a scoring sees are finitely many, so those of one action*)
(* are too.                                                                *)
LEMMA AwardedFinite ==
  ASSUME PointTypes, NEW p \in Scorings, NEW action
  PROVE  IsFiniteSet(Awarded(SeenPoints(p), action)) /\ IsFiniteSet(Awarded(points, action))
<1>1. IsFiniteSet(points) /\ IsFiniteSet(SeenPoints(p))
  BY FS_Union DEF PointTypes, GoodScoring, SeenPoints
<1>2. /\ Awarded(points, action) \subseteq points
      /\ Awarded(SeenPoints(p), action) \subseteq SeenPoints(p)
  BY DEF Awarded
<1> QED BY <1>1, <1>2, FS_Subset

(* Points that stay the same, or become fewer, stay below the limit.       *)
LEMMA LimitApart ==
  ASSUME PointConstants, PointTypes, LimitInv, excused \subseteq excused',
         \A action \in {"MM2", "MTA"} : Awarded(points', action) = Awarded(points, action),
         \A p \in Scorings :
           /\ \A action \in {"MM2", "MTA"} :
                /\ Awarded(unsaved'[p].points, action)
                     \subseteq Awarded(unsaved[p].points, action)
                /\ \/ Awarded(unsaved'[p].points, action)
                        = Awarded(unsaved[p].points, action)
                   \/ unsaved'[p].points = {}
           /\ doing'[p] = "limited" => /\ doing[p] = "limited" /\ job'[p] = job[p]
                                       /\ holds'[p] = holds[p]
                                       /\ unsaved'[p].points = unsaved[p].points
  PROVE  LimitInv'
<1> SUFFICES ASSUME NEW action \in {"MM2", "MTA"}, LimitKept(action)
             PROVE  LimitKept(action)'
  BY DEF LimitInv
<1>1. Below(points, action)'
  BY DEF LimitKept, Below
<1>2. \A p \in Scorings : SavesLimited(p, action)' => SavesLimited(p, action)
  BY DEF SavesLimited, Limited, InRust
<1>3. ASSUME NEW p \in Scorings PROVE Below(SeenPoints(p), action)'
  <2>1. CASE Awarded(unsaved'[p].points, action) = Awarded(unsaved[p].points, action)
    <3>1. Awarded(SeenPoints(p)', action) = Awarded(SeenPoints(p), action)
      BY <2>1 DEF SeenPoints, Awarded
    <3> QED BY <3>1 DEF LimitKept, Below
  <2>2. CASE unsaved'[p].points = {}
    <3>1. Awarded(SeenPoints(p)', action) = Awarded(points, action)
      BY <2>2 DEF SeenPoints, Awarded
    <3> QED BY <3>1 DEF LimitKept, Below
  <2> QED BY <2>1, <2>2
<1>4. ASSUME NEW p \in Scorings, doing'[p] = "limited", Limited(p)' = action, holds'[p]
      PROVE  Cardinality(Awarded(SeenPoints(p)', action)) < OGLimit
  <2>1. /\ doing[p] = "limited" /\ Limited(p) = action /\ holds[p]
        /\ unsaved'[p].points = unsaved[p].points
    BY <1>4 DEF Limited, InRust
  <2>2. Awarded(SeenPoints(p)', action) = Awarded(SeenPoints(p), action)
    BY <2>1 DEF SeenPoints, Awarded
  <2> QED BY <2>1, <2>2 DEF LimitKept
<1> QED BY <1>1, <1>2, <1>3, <1>4 DEF LimitKept

(* Every step keeps the limits, or excuses it.                             *)
LEMMA LimitStep ==
  ASSUME PointConstants, PointTypes, LimitInv, [HPNext]_hpVars
  PROVE  LimitInv'
<1>1. ASSUME NEW p \in Scorings, NEW passing, NEW rows, NEW next,
             Saves(p, passing, rows, next), \A row \in rows : row.action \notin {"MM2", "MTA"}
      PROVE  LimitInv'
  <2>1. /\ \A q \in Scorings \ {p} : unsaved'[q] = unsaved[q]
        /\ points \subseteq points' /\ points' \subseteq points \cup rows
        /\ unsaved'[p].points \subseteq unsaved[p].points \cup rows
        /\ doing' = [doing EXCEPT ![p] = next]
        /\ SeenPoints(p)' = SeenPoints(p) \cup rows
    BY <1>1, SaveStep
  <2>2. doing'[p] # "limited" /\ \A q \in Scorings \ {p} : doing'[q] = doing[q]
    BY <1>1, <2>1 DEF PointTypes, Saves
  <2>3. job' = job /\ excused' = excused /\ holds' = holds
    BY <1>1 DEF Save, Saves
  <2>4. \A action \in {"MM2", "MTA"} : Awarded(points', action) = Awarded(points, action)
    BY <1>1, <2>1 DEF Awarded
  <2>5. unsaved[p].points \subseteq unsaved'[p].points
    BY <1>1 DEF Saves, Save, PointTypes, Written
  <2>6. \A action \in {"MM2", "MTA"} :
          Awarded(unsaved'[p].points, action) = Awarded(unsaved[p].points, action)
    BY <1>1, <2>1, <2>5 DEF Awarded
  <2> QED BY <2>1, <2>2, <2>3, <2>4, <2>6, LimitApart
<1>2. ASSUME NEW p \in Scorings, Start(p) PROVE LimitInv'
  BY <1>2, StartStep, LimitApart
<1>3. ASSUME NEW p \in Scorings, RecordPassingScore(p) PROVE LimitInv'
  <2>1. Saves(p, {<<job[p].address, job[p].community>>}, {}, "keys")
    BY <1>3, PassingSaved
  <2>2. \A row \in {} : row.action \notin {"MM2", "MTA"}
    OBVIOUS
  <2> QED BY <1>1, <2>1, <2>2
<1>4. ASSUME NEW p \in Scorings, RecordStampActions(p) PROVE LimitInv'
  <2>1. PICK rows \in SUBSET PointRow :
           /\ rows = IF holds[p] \/ job[p].hash = NoHash THEN {}
                     ELSE {Row(job[p].address, "HKY", job[p].hash)}
           /\ Saves(p, {}, rows, "count")
    BY <1>4, KeySaved
  <2>2. \A row \in rows : row.action \notin {"MM2", "MTA"}
    BY <2>1 DEF Row
  <2> QED BY <1>1, <2>1, <2>2
<1>5. ASSUME NEW p \in Scorings, CountPassing(p) \/ ReadKeys(p) PROVE LimitInv'
  <2>1. /\ doing'[p] # "limited"
        /\ \A q \in Scorings \ {p} : doing'[q] = doing[q] /\ holds'[q] = holds[q]
        /\ UNCHANGED <<points, job, unsaved>>
        /\ excused \subseteq excused'
    BY <1>5, PassingCounted, KeysRead
  <2> QED BY <2>1, LimitApart
<1>6. ASSUME NEW p \in Scorings, CheckLimit(p) PROVE LimitInv'
  <2>1. /\ doing'[p] = "limited"
        /\ holds'[p] => Cardinality(Awarded(SeenPoints(p), Limited(p))) < OGLimit
        /\ \A q \in Scorings \ {p} : doing'[q] = doing[q] /\ holds'[q] = holds[q]
        /\ UNCHANGED <<points, job, unsaved>> /\ excused \subseteq excused'
        /\ (\E q \in Scorings \ {p} : SavesLimited(q, Limited(p))) =>
             <<Limited(p), NoHash>> \in excused'
    BY <1>6, LimitChecked
  <2> SUFFICES ASSUME NEW action \in {"MM2", "MTA"}, <<action, NoHash>> \notin excused',
                      LimitKept(action)
               PROVE  LimitKept(action)'
    BY <2>1 DEF LimitInv
  <2>2. Below(points, action)' /\ \A q \in Scorings : Below(SeenPoints(q), action)'
    BY <2>1 DEF LimitKept, Below, SeenPoints
  <2>3. \A q \in Scorings : SeenPoints(q)' = SeenPoints(q) /\ Limited(q)' = Limited(q)
    BY <2>1 DEF SeenPoints, Limited, InRust
  <2>4. \A q \in Scorings : doing'[q] = "limited" /\ Limited(q)' = action /\ holds'[q] =>
          Cardinality(Awarded(SeenPoints(q)', action)) < OGLimit
    BY <2>1, <2>3 DEF LimitKept
  <2>5. \A q \in Scorings \ {p} : SavesLimited(q, action)' <=> SavesLimited(q, action)
    BY <2>1, <2>3 DEF SavesLimited
  <2>6. action # Limited(p) => (SavesLimited(p, action)' => SavesLimited(p, action))
    BY <2>1, <2>3 DEF SavesLimited
  <2>7. \A q, r \in Scorings :
          q # r => ~(SavesLimited(q, action) /\ SavesLimited(r, action))'
    BY <2>1, <2>5, <2>6 DEF LimitKept
  <2> QED BY <2>2, <2>4, <2>7 DEF LimitKept
<1>7. ASSUME NEW p \in Scorings, AwardBonus(p) \/ AwardLimited(p) PROVE LimitInv'
  <2>1. PICK rows \in SUBSET PointRow, next \in {"limit", "unlimited"},
            given \in {"SCB", "MM2", "MTA"} :
           /\ rows = IF holds[p] THEN {Row(job[p].address, given, NoHash)} ELSE {}
           /\ \/ AwardBonus(p) /\ doing[p] = "bonus" /\ next = "limit" /\ given = "SCB"
              \/ /\ AwardLimited(p) /\ doing[p] = "limited" /\ next = "unlimited"
                 /\ given = Limited(p)
           /\ Saves(p, {}, rows, next)
    BY <1>7, AwardSaved
  <2>2. \A row \in rows : row.action = given
    BY <2>1 DEF Row
  <2>3. CASE rows = {} \/ given = "SCB"
    <3>1. \A row \in rows : row.action \notin {"MM2", "MTA"}
      BY <2>2, <2>3
    <3> QED BY <1>1, <2>1, <3>1
  <2>4. CASE rows # {} /\ given # "SCB"
    <3>1. holds[p] /\ doing[p] = "limited" /\ given = Limited(p)
      BY <2>1, <2>4
    <3>2. PICK row : rows = {row} /\ row.action = given
      BY <2>1, <2>2, <3>1
    <3>3. /\ \A q \in Scorings \ {p} : unsaved'[q] = unsaved[q]
          /\ points \subseteq points' /\ points' \subseteq points \cup rows
          /\ unsaved'[p].points \subseteq unsaved[p].points \cup rows
          /\ doing' = [doing EXCEPT ![p] = next]
          /\ SeenPoints(p)' = SeenPoints(p) \cup rows
          /\ unsaved' = unsaved \/ points' = points
      BY <2>1, SaveStep
    <3>4. doing'[p] # "limited" /\ \A q \in Scorings \ {p} : doing'[q] = doing[q]
      BY <2>1, <3>3 DEF PointTypes
    <3>5. job' = job /\ excused' = excused /\ holds' = holds
      BY <2>1 DEF Save, Saves
    <3>6. \A q \in Scorings : Limited(q)' = Limited(q)
      BY <3>5 DEF Limited, InRust
    <3> SUFFICES ASSUME NEW action \in {"MM2", "MTA"}, LimitKept(action)
                 PROVE  LimitKept(action)'
      BY <3>5 DEF LimitInv
    <3>7. CASE action = given
      <4>1. SavesLimited(p, action)
        BY <3>1, <3>7 DEF SavesLimited
      <4>2. \A q \in Scorings \ {p} :
              ~SavesLimited(q, action) /\ Awarded(unsaved[q].points, action) = {}
        BY <4>1 DEF LimitKept, SavesLimited
      <4>3. Cardinality(Awarded(SeenPoints(p), action)) < OGLimit
        BY <3>1, <3>7 DEF LimitKept
      <4> DEFINE all == Awarded(SeenPoints(p), action) \cup {row}
      <4>4. Awarded(SeenPoints(p)', action) = all
        BY <3>2, <3>3, <3>7 DEF Awarded
      <4>5. IsFiniteSet(all) /\ Cardinality(all) <= OGLimit
        <5>1. IsFiniteSet(Awarded(SeenPoints(p), action))
          BY AwardedFinite
        <5>2. Cardinality(Awarded(SeenPoints(p), action)) \in Nat
          BY <5>1, FS_CardinalityType
        <5> QED BY <4>3, <5>1, <5>2, FS_AddElement DEF PointConstants
      <4>6. Awarded(points', action) \subseteq all
        BY <3>2, <3>3 DEF Awarded, SeenPoints
      <4>7. \A q \in Scorings \ {p} : Awarded(SeenPoints(q)', action) \subseteq all
        BY <3>3, <4>2, <4>6 DEF Awarded, SeenPoints
      <4> HIDE DEF all
      <4>8. \A rest : rest \subseteq all => Cardinality(rest) <= OGLimit
        <5> SUFFICES ASSUME NEW rest, rest \subseteq all PROVE Cardinality(rest) <= OGLimit
          OBVIOUS
        <5>1. IsFiniteSet(rest) /\ Cardinality(rest) <= Cardinality(all)
          BY <4>5, FS_Subset
        <5>2. Cardinality(rest) \in Nat /\ Cardinality(all) \in Nat
          BY <4>5, <5>1, FS_CardinalityType
        <5> QED BY <4>5, <5>1, <5>2 DEF PointConstants
      <4>9. Below(points, action)' /\ \A q \in Scorings : Below(SeenPoints(q), action)'
        BY <4>4, <4>6, <4>7, <4>8 DEF Below
      <4>10. \A q \in Scorings \ {p} : ~SavesLimited(q, action)'
        BY <3>3, <3>4, <3>6, <4>2 DEF SavesLimited
      <4>11. \A q \in Scorings : ~(doing'[q] = "limited" /\ Limited(q)' = action)
        BY <3>4, <3>6, <4>2 DEF SavesLimited
      <4> QED BY <4>9, <4>10, <4>11 DEF LimitKept
    <3>8. CASE action # given
      <4>1. Awarded(points', action) = Awarded(points, action)
        BY <3>2, <3>3, <3>8 DEF Awarded
      <4>2. Awarded(SeenPoints(p)', action) = Awarded(SeenPoints(p), action)
        BY <3>2, <3>3, <3>8 DEF Awarded
      <4>3. \A q \in Scorings \ {p} :
              Awarded(SeenPoints(q)', action) = Awarded(SeenPoints(q), action)
        BY <3>3, <4>1 DEF Awarded, SeenPoints
      <4>4. Awarded(unsaved'[p].points, action) \subseteq Awarded(unsaved[p].points, action)
        BY <3>2, <3>3, <3>8 DEF Awarded
      <4>5. \A q \in Scorings : SavesLimited(q, action)' => SavesLimited(q, action)
        BY <3>3, <3>4, <3>6, <4>4 DEF SavesLimited
      <4>6. Below(points, action)' /\ \A q \in Scorings : Below(SeenPoints(q), action)'
        BY <4>1, <4>2, <4>3 DEF LimitKept, Below
      <4>7. \A q \in Scorings : doing'[q] = "limited" /\ Limited(q)' = action /\ holds'[q] =>
              Cardinality(Awarded(SeenPoints(q)', action)) < OGLimit
        BY <3>4, <3>5, <3>6, <4>3 DEF LimitKept
      <4> QED BY <4>5, <4>6, <4>7 DEF LimitKept
    <3> QED BY <3>7, <3>8
  <2> QED BY <2>3, <2>4
<1>8. ASSUME NEW p \in Scorings, AwardUnlimited(p) PROVE LimitInv'
  <2>1. /\ Over(p) /\ doing[p] = "unlimited" /\ excused' = excused
        /\ \E rows \in SUBSET PointRow : /\ points' = SeenPoints(p) \cup rows
                                         /\ \A row \in rows : row.action = "SOG"
    BY <1>8, CommitStep
  <2>2. \A action \in {"MM2", "MTA"} : Awarded(points', action) = Awarded(SeenPoints(p), action)
    BY <2>1 DEF Awarded
  <2>3. /\ doing'[p] = "idle" /\ unsaved'[p].points = {}
        /\ \A q \in Scorings \ {p} : /\ doing'[q] = doing[q] /\ holds'[q] = holds[q]
                                     /\ job'[q] = job[q] /\ unsaved'[q] = unsaved[q]
    BY <2>1, OverStep, EmptyWritten
  <2> SUFFICES ASSUME NEW action \in {"MM2", "MTA"}, LimitKept(action)
               PROVE  LimitKept(action)'
    BY <2>1 DEF LimitInv
  <2>4. \A q \in Scorings \ {p} : Limited(q)' = Limited(q)
    BY <2>3 DEF Limited, InRust
  <2>5. \A q \in Scorings : SavesLimited(q, action)' => SavesLimited(q, action)
    BY <2>3, <2>4 DEF SavesLimited, Awarded
  <2>6. CASE Awarded(unsaved[p].points, action) = {}
    <3>1. Awarded(points', action) = Awarded(points, action)
      BY <2>2, <2>6 DEF Awarded, SeenPoints
    <3>2. \A q \in Scorings \ {p} :
            Awarded(SeenPoints(q)', action) = Awarded(SeenPoints(q), action)
      BY <2>3, <3>1 DEF Awarded, SeenPoints
    <3>3. Awarded(SeenPoints(p)', action) = Awarded(points, action)
      BY <2>3, <3>1 DEF Awarded, SeenPoints
    <3> QED BY <2>3, <2>4, <2>5, <3>1, <3>2, <3>3 DEF LimitKept, Below
  <2>7. CASE Awarded(unsaved[p].points, action) # {}
    <3>1. \A q \in Scorings \ {p} :
            ~SavesLimited(q, action) /\ Awarded(unsaved[q].points, action) = {}
      BY <2>7 DEF LimitKept, SavesLimited
    <3>2. \A q \in Scorings : Awarded(SeenPoints(q)', action) = Awarded(SeenPoints(p), action)
      BY <2>2, <2>3, <3>1 DEF Awarded, SeenPoints
    <3>3. \A q \in Scorings : ~(doing'[q] = "limited" /\ Limited(q)' = action)
      BY <2>3, <2>4, <3>1 DEF SavesLimited
    <3> QED BY <2>2, <2>5, <3>2, <3>3 DEF LimitKept, Below
  <2> QED BY <2>6, <2>7
<1>9. ASSUME NEW p \in Scorings, Break(p) PROVE LimitInv'
  <2>1. Over(p) /\ excused \subseteq excused' /\ points' = points
    BY <1>9 DEF Break
  <2>2. /\ doing'[p] = "idle" /\ unsaved'[p].points = {}
        /\ \A q \in Scorings \ {p} : /\ doing'[q] = doing[q] /\ holds'[q] = holds[q]
                                     /\ job'[q] = job[q] /\ unsaved'[q] = unsaved[q]
    BY <2>1, OverStep, EmptyWritten
  <2>3. \A action \in {"MM2", "MTA"} :
          Awarded(unsaved'[p].points, action) \subseteq Awarded(unsaved[p].points, action)
    BY <2>2 DEF Awarded
  <2> QED BY <2>1, <2>2, <2>3, LimitApart
<1>10. CASE UNCHANGED hpVars
  BY <1>10, LimitApart DEF hpVars
<1> QED BY <1>2, <1>3, <1>4, <1>5, <1>6, <1>7, <1>8, <1>9, <1>10 DEF HPNext

(* Who will see to the bonus of an address: a scoring that has not counted *)
(* yet, found that it is due, or has written it and not committed.         *)
Counts(p, a) == /\ doing[p] \in {"passing", "keys", "actions", "count"}
                /\ job[p].address = a
Bonus(a) == Row(a, "SCB", NoHash)
Delivers(p, a) ==
  \/ Counts(p, a)
  \/ doing[p] = "bonus" /\ holds[p] /\ job[p].address = a
  \/ Bonus(a) \in unsaved[p].points

Due(passed, a) == Cardinality(Communities(passed, a)) >= BonusAt

(* It is seen to once it is due by what is committed, or by that and what  *)
(* one transaction will commit.  No two transactions with a passing score  *)
(* of the address have counted: the later one would not have seen all.     *)
BonusSeenTo(a) ==
  /\ Due(qualified, a) => Bonus(a) \in points \/ \E q \in Scorings : Delivers(q, a)
  /\ \A p \in Scorings : Pending(p, a) /\ Due(SeenQualified(p), a) =>
       Bonus(a) \in points \/ \E q \in Scorings : Delivers(q, a)
  /\ \A p, q \in Scorings : p # q /\ Pending(p, a) /\ Pending(q, a) =>
       Counts(p, a) \/ Counts(q, a)

BonusInv == \A a \in Holders : <<"SCB", a>> \notin excused => BonusSeenTo(a)

(* A count of more communities is no smaller.                              *)
LEMMA DueGrows ==
  ASSUME PointConstants, NEW few, NEW many, IsFiniteSet(many), few \subseteq many, NEW a,
         Due(few, a)
  PROVE  Due(many, a)
<1> DEFINE less == Communities(few, a)
           more == Communities(many, a)
<1>1. less \subseteq more /\ more \subseteq many
  BY DEF Communities
<1> HIDE DEF less, more
<1>2. IsFiniteSet(more)
  BY <1>1, FS_Subset
<1>3. Cardinality(less) <= Cardinality(more) /\ IsFiniteSet(less)
  BY <1>1, <1>2, FS_Subset
<1>4. Cardinality(less) \in Nat /\ Cardinality(more) \in Nat
  BY <1>2, <1>3, FS_CardinalityType
<1> QED BY <1>3, <1>4 DEF Due, PointConstants, less, more

(* Nothing is lost where whoever will see to it still does.                *)
LEMMA BonusApart ==
  ASSUME BonusInv, excused \subseteq excused', qualified' = qualified,
         points \subseteq points',
         \A p \in Scorings : unsaved'[p].qualified \in {unsaved[p].qualified, {}},
         \A p \in Scorings, a \in Holders :
           <<"SCB", a>> \notin excused' /\ Delivers(p, a) =>
             Delivers(p, a)' \/ Bonus(a) \in points',
         \A p \in Scorings, a \in Holders :
           Counts(p, a) => Counts(p, a)' \/ unsaved'[p].qualified = {}
  PROVE  BonusInv'
<1> SUFFICES ASSUME NEW a \in Holders, <<"SCB", a>> \notin excused', BonusSeenTo(a)
             PROVE  BonusSeenTo(a)'
  BY DEF BonusInv
<1>1. (Bonus(a) \in points \/ \E q \in Scorings : Delivers(q, a)) =>
        (Bonus(a) \in points' \/ \E q \in Scorings : Delivers(q, a)')
  OBVIOUS
<1>2. \A p \in Scorings : Pending(p, a)' =>
        Pending(p, a) /\ SeenQualified(p)' = SeenQualified(p)
  BY DEF Pending, Communities, SeenQualified
<1>3. Due(qualified, a)' => Due(qualified, a)
  OBVIOUS
<1>4. \A p \in Scorings : Pending(p, a)' /\ Due(SeenQualified(p), a)' =>
        Due(SeenQualified(p), a)
  BY <1>2
<1>5. \A p \in Scorings : Pending(p, a)' => unsaved'[p].qualified # {}
  BY DEF Pending, Communities
<1> QED BY <1>1, <1>2, <1>3, <1>4, <1>5 DEF BonusSeenTo

(* Every step sees to each bonus, or excuses it.                           *)
LEMMA BonusStep ==
  ASSUME PointConstants, PointTypes, BonusInv, [HPNext]_hpVars
  PROVE  BonusInv'
<1>1. ASSUME NEW p \in Scorings, NEW rows, NEW next, Saves(p, {}, rows, next),
             \A a \in Holders : Delivers(p, a) =>
               (Counts(p, a) /\ next = "count") \/ Bonus(a) \in unsaved[p].points \cup rows,
             \A a \in Holders : Counts(p, a) => next = "count"
      PROVE  BonusInv'
  <2>1. /\ \A q \in Scorings \ {p} : unsaved'[q] = unsaved[q]
        /\ points \subseteq points' /\ unsaved'[p].qualified \subseteq unsaved[p].qualified \cup {}
        /\ SeenPoints(p)' = SeenPoints(p) \cup rows
        /\ doing' = [doing EXCEPT ![p] = next]
        /\ qualified' = qualified \/ qualified' = qualified \cup {}
    BY <1>1, SaveStep
  <2>2. doing'[p] = next /\ \A q \in Scorings \ {p} : doing'[q] = doing[q]
    BY <2>1 DEF PointTypes
  <2>3. job' = job /\ excused' = excused /\ holds' = holds
    BY <1>1 DEF Save, Saves
  <2>4. \A q \in Scorings : unsaved'[q].qualified = unsaved[q].qualified
    BY <1>1 DEF Saves, Save, PointTypes, Written
  <2>5. \A a \in Holders : Counts(p, a) => Counts(p, a)'
    BY <1>1, <2>2, <2>3 DEF Counts
  <2>6. \A a \in Holders : Delivers(p, a) => Delivers(p, a)' \/ Bonus(a) \in points'
    BY <1>1, <2>1, <2>2, <2>3, <2>5 DEF Delivers, SeenPoints
  <2>7. \A q \in Scorings \ {p}, a \in Holders :
          (Counts(q, a) => Counts(q, a)') /\ (Delivers(q, a) => Delivers(q, a)')
    BY <2>1, <2>2, <2>3 DEF Delivers, Counts
  <2> QED BY <2>1, <2>3, <2>4, <2>5, <2>6, <2>7, BonusApart
<1>2. ASSUME NEW p \in Scorings, Start(p) PROVE BonusInv'
  <2>1. /\ doing[p] = "idle" /\ doing'[p] = "passing" /\ unsaved[p].points = {}
        /\ \A q \in Scorings \ {p} : doing'[q] = doing[q] /\ job'[q] = job[q]
        /\ UNCHANGED <<qualified, points, holds, unsaved, excused>>
    BY <1>2, StartStep, EmptyWritten
  <2>2. \A q \in Scorings, a \in Holders :
          (Counts(q, a) => Counts(q, a)') /\ (Delivers(q, a) => Delivers(q, a)')
    BY <2>1 DEF Delivers, Counts
  <2> QED BY <2>1, <2>2, BonusApart
<1>3. ASSUME NEW p \in Scorings, RecordPassingScore(p) PROVE BonusInv'
  <2> DEFINE b == job[p].address
             passing == {<<job[p].address, job[p].community>>}
  <2>1. doing[p] = "passing" /\ Saves(p, passing, {}, "keys")
    BY <1>3, PassingSaved
  <2> HIDE DEF passing
  <2>2. /\ \A q \in Scorings \ {p} : unsaved'[q] = unsaved[q]
        /\ points \subseteq points' /\ points' \subseteq points \cup {}
        /\ unsaved'[p].points \subseteq unsaved[p].points \cup {}
        /\ unsaved'[p].qualified \subseteq unsaved[p].qualified \cup passing
        /\ SeenPoints(p)' = SeenPoints(p) \cup {}
        /\ doing' = [doing EXCEPT ![p] = "keys"]
        /\ qualified' = qualified \/ qualified' = qualified \cup passing
    BY <2>1, SaveStep
  <2>3. doing'[p] = "keys" /\ \A q \in Scorings \ {p} : doing'[q] = doing[q]
    BY <2>2 DEF PointTypes
  <2>4. job' = job /\ excused' = excused /\ holds' = holds
    BY <2>1 DEF Save, Saves
  <2> SUFFICES ASSUME NEW a \in Holders, BonusSeenTo(a) PROVE BonusSeenTo(a)'
    BY <2>4 DEF BonusInv
  <2>5. CASE a = b
    <3>1. Counts(p, a)' /\ Delivers(p, a)'
      BY <2>3, <2>4, <2>5 DEF Counts, Delivers
    <3>2. \A q \in Scorings \ {p} :
            (Pending(q, a)' <=> Pending(q, a)) /\ (Counts(q, a)' <=> Counts(q, a))
      BY <2>2, <2>3, <2>4 DEF Pending, Counts
    <3> QED BY <3>1, <3>2 DEF BonusSeenTo
  <2>6. CASE a # b
    <3>1. Communities(passing, a) = {}
      BY <2>6 DEF Communities, passing
    <3>2. Communities(qualified', a) = Communities(qualified, a)
      BY <2>2, <3>1 DEF Communities
    <3>3. \A q \in Scorings :
            /\ Communities(unsaved'[q].qualified, a) \subseteq Communities(unsaved[q].qualified, a)
            /\ Communities(SeenQualified(q)', a) = Communities(SeenQualified(q), a)
      <4>1. /\ unsaved'[p].qualified \subseteq unsaved[p].qualified \cup passing
            /\ SeenQualified(p)' = SeenQualified(p) \cup passing
        BY <2>1, SaveStep
      <4>2. \A q \in Scorings \ {p} :
              Communities(SeenQualified(q)', a) = Communities(SeenQualified(q), a)
        BY <2>2, <3>2 DEF Communities, SeenQualified
      <4>3. /\ Communities(unsaved'[p].qualified, a) \subseteq Communities(unsaved[p].qualified, a)
            /\ Communities(SeenQualified(p)', a) = Communities(SeenQualified(p), a)
        BY <3>1, <4>1 DEF Communities
      <4> QED BY <2>2, <4>2, <4>3
    <3>4. \A q \in Scorings :
            (Counts(q, a)' <=> Counts(q, a)) /\ (Pending(q, a)' => Pending(q, a))
      BY <2>1, <2>3, <2>4, <2>6, <3>3 DEF Counts, Pending
    <3>5. points' = points /\ \A q \in Scorings : unsaved'[q].points = unsaved[q].points
      BY <2>1, <2>2 DEF Saves, Save, PointTypes, Written
    <3>6. \A q \in Scorings : Delivers(q, a) => Delivers(q, a)'
      BY <2>1, <2>3, <2>4, <2>6, <3>4, <3>5 DEF Delivers
    <3>7. /\ Due(qualified, a)' => Due(qualified, a)
          /\ \A q \in Scorings : Due(SeenQualified(q), a)' => Due(SeenQualified(q), a)
      BY <3>2, <3>3 DEF Due
    <3> QED BY <3>4, <3>5, <3>6, <3>7 DEF BonusSeenTo
  <2> QED BY <2>5, <2>6
<1>4. ASSUME NEW p \in Scorings, RecordStampActions(p) PROVE BonusInv'
  <2>1. PICK rows \in SUBSET PointRow :
          doing[p] = "actions" /\ Saves(p, {}, rows, "count")
    BY <1>4, KeySaved
  <2>2. \A a \in Holders : Delivers(p, a) => Counts(p, a) \/ Bonus(a) \in unsaved[p].points
    BY <2>1 DEF Delivers
  <2> QED BY <1>1, <2>1, <2>2
<1>5. ASSUME NEW p \in Scorings, AwardBonus(p) \/ AwardLimited(p) PROVE BonusInv'
  <2>1. PICK rows \in SUBSET PointRow, next \in {"limit", "unlimited"},
            action \in {"SCB", "MM2", "MTA"} :
           /\ rows = IF holds[p] THEN {Row(job[p].address, action, NoHash)} ELSE {}
           /\ \/ AwardBonus(p) /\ doing[p] = "bonus" /\ next = "limit" /\ action = "SCB"
              \/ /\ AwardLimited(p) /\ doing[p] = "limited" /\ next = "unlimited"
                 /\ action = Limited(p)
           /\ Saves(p, {}, rows, next)
    BY <1>5, AwardSaved
  <2>2. \A a \in Holders : ~Counts(p, a)
    BY <2>1 DEF Counts
  <2>3. \A a \in Holders : Delivers(p, a) => Bonus(a) \in unsaved[p].points \cup rows
    BY <2>1, <2>2 DEF Delivers, Bonus
  <2> QED BY <1>1, <2>1, <2>2, <2>3
<1>6. ASSUME NEW p \in Scorings, CheckLimit(p) \/ ReadKeys(p) PROVE BonusInv'
  <2>1. /\ \/ doing[p] = "keys" /\ doing'[p] = "actions"
           \/ doing[p] = "limit" /\ doing'[p] = "limited"
        /\ \A q \in Scorings \ {p} : doing'[q] = doing[q] /\ holds'[q] = holds[q]
        /\ UNCHANGED <<qualified, points, job, unsaved>>
        /\ excused \subseteq excused'
    BY <1>6, LimitChecked, KeysRead
  <2>2. \A q \in Scorings, a \in Holders :
          (Counts(q, a) => Counts(q, a)') /\ (Delivers(q, a) => Delivers(q, a)')
    BY <2>1 DEF Delivers, Counts
  <2> QED BY <2>1, <2>2, BonusApart
<1>7. ASSUME NEW p \in Scorings, CountPassing(p) PROVE BonusInv'
  <2> DEFINE b == job[p].address
  <2>1. /\ doing[p] = "count" /\ doing'[p] = "bonus"
        /\ holds'[p] = Due(SeenQualified(p), b)
        /\ \A q \in Scorings \ {p} : doing'[q] = doing[q] /\ holds'[q] = holds[q]
        /\ UNCHANGED <<qualified, points, job, unsaved>> /\ excused \subseteq excused'
        /\ (\E q \in Scorings \ {p} : Pending(q, b)) => <<"SCB", b>> \in excused'
    BY <1>7, PassingCounted DEF Due
  <2> SUFFICES ASSUME NEW a \in Holders, <<"SCB", a>> \notin excused', BonusSeenTo(a)
               PROVE  BonusSeenTo(a)'
    BY <2>1 DEF BonusInv
  <2>2. \A q \in Scorings : /\ Pending(q, a)' <=> Pending(q, a)
                            /\ SeenQualified(q)' = SeenQualified(q)
    BY <2>1 DEF Pending, SeenQualified
  <2>3. \A q \in Scorings \ {p} :
          (Counts(q, a)' <=> Counts(q, a)) /\ (Delivers(q, a)' <=> Delivers(q, a))
    BY <2>1 DEF Counts, Delivers
  <2>4. CASE a # b
    <3>1. (Counts(p, a)' <=> Counts(p, a)) /\ (Delivers(p, a) => Delivers(p, a)')
      BY <2>1, <2>4 DEF Counts, Delivers
    <3> QED BY <2>1, <2>2, <2>3, <3>1 DEF BonusSeenTo
  <2>5. CASE a = b
    <3>1. \A q \in Scorings \ {p} : ~Pending(q, a)
      BY <2>1, <2>5
    <3>2. CASE Due(SeenQualified(p), a)
      <4>1. Delivers(p, a)'
        BY <2>1, <2>5, <3>2 DEF Delivers
      <4> QED BY <2>2, <3>1, <4>1 DEF BonusSeenTo
    <3>3. CASE ~Due(SeenQualified(p), a)
      <4>1. IsFiniteSet(SeenQualified(p)) /\ qualified \subseteq SeenQualified(p)
        BY FS_Union DEF PointTypes, GoodScoring, SeenQualified
      <4>2. ~Due(qualified, a)
        BY <3>3, <4>1, DueGrows
      <4>3. ~Due(qualified, a)' /\ ~Due(SeenQualified(p), a)'
        BY <2>1, <2>2, <3>3, <4>2
      <4> QED BY <2>2, <3>1, <4>3 DEF BonusSeenTo
    <3> QED BY <3>2, <3>3
  <2> QED BY <2>4, <2>5
<1>8. ASSUME NEW p \in Scorings, AwardUnlimited(p) PROVE BonusInv'
  <2>1. /\ Over(p) /\ doing[p] = "unlimited" /\ excused' = excused
        /\ qualified' = SeenQualified(p)
        /\ \E rows \in SUBSET PointRow : points' = SeenPoints(p) \cup rows
    BY <1>8, CommitStep
  <2>2. SeenPoints(p) \subseteq points'
    BY <2>1
  <2>3. /\ doing'[p] = "idle" /\ unsaved'[p].qualified = {}
        /\ \A q \in Scorings \ {p} : /\ doing'[q] = doing[q] /\ holds'[q] = holds[q]
                                     /\ job'[q] = job[q] /\ unsaved'[q] = unsaved[q]
    BY <2>1, OverStep, EmptyWritten
  <2> SUFFICES ASSUME NEW a \in Holders, BonusSeenTo(a) PROVE BonusSeenTo(a)'
    BY <2>1 DEF BonusInv
  <2> DEFINE Served == Bonus(a) \in points \/ \E q \in Scorings : Delivers(q, a)
             Later == Bonus(a) \in points' \/ \E q \in Scorings : Delivers(q, a)'
  <2>4. \A q \in Scorings \ {p} :
          /\ Delivers(q, a) => Delivers(q, a)'
          /\ Counts(q, a) => Counts(q, a)'
          /\ Pending(q, a)' <=> Pending(q, a)
    BY <2>3 DEF Delivers, Counts, Pending
  <2>5. ~Counts(p, a) /\ ~Pending(p, a)'
    BY <2>1, <2>3 DEF Counts, Pending, Communities
  <2>6. Delivers(p, a) => Bonus(a) \in points'
    BY <2>1, <2>2 DEF Delivers, Counts, SeenPoints
  <2>7. Served => Later
    BY <2>2, <2>4, <2>6 DEF SeenPoints
  <2>8. Due(qualified, a)' => Later
    <3>1. CASE Pending(p, a)
      BY <2>1, <2>7, <3>1 DEF BonusSeenTo
    <3>2. CASE ~Pending(p, a)
      <4>1. Communities(qualified', a) = Communities(qualified, a)
        BY <2>1, <3>2 DEF Pending, Communities, SeenQualified
      <4> QED BY <2>7, <4>1 DEF BonusSeenTo, Due
    <3> QED BY <3>1, <3>2
  <2>9. ASSUME NEW q \in Scorings, Pending(q, a)', Due(SeenQualified(q), a)' PROVE Later
    <3>1. q # p /\ Pending(q, a)
      BY <2>4, <2>5, <2>9
    <3>2. CASE Pending(p, a)
      <4>1. Counts(q, a)
        BY <2>5, <3>1, <3>2 DEF BonusSeenTo
      <4>2. Delivers(q, a)'
        BY <2>4, <3>1, <4>1 DEF Delivers
      <4> QED BY <4>2
    <3>3. CASE ~Pending(p, a)
      <4>1. Communities(SeenQualified(q)', a) = Communities(SeenQualified(q), a)
        BY <2>1, <2>3, <3>1, <3>3 DEF Pending, Communities, SeenQualified
      <4>2. Due(SeenQualified(q), a)
        BY <2>9, <4>1 DEF Due
      <4> QED BY <2>7, <3>1, <4>2 DEF BonusSeenTo
    <3> QED BY <3>2, <3>3
  <2>10. \A q, r \in Scorings : q # r /\ Pending(q, a)' /\ Pending(r, a)' =>
           Counts(q, a)' \/ Counts(r, a)'
    BY <2>4, <2>5 DEF BonusSeenTo
  <2> QED BY <2>8, <2>9, <2>10 DEF BonusSeenTo
<1>9. ASSUME NEW p \in Scorings, Break(p) PROVE BonusInv'
  <2>1. /\ Active(p) /\ Over(p) /\ UNCHANGED <<qualified, points>>
        /\ excused' = excused \cup {<<"SCB", job[p].address>>}
    BY <1>9 DEF Break
  <2>2. /\ doing'[p] = "idle" /\ unsaved'[p].qualified = {}
        /\ \A q \in Scorings \ {p} : /\ doing'[q] = doing[q] /\ holds'[q] = holds[q]
                                     /\ job'[q] = job[q] /\ unsaved'[q] = unsaved[q]
    BY <2>1, OverStep, EmptyWritten
  <2>3. \A a \in Holders : Delivers(p, a) => <<"SCB", a>> \in excused'
    <3> SUFFICES ASSUME NEW a \in Holders, Delivers(p, a) PROVE job[p].address = a
      BY <2>1
    <3>1. \A row \in unsaved[p].points : row.address = job[p].address
      BY DEF PointTypes, GoodScoring
    <3> QED BY <3>1 DEF Delivers, Counts, Bonus, Row
  <2>4. \A q \in Scorings \ {p}, a \in Holders :
          (Counts(q, a) => Counts(q, a)') /\ (Delivers(q, a) => Delivers(q, a)')
    BY <2>2 DEF Delivers, Counts
  <2> QED BY <2>1, <2>2, <2>3, <2>4, BonusApart
<1>10. CASE UNCHANGED hpVars
  <2>1. \A q \in Scorings, a \in Holders :
          (Counts(q, a) => Counts(q, a)') /\ (Delivers(q, a) => Delivers(q, a)')
    BY <1>10 DEF hpVars, Delivers, Counts
  <2> QED BY <1>10, <2>1, BonusApart DEF hpVars
<1> QED BY <1>2, <1>3, <1>4, <1>5, <1>6, <1>7, <1>8, <1>9, <1>10 DEF HPNext

(* Every step keeps the types.                                             *)
LEMMA PointTypesStep ==
  ASSUME PointConstants, PointTypes, [HPNext]_hpVars
  PROVE  PointTypes'
<1>1. ASSUME NEW p \in Scorings, RecordPassingScore(p) PROVE PointTypes'
  <2>1. Saves(p, {<<job[p].address, job[p].community>>}, {}, "keys")
    BY <1>1, PassingSaved
  <2> QED BY <2>1, SaveStep
<1>2. ASSUME NEW p \in Scorings, RecordStampActions(p) PROVE PointTypes'
  <2>1. PICK rows \in SUBSET PointRow : Saves(p, {}, rows, "count")
    BY <1>2, KeySaved
  <2> QED BY <2>1, SaveStep
<1>3. ASSUME NEW p \in Scorings, AwardBonus(p) \/ AwardLimited(p) PROVE PointTypes'
  <2>1. PICK rows \in SUBSET PointRow, next \in {"limit", "unlimited"} :
          Saves(p, {}, rows, next)
    BY <1>3, AwardSaved
  <2> QED BY <2>1, SaveStep
<1>4. ASSUME NEW p \in Scorings, ReadKeys(p) \/ CountPassing(p) \/ CheckLimit(p)
      PROVE  PointTypes'
  BY <1>4, KeysRead, PassingCounted, LimitChecked
<1>5. ASSUME NEW p \in Scorings, Start(p) \/ AwardUnlimited(p) PROVE PointTypes'
  BY <1>5, StartStep, CommitStep
<1>6. ASSUME NEW p \in Scorings, Break(p) PROVE PointTypes'
  <2>1. /\ Active(p) /\ Over(p) /\ UNCHANGED <<qualified, points>>
        /\ excused' = excused \cup {<<"SCB", job[p].address>>}
    BY <1>6 DEF Break
  <2>2. job[p].address \in Holders
    BY <2>1 DEF Active, PointTypes, GoodScoring, Job
  <2>3. excused' \subseteq {"SCB", "HKY", "MM2", "MTA"} \X (Holders \cup {NoHash})
    BY <2>1, <2>2 DEF PointTypes
  <2> QED BY <2>1, <2>3, OverStep DEF PointTypes
<1>7. CASE UNCHANGED hpVars
  BY <1>7 DEF hpVars, PointTypes, GoodScoring
<1> QED BY <1>1, <1>2, <1>3, <1>4, <1>5, <1>6, <1>7 DEF HPNext

(* The inductive invariant of the points.                                  *)
PointInv == PointTypes /\ KeysInv /\ LimitInv /\ BonusInv

(* It holds of every reachable state, for any number of scorings, holders  *)
(* and programs, whatever language they run in and wherever they break off.*)
THEOREM PointInvariance ==
  ASSUME PointConstants
  PROVE  PointSpec => []PointInv
<1>1. HPInit => PointInv
  <2> SUFFICES ASSUME HPInit PROVE PointInv
    OBVIOUS
  <2>1. PointTypes
    BY PointsInitially
  <2>2. /\ qualified = {} /\ points = {}
        /\ \A p \in Scorings : /\ doing[p] = "idle" /\ unsaved[p].points = {}
                               /\ unsaved[p].qualified = {}
    BY EmptyWritten DEF HPInit
  <2>3. KeysInv
    BY <2>2 DEF KeysInv, KeysKept, OneKey, KeyRows, SeenPoints, SavesKeys
  <2>4. LimitInv
    <3>1. \A action : Awarded(points, action) = {}
      BY <2>2 DEF Awarded
    <3>2. \A p \in Scorings : \A action : Awarded(SeenPoints(p), action) = {}
      BY <2>2 DEF Awarded, SeenPoints
    <3>3. Cardinality({}) = 0
      BY FS_EmptySet
    <3>4. \A p \in Scorings : \A action : ~SavesLimited(p, action)
      BY <2>2 DEF SavesLimited, Awarded
    <3>5. \A action : /\ Below(points, action)
                       /\ \A p \in Scorings : Below(SeenPoints(p), action)
      BY <3>1, <3>2, <3>3 DEF Below, PointConstants
    <3>6. \A p \in Scorings : doing[p] # "limited"
      BY <2>2
    <3> QED BY <3>4, <3>5, <3>6 DEF LimitInv, LimitKept
  <2>5. BonusInv
    <3>1. \A a : Communities(qualified, a) = {}
      BY <2>2 DEF Communities
    <3>2. \A a : ~Due(qualified, a)
      BY <3>1, FS_EmptySet DEF Due, PointConstants
    <3>3. \A p \in Scorings : \A a : ~Pending(p, a)
      BY <2>2 DEF Pending, Communities
    <3> QED BY <3>2, <3>3 DEF BonusInv, BonusSeenTo
  <2> QED BY <2>1, <2>3, <2>4, <2>5 DEF PointInv
<1>2. PointInv /\ [HPNext]_hpVars => PointInv'
  BY PointTypesStep, KeysStep, LimitStep, BonusStep DEF PointInv
<1> QED BY <1>1, <1>2, PTL DEF PointSpec

(* A provider earns one human key, unless two scorings were at it at a     *)
(* time.                                                                   *)
THEOREM KeysTheorem ==
  ASSUME PointConstants
  PROVE  PointSpec => []KeysNotRepeated
<1>1. PointInv => KeysNotRepeated
  <2> SUFFICES ASSUME PointInv, NEW a \in Holders, <<"HKY", a>> \notin excused
               PROVE  ~(Cardinality(KeyRows(points, a)) > 1)
    BY DEF KeysNotRepeated
  <2>1. OneKey(points, a)
    BY DEF PointInv, KeysInv, KeysKept
  <2>2. KeyRows(points, a) = {} \/ \E row : KeyRows(points, a) = {row}
    BY <2>1 DEF OneKey
  <2>3. Cardinality(KeyRows(points, a)) = 0 \/ Cardinality(KeyRows(points, a)) = 1
    BY <2>2, FS_EmptySet, FS_Singleton
  <2> QED BY <2>3
<1> QED BY <1>1, PointInvariance, PTL

(* The limited points stay below their limit, unless a scoring counted     *)
(* them while another was about to award them.                             *)
THEOREM LimitTheorem ==
  ASSUME PointConstants
  PROVE  PointSpec => []LimitHolds
<1>1. PointInv => LimitHolds
  <2> SUFFICES ASSUME PointInv, NEW action \in {"MM2", "MTA"},
                      <<action, NoHash>> \notin excused
               PROVE  ~(Cardinality(Awarded(points, action)) > OGLimit)
    BY DEF LimitHolds
  <2>1. Below(points, action)
    BY DEF PointInv, LimitInv, LimitKept
  <2>2. IsFiniteSet(Awarded(points, action))
    <3>1. IsFiniteSet(points) /\ Awarded(points, action) \subseteq points
      BY DEF PointInv, PointTypes, Awarded
    <3> QED BY <3>1, FS_Subset
  <2>3. Cardinality(Awarded(points, action)) \in Nat
    BY <2>2, FS_CardinalityType
  <2> QED BY <2>1, <2>3 DEF Below, PointConstants
<1> QED BY <1>1, PointInvariance, PTL

(* Whoever has passed in enough communities has the bonus once its         *)
(* scorings are over: the last of them to count has seen all of its scores.*)
THEOREM BonusTheorem ==
  ASSUME PointConstants
  PROVE  PointSpec => []BonusNotMissed
<1>1. PointInv => BonusNotMissed
  <2> SUFFICES ASSUME PointInv, NEW a \in Holders, <<"SCB", a>> \notin excused,
                      ~(Cardinality(Communities(qualified, a)) < BonusAt)
               PROVE  \/ \E p \in Scorings : Active(p) /\ job[p].address = a
                      \/ Row(a, "SCB", NoHash) \in points
    BY DEF BonusNotMissed
  <2>1. IsFiniteSet(Communities(qualified, a))
    <3>1. IsFiniteSet(qualified) /\ Communities(qualified, a) \subseteq qualified
      BY DEF PointInv, PointTypes, Communities
    <3> QED BY <3>1, FS_Subset
  <2>2. Cardinality(Communities(qualified, a)) \in Nat
    BY <2>1, FS_CardinalityType
  <2>3. Due(qualified, a)
    BY <2>2 DEF Due, PointConstants
  <2>4. Bonus(a) \in points \/ \E q \in Scorings : Delivers(q, a)
    BY <2>3 DEF PointInv, BonusInv, BonusSeenTo
  <2>5. ASSUME NEW q \in Scorings, Delivers(q, a)
        PROVE  Active(q) /\ job[q].address = a
    <3>1. CASE Counts(q, a) \/ (doing[q] = "bonus" /\ job[q].address = a)
      BY <3>1 DEF Counts, Active
    <3>2. CASE Bonus(a) \in unsaved[q].points
      <4>1. GoodScoring(q)
        BY DEF PointInv, PointTypes
      <4>2. Bonus(a).address = a
        BY DEF Bonus, Row
      <4>3. job[q].address = a
        BY <3>2, <4>1, <4>2 DEF GoodScoring
      <4>4. doing[q] # "idle"
        BY <3>2, <4>1, EmptyWritten DEF GoodScoring
      <4> QED BY <4>3, <4>4 DEF Active
    <3> QED BY <2>5, <3>1, <3>2 DEF Delivers
  <2> QED BY <2>4, <2>5 DEF Bonus
<1> QED BY <1>1, PointInvariance, PTL

-----------------------------------------------------------------------------
(***************************************************************************)
(* Credentials: the loops that check what the cache holds for an address. *)
(***************************************************************************)
CredentialSpec == CredentialInit /\ [][CredentialNext]_credentialVars

Presented == UNION {{q[i] : i \in DOMAIN q} : q \in Uploads}

(* An expiration date is a time, or is missing.                           *)
CredentialConstants ==
  /\ Uploads \subseteq Seq(Presented)
  /\ NoDate \notin Int
  /\ \A c \in Presented : c.expires \in Int \cup {NoDate}

CheckSteps == {"ready", "dates", "verify", "done", "error"}

CredentialTypes ==
  /\ clock \in Int /\ started \in Int /\ started <= clock
  /\ check \in [program : {"none", "python", "rust"}, credentials : Seq(Presented),
                next : Nat, step : CheckSteps]
  /\ check.next >= 1 /\ check.next <= Len(check.credentials) + 1
  /\ check.step \in {"dates", "verify"} => check.next <= Len(check.credentials)
  /\ check.step = "done" => check.next = Len(check.credentials) + 1
  /\ kept \subseteq 1..(check.next - 1)

(* What has been established when the signature is verified.              *)
VerifyInv ==
  check.step = "verify" =>
    /\ Current.trusted /\ Current.expires # NoDate /\ Current.expires >= started
    /\ check.program = "python" \/
       /\ check.program = "rust" /\ Current.own /\ Current.provider # NoName
       /\ Current.nullifiers = "some"

(* What has been gone through: a credential that is whole, and is not too *)
(* old by now, is kept, or in Rust another of its provider is.            *)
PassedInv ==
  \A i \in 1..(check.next - 1) :
    LET c == check.credentials[i] IN
    Whole(c) /\ c.expires >= clock =>
      \/ i \in kept
      \/ /\ check.program = "rust"
         /\ \E j \in kept : check.credentials[j].provider = c.provider

ErrorInv ==
  check.step = "error" =>
    /\ check.program = "python"
    /\ \E i \in DOMAIN check.credentials : check.credentials[i].expires = NoDate

CredentialInv == CredentialTypes /\ VerifyInv /\ KeptAreValid /\ PassedInv /\ ErrorInv

(* The credential that the loop is at.                                    *)
LEMMA CurrentOne ==
  ASSUME CredentialConstants, CredentialTypes
  PROVE  /\ DOMAIN check.credentials = 1..Len(check.credentials)
         /\ Len(check.credentials) \in Nat
         /\ \A i \in 1..Len(check.credentials) :
              /\ check.credentials[i] \in Presented
              /\ check.credentials[i].expires \in Int \cup {NoDate}
         /\ check.step \in {"dates", "verify"} =>
              check.next \in 1..Len(check.credentials)
<1>1. check.credentials \in Seq(Presented) /\ check.next \in Nat
  BY DEF CredentialTypes
<1>2. \A i \in 1..Len(check.credentials) : check.credentials[i] \in Presented
  BY <1>1
<1>3. \A c \in Presented : c.expires \in Int \cup {NoDate}
  BY DEF CredentialConstants
<1> QED BY <1>1, <1>2, <1>3 DEF CredentialTypes

(* The loop goes on to the next credential, or ends.                      *)
LEMMA LoopAdvances ==
  ASSUME CredentialConstants, CredentialTypes, check.step \in {"dates", "verify"},
         check' = Advance
  PROVE  /\ check'.program = check.program /\ check'.credentials = check.credentials
         /\ check'.next = check.next + 1
         /\ check'.step \in {"dates", "done"}
         /\ check'.step = "dates" => check'.next <= Len(check.credentials)
         /\ check'.step = "done" => check'.next = Len(check.credentials) + 1
         /\ check' \in [program : {"none", "python", "rust"}, credentials : Seq(Presented),
                        next : Nat, step : CheckSteps]
<1>1. PICK n : n = check.next + 1
  OBVIOUS
<1>2. PICK step \in {"dates", "done"} :
        /\ step = IF check.next = Len(check.credentials) THEN "done" ELSE "dates"
        /\ check' = [check EXCEPT !.next = n, !.step = step]
  BY <1>1 DEF Advance
<1>3. n \in Nat /\ step \in CheckSteps
  BY <1>1, <1>2 DEF CredentialTypes, CheckSteps
<1>4. /\ check'.program = check.program /\ check'.credentials = check.credentials
      /\ check'.next = n /\ check'.step = step
      /\ check' \in [program : {"none", "python", "rust"}, credentials : Seq(Presented),
                     next : Nat, step : CheckSteps]
  BY <1>2, <1>3 DEF CredentialTypes
<1>5. /\ step = "dates" => n <= Len(check.credentials)
      /\ step = "done" => n = Len(check.credentials) + 1
  BY <1>1, <1>2, CurrentOne
<1> QED BY <1>1, <1>2, <1>4, <1>5

(* The loop goes on without the credential: it is not whole, or is too    *)
(* old, or is not the first of its provider in Rust.                      *)
LEMMA SkipsStep ==
  ASSUME CredentialConstants, CredentialInv, check.step \in {"dates", "verify"}, Skip,
         Whole(Current) /\ Current.expires >= clock =>
           /\ check.program = "rust"
           /\ \E j \in kept : check.credentials[j].provider = Current.provider,
         UNCHANGED <<clock, started>>
  PROVE  CredentialInv'
<1> USE DEF CredentialInv
<1>1. /\ check'.program = check.program /\ check'.credentials = check.credentials
      /\ check'.next = check.next + 1 /\ kept' = kept
      /\ check'.step \in {"dates", "done"}
      /\ check'.step = "dates" => check'.next <= Len(check.credentials)
      /\ check'.step = "done" => check'.next = Len(check.credentials) + 1
      /\ check' \in [program : {"none", "python", "rust"}, credentials : Seq(Presented),
                     next : Nat, step : CheckSteps]
  BY LoopAdvances DEF Skip
<1>2. check.next \in Nat /\ check.next \in 1..Len(check.credentials)
  BY CurrentOne DEF CredentialTypes
<1>3. Len(check.credentials) \in Nat
  BY CurrentOne
<1>4. CredentialTypes'
  BY <1>1, <1>2, <1>3 DEF CredentialTypes
<1>5. VerifyInv' /\ ErrorInv' /\ KeptAreValid'
  BY <1>1 DEF VerifyInv, ErrorInv, KeptAreValid
<1>6. PassedInv'
  <2>1. ASSUME NEW i \in 1..check.next, Whole(check.credentials[i]),
               check.credentials[i].expires >= clock
        PROVE  \/ i \in kept
               \/ /\ check.program = "rust"
                  /\ \E j \in kept :
                       check.credentials[j].provider = check.credentials[i].provider
    <3>1. CASE i = check.next
      BY <2>1, <3>1 DEF Current
    <3>2. CASE i # check.next
      <4>1. i \in 1..(check.next - 1)
        BY <1>2, <3>2
      <4> QED BY <2>1, <4>1 DEF PassedInv
    <3> QED BY <3>1, <3>2
  <2>2. check'.next - 1 = check.next
    BY <1>1, <1>2
  <2> QED BY <1>1, <2>1, <2>2 DEF PassedInv, Whole, Sound
<1> QED BY <1>4, <1>5, <1>6

(* The loop keeps the credential, which it has checked.                   *)
LEMMA KeepsStep ==
  ASSUME CredentialConstants, CredentialInv, check.step = "verify", Keep,
         Current.own, Current.signed, Current.provider # NoName,
         UNCHANGED <<clock, started>>
  PROVE  CredentialInv'
<1> USE DEF CredentialInv
<1>1. /\ check'.program = check.program /\ check'.credentials = check.credentials
      /\ check'.next = check.next + 1 /\ kept' = kept \cup {check.next}
      /\ check'.step \in {"dates", "done"}
      /\ check'.step = "dates" => check'.next <= Len(check.credentials)
      /\ check'.step = "done" => check'.next = Len(check.credentials) + 1
      /\ check' \in [program : {"none", "python", "rust"}, credentials : Seq(Presented),
                     next : Nat, step : CheckSteps]
  BY LoopAdvances DEF Keep
<1>2. check.next \in Nat /\ check.next \in 1..Len(check.credentials)
  BY CurrentOne DEF CredentialTypes
<1>3. Len(check.credentials) \in Nat
  BY CurrentOne
<1>4. CredentialTypes'
  <2>1. kept' \subseteq 1..(check'.next - 1)
    <3>1. PICK n : n = check.next
      OBVIOUS
    <3>2. kept \subseteq 1..(n - 1) /\ n \in Nat /\ n >= 1
      BY <1>2, <3>1 DEF CredentialTypes
    <3>3. kept' = kept \cup {n} /\ check'.next - 1 = n
      BY <1>1, <1>2, <3>1
    <3>4. kept \cup {n} \subseteq 1..n
      BY <3>2
    <3> QED BY <3>3, <3>4
  <2>2. check'.next >= 1 /\ check'.next <= Len(check'.credentials) + 1
    BY <1>1, <1>2, <1>3
  <2> QED BY <1>1, <2>1, <2>2 DEF CredentialTypes
<1>5. VerifyInv' /\ ErrorInv'
  BY <1>1 DEF VerifyInv, ErrorInv
<1>6. KeptAreValid'
  BY <1>1 DEF VerifyInv, KeptAreValid, Current, Sound
<1>7. PassedInv'
  <2>1. ASSUME NEW i \in 1..check.next, Whole(check.credentials[i]),
               check.credentials[i].expires >= clock
        PROVE  \/ i \in kept'
               \/ /\ check.program = "rust"
                  /\ \E j \in kept' :
                       check.credentials[j].provider = check.credentials[i].provider
    <3>1. CASE i = check.next
      BY <1>1, <3>1
    <3>2. CASE i # check.next
      <4>1. i \in 1..(check.next - 1)
        BY <1>2, <3>2
      <4> QED BY <1>1, <2>1, <4>1 DEF PassedInv
    <3> QED BY <3>1, <3>2
  <2>2. check'.next - 1 = check.next
    BY <1>1, <1>2
  <2> QED BY <1>1, <2>1, <2>2 DEF PassedInv, Whole, Sound
<1> QED BY <1>4, <1>5, <1>6, <1>7

(* The loop goes on to the signature, or ends with an error.              *)
LEMMA EndsStep ==
  ASSUME CredentialConstants, CredentialInv, check.step = "dates",
         UNCHANGED <<clock, started>>,
         \/ /\ EndWith("error") /\ check.program = "python" /\ Current.expires = NoDate
         \/ /\ EndWith("verify")
            /\ Current.trusted /\ Current.expires # NoDate /\ Current.expires >= clock
            /\ check.program = "python" \/
               /\ check.program = "rust" /\ Current.own /\ Current.provider # NoName
               /\ Current.nullifiers = "some"
  PROVE  CredentialInv'
<1> USE DEF CredentialInv
<1>1. PICK step \in {"error", "verify"} :
        /\ check' = [check EXCEPT !.step = step] /\ kept' = kept
        /\ step = "error" => check.program = "python" /\ Current.expires = NoDate
        /\ step = "verify" =>
             /\ Current.trusted /\ Current.expires # NoDate /\ Current.expires >= clock
             /\ check.program = "python" \/
                /\ check.program = "rust" /\ Current.own /\ Current.provider # NoName
                /\ Current.nullifiers = "some"
  BY DEF EndWith
<1>2. /\ check'.program = check.program /\ check'.credentials = check.credentials
      /\ check'.next = check.next /\ check'.step = step
      /\ check' \in [program : {"none", "python", "rust"}, credentials : Seq(Presented),
                     next : Nat, step : CheckSteps]
  BY <1>1 DEF CredentialTypes, CheckSteps
<1>3. check.next \in 1..Len(check.credentials)
  BY CurrentOne
<1>4. CredentialTypes'
  BY <1>1, <1>2 DEF CredentialTypes
<1>5. Current' = Current
  BY <1>2 DEF Current
<1>6. VerifyInv'
  <2>1. step = "verify" => Current.expires \in Int
    BY <1>1, <1>3, CurrentOne DEF Current
  <2>2. step = "verify" => Current.expires >= started
    BY <1>1, <2>1 DEF CredentialTypes
  <2> QED BY <1>1, <1>2, <1>5, <2>2 DEF VerifyInv
<1>7. ErrorInv'
  BY <1>1, <1>2, <1>3, CurrentOne DEF ErrorInv, Current
<1>8. KeptAreValid' /\ PassedInv'
  BY <1>1, <1>2 DEF KeptAreValid, PassedInv, Whole, Sound
<1> QED BY <1>4, <1>6, <1>7, <1>8

(* Time passes: what is not too old then was not too old before.          *)
LEMMA WaitsStep ==
  ASSUME CredentialConstants, CredentialInv, Wait
  PROVE  CredentialInv'
<1> USE DEF CredentialInv
<1>1. clock' = clock + 1 /\ clock \in Int /\ UNCHANGED <<check, kept, started>>
  BY DEF Wait, CredentialTypes
<1>2. CredentialTypes'
  BY <1>1 DEF CredentialTypes
<1>3. VerifyInv' /\ ErrorInv' /\ KeptAreValid'
  BY <1>1 DEF VerifyInv, ErrorInv, KeptAreValid, Current
<1>4. ASSUME NEW i \in 1..(check.next - 1), Whole(check.credentials[i]),
             check.credentials[i].expires >= clock'
      PROVE  \/ i \in kept
             \/ /\ check.program = "rust"
                /\ \E j \in kept :
                     check.credentials[j].provider = check.credentials[i].provider
  <2>1. i \in 1..Len(check.credentials)
    BY CurrentOne DEF CredentialTypes
  <2>2. check.credentials[i].expires \in Int
    BY <1>4, <2>1, CurrentOne DEF Whole
  <2>3. check.credentials[i].expires >= clock
    BY <1>1, <1>4, <2>2
  <2> QED BY <1>4, <2>3 DEF PassedInv
<1> QED BY <1>1, <1>2, <1>3, <1>4 DEF PassedInv, Whole, Sound

(* No step of either loop breaks the invariant.                           *)
LEMMA CredentialSteps ==
  ASSUME CredentialConstants, CredentialInv, [CredentialNext]_credentialVars
  PROVE  CredentialInv'
<1> USE DEF CredentialInv
<1>0. check.step = "dates" \/ check.step = "verify" =>
        /\ check.next \in 1..Len(check.credentials)
        /\ Current.expires \in Int \cup {NoDate}
  BY CurrentOne DEF Current
<1>1. CASE Wait
  BY <1>1, WaitsStep
<1>2. CASE Begin
  <2>1. PICK program \in {"python", "rust"}, credentials \in Uploads :
          check' = [program |-> program, credentials |-> credentials, next |-> 1,
                    step |-> IF credentials = <<>> THEN "done" ELSE "dates"]
    BY <1>2 DEF Begin
  <2>2. kept' = {} /\ started' = clock /\ clock' = clock
    BY <1>2 DEF Begin
  <2>3. credentials \in Seq(Presented) /\ Len(credentials) \in Nat
    BY DEF CredentialConstants
  <2>4. credentials # <<>> => Len(credentials) >= 1
    BY <2>3
  <2>5. Len(<<>>) = 0
    OBVIOUS
  <2>6. CredentialTypes'
    BY <2>1, <2>2, <2>3, <2>4, <2>5 DEF CredentialTypes, CheckSteps
  <2>7. VerifyInv' /\ ErrorInv' /\ KeptAreValid' /\ PassedInv'
    BY <2>1, <2>2 DEF VerifyInv, ErrorInv, KeptAreValid, PassedInv
  <2> QED BY <2>6, <2>7
<1>3. CASE PythonDates
  <2>1. check.step = "dates" /\ check.program = "python" /\ UNCHANGED <<clock, started>>
    BY <1>3 DEF PythonDates, IsChecked
  <2>2. CASE Current.expires = NoDate
    BY <1>3, <2>1, <2>2, EndsStep DEF PythonDates
  <2>3. CASE Current.expires # NoDate /\ (Current.expires < clock \/ ~Current.trusted)
    <3>1. Skip
      BY <1>3, <2>3 DEF PythonDates
    <3>2. ~(Whole(Current) /\ Current.expires >= clock)
      BY <1>0, <2>1, <2>3 DEF Whole, Sound, CredentialTypes
    <3> QED BY <2>1, <3>1, <3>2, SkipsStep
  <2>4. CASE Current.expires # NoDate /\ ~(Current.expires < clock \/ ~Current.trusted)
    <3>1. EndWith("verify")
      BY <1>3, <2>4 DEF PythonDates
    <3>2. Current.trusted /\ Current.expires >= clock
      BY <1>0, <2>1, <2>4 DEF CredentialTypes
    <3> QED BY <2>1, <2>4, <3>1, <3>2, EndsStep
  <2> QED BY <2>2, <2>3, <2>4
<1>4. CASE PythonVerify
  <2>1. check.step = "verify" /\ check.program = "python" /\ UNCHANGED <<clock, started>>
    BY <1>4 DEF PythonVerify, IsChecked
  <2>2. CASE PythonAccepts(Current)
    BY <1>4, <2>1, <2>2, KeepsStep DEF PythonVerify, PythonAccepts
  <2>3. CASE ~PythonAccepts(Current)
    <3>1. Skip /\ ~Whole(Current)
      BY <1>4, <2>3 DEF PythonVerify, PythonAccepts, Whole, Sound
    <3> QED BY <2>1, <3>1, SkipsStep
  <2> QED BY <2>2, <2>3
<1>5. CASE RustDates
  <2>1. check.step = "dates" /\ check.program = "rust" /\ UNCHANGED <<clock, started>>
    BY <1>5 DEF RustDates, IsChecked
  <2>2. CASE \/ RustMisses(Current) \/ Current.nullifiers # "some" \/ ~Current.own
             \/ Current.expires < clock \/ ~Current.trusted
    <3>1. Skip
      BY <1>5, <2>2 DEF RustDates
    <3>2. ~(Whole(Current) /\ Current.expires >= clock)
      BY <1>0, <2>1, <2>2 DEF Whole, Sound, CredentialTypes, RustMisses
    <3> QED BY <2>1, <3>1, <3>2, SkipsStep
  <2>3. CASE ~(\/ RustMisses(Current) \/ Current.nullifiers # "some" \/ ~Current.own
               \/ Current.expires < clock \/ ~Current.trusted)
    <3>1. EndWith("verify")
      BY <1>5, <2>3 DEF RustDates
    <3>2. /\ Current.trusted /\ Current.own /\ Current.provider # NoName
          /\ Current.nullifiers = "some" /\ Current.expires # NoDate
      BY <2>3 DEF RustMisses
    <3>3. Current.expires >= clock
      BY <1>0, <2>1, <2>3, <3>2 DEF CredentialTypes
    <3> QED BY <2>1, <3>1, <3>2, <3>3, EndsStep
  <2> QED BY <2>2, <2>3
<1>6. CASE RustVerify
  <2>1. check.step = "verify" /\ check.program = "rust" /\ UNCHANGED <<clock, started>>
    BY <1>6 DEF RustVerify, IsChecked
  <2>2. Current.own /\ Current.provider # NoName
    BY <2>1 DEF VerifyInv
  <2>3. CASE /\ Current.signed
             /\ \A i \in kept : check.credentials[i].provider # Current.provider
    BY <1>6, <2>1, <2>2, <2>3, KeepsStep DEF RustVerify
  <2>4. CASE ~(/\ Current.signed
               /\ \A i \in kept : check.credentials[i].provider # Current.provider)
    <3>1. Skip
      BY <1>6, <2>4 DEF RustVerify
    <3>2. Whole(Current) =>
            \E j \in kept : check.credentials[j].provider = Current.provider
      BY <2>4 DEF Whole, Sound
    <3> QED BY <2>1, <3>1, <3>2, SkipsStep
  <2> QED BY <2>3, <2>4
<1>7. CASE End
  <2>1. check' = NoCheck /\ kept' = {} /\ UNCHANGED <<clock, started>>
    BY <1>7 DEF End
  <2>2. <<>> \in Seq(Presented) /\ Len(<<>>) = 0
    OBVIOUS
  <2>3. CredentialTypes'
    BY <2>1, <2>2 DEF CredentialTypes, NoCheck, CheckSteps
  <2> QED BY <2>1, <2>3 DEF VerifyInv, ErrorInv, KeptAreValid, PassedInv, NoCheck
<1>8. CASE UNCHANGED credentialVars
  BY <1>8 DEF credentialVars, CredentialTypes, VerifyInv, ErrorInv, KeptAreValid,
              PassedInv, Current, Whole, Sound
<1> QED BY <1>1, <1>2, <1>3, <1>4, <1>5, <1>6, <1>7, <1>8 DEF CredentialNext

(* The invariant.                                                         *)
THEOREM CredentialInvariance ==
  ASSUME CredentialConstants PROVE CredentialSpec => []CredentialInv
<1>1. CredentialInit => CredentialInv
  <2>1. ASSUME CredentialInit PROVE CredentialInv
    <3>1. <<>> \in Seq(Presented) /\ Len(<<>>) = 0
      OBVIOUS
    <3>2. CredentialTypes
      BY <2>1, <3>1 DEF CredentialInit, CredentialTypes, NoCheck, CheckSteps
    <3> QED BY <2>1, <3>2 DEF CredentialInv, CredentialInit, VerifyInv, ErrorInv,
                              KeptAreValid, PassedInv, NoCheck
  <2> QED BY <2>1
<1>2. CredentialInv /\ [CredentialNext]_credentialVars => CredentialInv'
  BY CredentialSteps
<1> QED BY <1>1, <1>2, PTL DEF CredentialSpec

(* KeptAreValid, for any credentials and as long as it takes: what         *)
(* avalidate_credentials and validate_credentials_batch keep is the        *)
(* address's own, signed by a trusted issuer and of a date that had not    *)
(* passed when they began.                                                 *)
THEOREM ValidTheorem == ASSUME CredentialConstants PROVE CredentialSpec => []KeptAreValid
<1>1. CredentialInv => KeptAreValid
  BY DEF CredentialInv
<1> QED BY <1>1, CredentialInvariance, PTL

(* WholeOnesAreKept, for the same: neither loop drops a credential for the *)
(* sake of another, but for one of the same provider in Rust, and one      *)
(* without a date that ends the loop in Python.                            *)
THEOREM WholeTheorem ==
  ASSUME CredentialConstants PROVE CredentialSpec => []WholeOnesAreKept
<1>1. CredentialInv => WholeOnesAreKept
  <2>1. ASSUME CredentialInv PROVE WholeOnesAreKept
    <3>1. DOMAIN check.credentials = 1..Len(check.credentials) /\ Len(check.credentials) \in Nat
      BY <2>1, CurrentOne DEF CredentialInv
    <3>2. check.step = "done" => check.next - 1 = Len(check.credentials)
      BY <2>1, <3>1 DEF CredentialInv, CredentialTypes
    <3> QED BY <2>1, <3>1, <3>2 DEF WholeOnesAreKept, CredentialInv, PassedInv, ErrorInv
  <2> QED BY <2>1
<1> QED BY <1>1, CredentialInvariance, PTL

-----------------------------------------------------------------------------
(***************************************************************************)
(* Contributions: the imports, and the statistics of an address.           *)
(***************************************************************************)
ContributionSpec == ContributionInit /\ [][ContributionNext]_contributionVars

(* The files have lines, and a line that does not parse is no vote.        *)
ContributionConstants ==
  /\ VoteFile \in Seq(Votes \cup {Garbage}) /\ VoteFile # <<>> /\ Garbage \notin Votes
  /\ Large \subseteq Votes

Tables == {"profile", "grant", "subscription", "contribution"}
GivenVotes == {v \in Votes : votes[v] = 1}

(* A command has met the lines before its place, and what it has yet to    *)
(* save of a table makes the table complete.                               *)
JobFits(command, there, stored) ==
  /\ command = [step |-> command.step, at |-> command.at, batch |-> command.batch]
  /\ command.step \in {"votes", "create"} =>
       /\ command.at \in Nat /\ command.at <= Len(VoteFile) /\ command.batch \subseteq Votes
       /\ command.step = "votes" => command.at < Len(VoteFile)
       /\ \A i \in 1..Len(VoteFile) :
            i <= command.at => \/ VoteFile[i] = Garbage \/ VoteFile[i] \in command.batch
                               \/ VoteFile[i] \in there
  /\ command.step \in Tables => Records = stored[command.step] \cup command.batch

ImportInv ==
  /\ votes \in [Votes -> {0, 1}]
  /\ records \in [Tables -> SUBSET Records]
  /\ importing = [c \in Commands |-> importing[c]]
  /\ \A c \in Commands : JobFits(importing[c], GivenVotes, records)

(* A number that was summed has all that were there, and none twice.       *)
Sums(some, hidden) ==
  /\ some \subseteq GivenVotes /\ \A v \in some : RoundOf[v] \notin asked.hidden
  /\ \A v \in asked.votes : RoundOf[v] \notin hidden => v \in some

(* What a request had to find is there, and it has found it by its step.   *)
StatisticsInv ==
  /\ asking = [step |-> asking.step, grants |-> asking.grants, given |-> asking.given,
               hidden |-> asking.hidden, projects |-> asking.projects,
               amount |-> asking.amount]
  /\ asked = [votes |-> asked.votes, hidden |-> asked.hidden, steady |-> asked.steady,
              ever |-> asked.ever]
  /\ asking.step # "idle" =>
       /\ asked.votes \subseteq GivenVotes \cap Large
       /\ asked.hidden \subseteq HiddenRounds
       /\ asked.steady \subseteq Successes /\ Successes \subseteq asked.ever
       /\ asking.grants \cup asking.given \subseteq asked.ever
  /\ asking.step \in {"given", "votes", "projects", "rounds", "both", "answered"} =>
       asked.steady \subseteq asking.grants
  /\ asking.step \in {"votes", "projects", "rounds", "both", "answered"} =>
       asked.steady \subseteq asking.given
  /\ asking.step = "both" =>
       asked.hidden \subseteq asking.hidden /\ asking.hidden \subseteq HiddenRounds
  /\ asking.step \in {"projects", "answered"} => Sums(asking.amount, HiddenRounds)
  /\ asking.step = "answered" => Sums(asking.projects, HiddenRounds)

ContributionsInv == ImportInv /\ StatisticsInv

(* What is saved more fits the commands no less.                           *)
LEMMA JobsStillFit ==
  ASSUME NEW command, NEW there, NEW later, NEW stored, NEW more \in [Tables -> SUBSET Records],
         JobFits(command, there, stored), there \subseteq later,
         \A t \in Tables : stored[t] \subseteq more[t]
  PROVE  JobFits(command, later, more)
<1>1. ASSUME command.step \in Tables PROVE Records = more[command.step] \cup command.batch
  <2>1. Records = stored[command.step] \cup command.batch
    BY <1>1 DEF JobFits
  <2>2. more[command.step] \subseteq Records /\ stored[command.step] \subseteq more[command.step]
    BY <1>1
  <2> QED BY <2>1, <2>2
<1> QED BY <1>1 DEF JobFits

(* A command at another step fits.                                         *)
LEMMA OtherJobsFit ==
  ASSUME NEW command, NEW there, NEW stored,
         command = [step |-> command.step, at |-> command.at, batch |-> command.batch],
         command.step \in {"idle", "rounds", "check", "squelch", "rows", "index"}
  PROVE  JobFits(command, there, stored)
BY DEF JobFits, Tables

(* What a request has to find, after what counts has changed.              *)
Remembered ==
  /\ asked' = [votes |-> asked'.votes, hidden |-> asked'.hidden, steady |-> asked'.steady,
               ever |-> asked'.ever]
  /\ asked'.votes = asked.votes /\ asked'.hidden = asked.hidden
  /\ asking.step # "idle" =>
       /\ asked'.steady \subseteq asked.steady /\ asked'.steady \subseteq Successes'
       /\ asked.ever \subseteq asked'.ever /\ Successes' \subseteq asked'.ever

(* What a change of the marks, the addresses or the rows remembers.        *)
LEMMA GiveRemembers ==
  ASSUME StatisticsInv, NEW withAddress, NEW withSuccess, Give(withAddress, withSuccess)
  PROVE  Remembered
<1>1. PICK counts : counts = withAddress \cap withSuccess
  OBVIOUS
<1>2. /\ Successes' = counts
      /\ asked' = IF asking.step = "idle" THEN asked
                  ELSE [asked EXCEPT !.steady = @ \cap counts, !.ever = @ \cup counts]
  BY <1>1 DEF Give, Successes
<1>3. asked = [votes |-> asked.votes, hidden |-> asked.hidden, steady |-> asked.steady,
               ever |-> asked.ever]
  BY DEF StatisticsInv
<1>4. CASE asking.step = "idle"
  BY <1>2, <1>3, <1>4 DEF Remembered
<1>5. CASE asking.step # "idle"
  <2>1. asked' = [votes |-> asked.votes, hidden |-> asked.hidden,
                  steady |-> asked.steady \cap counts, ever |-> asked.ever \cup counts]
    BY <1>2, <1>3, <1>5
  <2> QED BY <1>2, <1>5, <2>1 DEF Remembered
<1> QED BY <1>4, <1>5

(* Nothing that counts has changed.                                        *)
LEMMA NothingToRemember ==
  ASSUME StatisticsInv, UNCHANGED <<oldTables, asked>>
  PROVE  Remembered
<1>1. Successes' = Successes /\ asked' = asked
  BY DEF Successes, oldTables
<1>2. asked = [votes |-> asked.votes, hidden |-> asked.hidden, steady |-> asked.steady,
               ever |-> asked.ever]
  BY DEF StatisticsInv
<1>3. asking.step # "idle" => asked.steady \subseteq Successes /\ Successes \subseteq asked.ever
  BY DEF StatisticsInv
<1> QED BY <1>1, <1>2, <1>3 DEF Remembered

(* A request does not mind what comes meanwhile.                           *)
LEMMA StatisticsGrow ==
  ASSUME StatisticsInv, UNCHANGED asking, Remembered, GivenVotes \subseteq GivenVotes',
         mapped \subseteq mapped', squelched \subseteq squelched'
  PROVE  StatisticsInv'
<1>1. HiddenRounds \subseteq HiddenRounds'
  BY DEF HiddenRounds
<1>2. \A some : Sums(some, HiddenRounds) => /\ some \subseteq GivenVotes'
                                            /\ \A v \in some : RoundOf[v] \notin asked'.hidden
                                            /\ \A v \in asked'.votes :
                                                 RoundOf[v] \notin HiddenRounds' => v \in some
  BY <1>1 DEF Sums, Remembered
<1>3. asking' = [step |-> asking'.step, grants |-> asking'.grants, given |-> asking'.given,
                 hidden |-> asking'.hidden, projects |-> asking'.projects,
                 amount |-> asking'.amount]
  BY DEF StatisticsInv
<1>4. asking'.step # "idle" =>
        /\ asked'.votes \subseteq GivenVotes' \cap Large
        /\ asked'.hidden \subseteq HiddenRounds'
        /\ asked'.steady \subseteq Successes' /\ Successes' \subseteq asked'.ever
        /\ asking'.grants \cup asking'.given \subseteq asked'.ever
  BY <1>1 DEF StatisticsInv, Remembered
<1>5. asking'.step \in {"given", "votes", "projects", "rounds", "both", "answered"} =>
        asked'.steady \subseteq asking'.grants
  BY DEF StatisticsInv, Remembered
<1>6. asking'.step \in {"votes", "projects", "rounds", "both", "answered"} =>
        asked'.steady \subseteq asking'.given
  BY DEF StatisticsInv, Remembered
<1>7. asking'.step = "both" =>
        asked'.hidden \subseteq asking'.hidden /\ asking'.hidden \subseteq HiddenRounds'
  BY <1>1 DEF StatisticsInv, Remembered
<1> QED BY <1>2, <1>3, <1>4, <1>5, <1>6, <1>7 DEF StatisticsInv, Sums, Remembered

(* A step of a command: it loses nothing, and its next step fits.          *)
LEMMA CommandStep ==
  ASSUME ContributionsInv, NEW c \in Commands, NEW from, NEW to, Run(c, from, to),
         votes' \in [Votes -> {0, 1}], GivenVotes \subseteq GivenVotes',
         records' \in [Tables -> SUBSET Records],
         \A t \in Tables : records[t] \subseteq records'[t],
         mapped \subseteq mapped', squelched \subseteq squelched', Remembered,
         JobFits(to, GivenVotes', records')
  PROVE  ContributionsInv'
<1>1. importing' = [importing EXCEPT ![c] = to] /\ UNCHANGED asking
  BY DEF Run
<1>2. importing = [d \in Commands |-> importing[d]]
  BY DEF ContributionsInv, ImportInv
<1>3. /\ importing' = [d \in Commands |-> importing'[d]] /\ importing'[c] = to
      /\ \A d \in Commands : d # c => importing'[d] = importing[d]
  BY <1>1, <1>2
<1>4. \A d \in Commands : JobFits(importing[d], GivenVotes', records')
  BY JobsStillFit DEF ContributionsInv, ImportInv
<1>5. \A d \in Commands : JobFits(importing'[d], GivenVotes', records')
  BY <1>3, <1>4
<1>6. ImportInv'
  BY <1>3, <1>5 DEF ImportInv
<1> QED BY <1>1, <1>6, StatisticsGrow DEF ContributionsInv

(* The tables, and what a command is at.                                   *)
LEMMA ImportTypes ==
  ASSUME ContributionsInv
  PROVE  /\ votes \in [Votes -> {0, 1}] /\ records \in [Tables -> SUBSET Records]
         /\ \A c \in Commands : JobFits(importing[c], GivenVotes, records)
BY DEF ContributionsInv, ImportInv

(* A step without a batch.                                                 *)
LEMMA Bare ==
  ASSUME NEW step, NEW place
  PROVE  /\ [NoImport EXCEPT !.at = place, !.step = step] = [step |-> step, at |-> place, batch |-> {}]
         /\ [NoImport EXCEPT !.step = step] = [step |-> step, at |-> 0, batch |-> {}]
         /\ NoImport = [step |-> "idle", at |-> 0, batch |-> {}]
<1>1. PICK none, bare : none = NoImport /\ bare = [step |-> step, at |-> place, batch |-> {}]
  OBVIOUS
<1>2. none = [step |-> "idle", at |-> 0, batch |-> {}]
  BY <1>1 DEF NoImport
<1>3. PICK placed : placed = [none EXCEPT !.at = place]
  OBVIOUS
<1>4. [placed EXCEPT !.step = step] = bare
  <2>1. placed = [step |-> "idle", at |-> place, batch |-> {}]
    BY <1>2, <1>3
  <2> QED BY <1>1, <2>1
<1>5. [none EXCEPT !.step = step] = [step |-> step, at |-> 0, batch |-> {}]
  BY <1>2
<1>6. [none EXCEPT !.at = place, !.step = step] = [[none EXCEPT !.at = place] EXCEPT !.step = step]
  OBVIOUS
<1> QED BY <1>1, <1>2, <1>3, <1>4, <1>5, <1>6

(* The steps that only begin or end something.                             *)
LEMMA SmallSteps ==
  ASSUME ContributionConstants, ContributionsInv, NEW c \in Commands,
         \/ StartVotes(c) \/ StartRounds(c) \/ MapRound(c) \/ MissRounds(c)
         \/ CheckNumber(c) \/ Squelch(c) \/ StartIndex(c) \/ SaveNoIndexRow(c) \/ CommandDies(c)
  PROVE  ContributionsInv'
<1>1. PICK to, from :
        /\ Run(c, from, to) /\ UNCHANGED <<votes, oldTables, asked>>
        /\ mapped \subseteq mapped' /\ squelched \subseteq squelched'
        /\ \E step, place : /\ to = [step |-> step, at |-> place, batch |-> {}]
                            /\ \/ step \in {"idle", "rounds", "check", "squelch", "index"}
                               \/ step = "votes" /\ place = 0
  <2>1. NoImport = [step |-> "idle", at |-> 0, batch |-> {}]
    BY Bare
  <2>2. \A step : [NoImport EXCEPT !.step = step] = [step |-> step, at |-> 0, batch |-> {}]
    BY Bare
  <2>3. CASE StartVotes(c)
    BY <2>2, <2>3 DEF StartVotes
  <2>4. CASE StartRounds(c)
    <3>1. PICK to : to = [NoImport EXCEPT !.step = "rounds"]
      OBVIOUS
    <3>2. Run(c, "idle", to) /\ UNCHANGED <<votes, mapped, squelched, oldTables, asked>>
      BY <2>4, <3>1 DEF StartRounds
    <3>3. to = [step |-> "rounds", at |-> 0, batch |-> {}]
      BY <2>2, <3>1
    <3> QED BY <3>2, <3>3
  <2>5. CASE MapRound(c)
    <3>1. PICK place : place = importing[c].at + 1
      OBVIOUS
    <3>2. PICK step : step = IF place = Len(RoundFile) THEN "check" ELSE "rounds"
      OBVIOUS
    <3>3. /\ Run(c, "rounds", [NoImport EXCEPT !.at = place, !.step = step])
          /\ mapped \subseteq mapped' /\ UNCHANGED <<votes, squelched, oldTables, asked>>
      BY <2>5, <3>1, <3>2 DEF MapRound
    <3>4. [NoImport EXCEPT !.at = place, !.step = step] = [step |-> step, at |-> place, batch |-> {}]
      BY Bare
    <3>5. step \in {"check", "rounds"}
      BY <3>2
    <3> QED BY <3>3, <3>4, <3>5
  <2>6. CASE MissRounds(c)
    <3>1. PICK to : to = [NoImport EXCEPT !.step = "check"]
      OBVIOUS
    <3>2. Run(c, "rounds", to) /\ UNCHANGED <<votes, mapped, squelched, oldTables, asked>>
      BY <2>6, <3>1 DEF MissRounds
    <3>3. to = [step |-> "check", at |-> 0, batch |-> {}]
      BY <2>2, <3>1
    <3> QED BY <3>2, <3>3
  <2>7. CASE CheckNumber(c)
    <3>1. PICK step : step = IF \E row \in mapped : row[1] = SquelchedIn THEN "squelch" ELSE "idle"
      OBVIOUS
    <3>2. /\ Run(c, "check", [NoImport EXCEPT !.step = step])
          /\ UNCHANGED <<votes, mapped, squelched, oldTables, asked>>
          /\ step \in {"squelch", "idle"}
      BY <2>7, <3>1 DEF CheckNumber
    <3> QED BY <2>2, <3>2
  <2>8. CASE Squelch(c)
    BY <2>1, <2>8 DEF Squelch
  <2>9. CASE StartIndex(c)
    <3>1. PICK to : to = [NoImport EXCEPT !.step = "index"]
      OBVIOUS
    <3>2. Run(c, "idle", to) /\ UNCHANGED <<votes, mapped, squelched, oldTables, asked>>
      BY <2>9, <3>1 DEF StartIndex
    <3>3. to = [step |-> "index", at |-> 0, batch |-> {}]
      BY <2>2, <3>1
    <3> QED BY <3>2, <3>3
  <2>10. CASE CommandDies(c)
    BY <2>1, <2>10 DEF CommandDies
  <2>11. CASE SaveNoIndexRow(c)
    BY <2>1, <2>11 DEF SaveNoIndexRow
  <2> QED BY <2>3, <2>4, <2>5, <2>6, <2>7, <2>8, <2>9, <2>10, <2>11
<1>2. PICK step, place : /\ to = [step |-> step, at |-> place, batch |-> {}]
                         /\ \/ step \in {"idle", "rounds", "check", "squelch", "index"}
                            \/ step = "votes" /\ place = 0
  BY <1>1
<1>3. /\ to = [step |-> to.step, at |-> to.at, batch |-> to.batch]
      /\ to.step = step /\ to.at = place /\ to.batch = {}
  BY <1>2
<1>4. JobFits(to, GivenVotes', records')
  <2>1. CASE step = "votes" /\ place = 0
    <3>1. Len(VoteFile) \in Nat /\ 0 < Len(VoteFile) /\ 0 <= Len(VoteFile)
      BY DEF ContributionConstants
    <3>2. \A i \in 1..Len(VoteFile) : ~(i <= 0)
      OBVIOUS
    <3>3. step \notin Tables
      BY <2>1 DEF Tables
    <3> QED BY <1>3, <2>1, <3>1, <3>2, <3>3 DEF JobFits
  <2>2. CASE step \in {"idle", "rounds", "check", "squelch", "index"}
    BY <1>3, <2>2, OtherJobsFit
  <2> QED BY <1>2, <2>1, <2>2
<1>5. GivenVotes' = GivenVotes /\ records' = records
  BY <1>1 DEF GivenVotes, oldTables
<1> QED BY <1>1, <1>4, <1>5, CommandStep, ImportTypes, NothingToRemember DEF ContributionsInv

(* A line of the file is read.                                             *)
LEMMA ReadVoteStep ==
  ASSUME ContributionConstants, ContributionsInv, NEW c \in Commands, ReadVote(c)
  PROVE  ContributionsInv'
<1>1. PICK command, place, new :
        /\ command = importing[c] /\ place = command.at + 1
        /\ new = {VoteFile[place]} \ ({v \in Votes : votes[v] > 0} \cup {Garbage})
  OBVIOUS
<1>2. PICK step : step = IF place % ChunkSize = 0 \/ place = Len(VoteFile) THEN "create" ELSE "votes"
  OBVIOUS
<1>3. PICK to : to = [step |-> step, at |-> place, batch |-> command.batch \cup new]
  OBVIOUS
<1>4. /\ Run(c, "votes", to) /\ UNCHANGED <<votes, mapped, squelched, oldTables, asked>>
  BY <1>1, <1>2, <1>3 DEF ReadVote
<1>5. command.step = "votes" /\ JobFits(command, GivenVotes, records)
  BY <1>1, <1>4, ImportTypes DEF Run
<1>6. /\ command.at \in Nat /\ command.at < Len(VoteFile) /\ command.batch \subseteq Votes
      /\ \A i \in 1..Len(VoteFile) :
           i <= command.at => \/ VoteFile[i] = Garbage \/ VoteFile[i] \in command.batch
                              \/ VoteFile[i] \in GivenVotes
  BY <1>5 DEF JobFits
<1>7. Len(VoteFile) \in Nat /\ \A i \in 1..Len(VoteFile) : VoteFile[i] \in Votes \cup {Garbage}
  BY DEF ContributionConstants
<1>8. place \in 1..Len(VoteFile) /\ place \in Nat /\ place <= Len(VoteFile)
  BY <1>1, <1>6, <1>7
<1>9. votes \in [Votes -> {0, 1}]
  BY ImportTypes
<1>10. /\ new \subseteq Votes
       /\ VoteFile[place] = Garbage \/ VoteFile[place] \in new \/ VoteFile[place] \in GivenVotes
  <2>1. \A v \in Votes : votes[v] > 0 => v \in GivenVotes
    BY <1>9 DEF GivenVotes
  <2> QED BY <1>1, <1>7, <1>8, <2>1
<1>11. /\ to = [step |-> to.step, at |-> to.at, batch |-> to.batch]
       /\ to.step = step /\ to.at = place /\ to.batch = command.batch \cup new
       /\ step \in {"votes", "create"} /\ step \notin Tables
       /\ step = "votes" => place # Len(VoteFile)
  BY <1>2, <1>3 DEF Tables
<1>12. \A i \in 1..Len(VoteFile) :
         i <= place => \/ VoteFile[i] = Garbage \/ VoteFile[i] \in to.batch
                       \/ VoteFile[i] \in GivenVotes
  <2>1. ASSUME NEW i \in 1..Len(VoteFile), i <= place PROVE i = place \/ i <= command.at
    BY <1>1, <1>6, <1>7, <2>1
  <2> QED BY <1>6, <1>10, <1>11, <2>1
<1>13. place < Len(VoteFile) \/ place = Len(VoteFile)
  BY <1>7, <1>8
<1>14. JobFits(to, GivenVotes, records)
  BY <1>6, <1>8, <1>10, <1>11, <1>12, <1>13 DEF JobFits
<1>15. GivenVotes' = GivenVotes /\ records' = records
  BY <1>4 DEF GivenVotes, oldTables
<1> QED BY <1>4, <1>14, <1>15, CommandStep, ImportTypes, NothingToRemember DEF ContributionsInv

(* The votes of a chunk are created, unless they are there.                *)
LEMMA CreateVotesStep ==
  ASSUME ContributionConstants, ContributionsInv, NEW c \in Commands, CreateVotes(c)
  PROVE  ContributionsInv'
<1>1. PICK command : command = importing[c]
  OBVIOUS
<1>2. PICK to : to = IF command.at = Len(VoteFile) THEN NoImport
                     ELSE [command EXCEPT !.step = "votes", !.batch = {}]
  OBVIOUS
<1>3. /\ Run(c, "create", to) /\ UNCHANGED <<mapped, squelched, oldTables, asked>>
      /\ votes' = [v \in Votes |-> IF v \in command.batch THEN [u \in Votes |-> 1][v] ELSE votes[v]]
  BY <1>1, <1>2 DEF CreateVotes, CreateVotesAs
<1>4. command.step = "create" /\ JobFits(command, GivenVotes, records)
  BY <1>1, <1>3, ImportTypes DEF Run
<1>5. /\ command = [step |-> command.step, at |-> command.at, batch |-> command.batch]
      /\ command.at \in Nat /\ command.at <= Len(VoteFile) /\ command.batch \subseteq Votes
      /\ \A i \in 1..Len(VoteFile) :
           i <= command.at => \/ VoteFile[i] = Garbage \/ VoteFile[i] \in command.batch
                              \/ VoteFile[i] \in GivenVotes
  BY <1>4 DEF JobFits
<1>6. votes \in [Votes -> {0, 1}]
  BY ImportTypes
<1>7. votes' = [v \in Votes |-> IF v \in command.batch THEN 1 ELSE votes[v]]
  BY <1>3
<1>8. votes' \in [Votes -> {0, 1}]
  BY <1>6, <1>7
<1>9. GivenVotes \subseteq GivenVotes' /\ command.batch \subseteq GivenVotes'
  BY <1>5, <1>7 DEF GivenVotes
<1>10. JobFits(to, GivenVotes', records)
  <2>1. CASE command.at = Len(VoteFile)
    <3>1. to = [step |-> "idle", at |-> 0, batch |-> {}]
      BY <1>2, <2>1, Bare
    <3>2. to = [step |-> to.step, at |-> to.at, batch |-> to.batch] /\ to.step = "idle"
      BY <3>1
    <3> QED BY <3>2, OtherJobsFit
  <2>2. CASE command.at # Len(VoteFile)
    <3>1. /\ to = [step |-> to.step, at |-> to.at, batch |-> to.batch]
          /\ to.step = "votes" /\ to.at = command.at /\ to.batch = {}
      BY <1>2, <1>5, <2>2
    <3>2. "votes" \notin Tables
      BY DEF Tables
    <3>3. Len(VoteFile) \in Nat /\ command.at < Len(VoteFile)
      BY <1>5, <2>2 DEF ContributionConstants
    <3>4. \A i \in 1..Len(VoteFile) :
            i <= command.at => VoteFile[i] = Garbage \/ VoteFile[i] \in GivenVotes'
      BY <1>5, <1>9
    <3> QED BY <1>5, <3>1, <3>2, <3>3, <3>4 DEF JobFits
  <2> QED BY <2>1, <2>2
<1>11. records' = records
  BY <1>3 DEF oldTables
<1> QED BY <1>3, <1>8, <1>9, <1>10, <1>11, CommandStep, ImportTypes, NothingToRemember
        DEF ContributionsInv

(* The records of a table that are not there are saved, one by one.        *)
LEMMA ImportStep ==
  ASSUME ContributionConstants, ContributionsInv, NEW c \in Commands, NEW table \in Tables,
         Import(c, table)
  PROVE  ContributionsInv'
<1>1. votes \in [Votes -> {0, 1}] /\ records \in [Tables -> SUBSET Records]
  BY ImportTypes
<1>2. PICK from, to :
        /\ Run(c, from, to) /\ UNCHANGED <<votes, mapped, squelched>> /\ Remembered
        /\ records' \in [Tables -> SUBSET Records]
        /\ \A t \in Tables : records[t] \subseteq records'[t]
        /\ JobFits(to, GivenVotes, records')
  <2>1. CASE StartRecords(c, table)
    <3>1. PICK to : to = [step |-> table, at |-> 0, batch |-> Records \ records[table]]
      OBVIOUS
    <3>2. /\ to = [step |-> to.step, at |-> to.at, batch |-> to.batch] /\ to.step = table
          /\ to.batch = Records \ records[table]
      BY <3>1
    <3>3. table \notin {"votes", "create"} /\ records[table] \subseteq Records
      BY <1>1 DEF Tables
    <3>4. JobFits(to, GivenVotes, records)
      BY <3>2, <3>3 DEF JobFits
    <3>5. Run(c, "idle", to) /\ UNCHANGED <<votes, mapped, squelched, oldTables, asked>>
      BY <2>1, <3>1 DEF StartRecords
    <3>6. Remembered /\ records' = records
      BY <3>5, NothingToRemember DEF ContributionsInv, oldTables
    <3> QED BY <1>1, <3>4, <3>5, <3>6
  <2>2. CASE SaveRecord(c, table)
    <3>1. PICK command : command = importing[c]
      OBVIOUS
    <3>2. JobFits(NoImport, GivenVotes, records)
      <4>1. PICK none : none = NoImport
        OBVIOUS
      <4>2. none = [step |-> "idle", at |-> 0, batch |-> {}]
        BY <4>1, Bare
      <4>3. none = [step |-> none.step, at |-> none.at, batch |-> none.batch] /\ none.step = "idle"
        BY <4>2
      <4> QED BY <4>1, <4>3, OtherJobsFit
    <3>3. CASE Run(c, table, NoImport) /\ UNCHANGED <<oldTables, asked>>
      <4>1. UNCHANGED <<votes, mapped, squelched>>
        BY <2>2 DEF SaveRecord
      <4>2. Remembered /\ records' = records
        BY <3>3, NothingToRemember DEF ContributionsInv, oldTables
      <4> QED BY <1>1, <3>2, <3>3, <4>1, <4>2
    <3>4. CASE \E r \in command.batch :
                 /\ records' = [records EXCEPT ![table] = @ \cup {r}]
                 /\ Run(c, table, [command EXCEPT !.batch = @ \ {r}])
                 /\ \E successful : Give(addressed, successful)
      <4>1. PICK r \in command.batch :
              /\ records' = [records EXCEPT ![table] = @ \cup {r}]
              /\ Run(c, table, [command EXCEPT !.batch = @ \ {r}])
              /\ \E successful : Give(addressed, successful)
        BY <3>4
      <4>2. PICK to : to = [command EXCEPT !.batch = @ \ {r}]
        OBVIOUS
      <4>3. command.step = table /\ JobFits(command, GivenVotes, records)
        BY <3>1, <4>1, ImportTypes DEF Run
      <4>4. /\ command = [step |-> command.step, at |-> command.at, batch |-> command.batch]
            /\ Records = records[table] \cup command.batch
        BY <4>3 DEF JobFits
      <4>5. /\ to = [step |-> to.step, at |-> to.at, batch |-> to.batch]
            /\ to.step = table /\ to.batch = command.batch \ {r}
        BY <4>2, <4>3, <4>4
      <4>6. records'[table] = records[table] \cup {r} /\ r \in Records
        BY <1>1, <4>1, <4>4
      <4>7. /\ records' \in [Tables -> SUBSET Records]
            /\ \A t \in Tables : records[t] \subseteq records'[t]
        BY <1>1, <4>1, <4>6
      <4>8. table \notin {"votes", "create"}
        BY DEF Tables
      <4>9. Records = records'[table] \cup to.batch
        BY <4>4, <4>5, <4>6
      <4>10. JobFits(to, GivenVotes, records')
        BY <4>5, <4>8, <4>9 DEF JobFits
      <4>11. UNCHANGED <<votes, mapped, squelched>> /\ Remembered
        BY <2>2, <4>1, GiveRemembers DEF SaveRecord, ContributionsInv
      <4> QED BY <4>1, <4>2, <4>7, <4>10, <4>11
    <3> QED BY <2>2, <3>1, <3>3, <3>4 DEF SaveRecord
  <2> QED BY <2>1, <2>2 DEF Import
<1>3. GivenVotes' = GivenVotes
  BY <1>2 DEF GivenVotes
<1> QED BY <1>1, <1>2, <1>3, CommandStep

(* The addresses of a chunk of the index.                                  *)
LEMMA AddAddressesStep ==
  ASSUME ContributionConstants, ContributionsInv, NEW c \in Commands, AddAddresses(c)
  PROVE  ContributionsInv'
<1>1. PICK command : command = importing[c]
  OBVIOUS
<1>2. PICK to, place :
        /\ Run(c, "index", to) /\ UNCHANGED <<votes, mapped, squelched, records>>
        /\ \E given : Give(given, success)
        /\ to = NoImport \/ to = [command EXCEPT !.at = place]
  BY <1>1 DEF AddAddresses
<1>3. command.step = "index" /\ JobFits(command, GivenVotes, records)
  BY <1>1, <1>2, ImportTypes DEF Run
<1>4. command = [step |-> command.step, at |-> command.at, batch |-> command.batch]
  BY <1>3 DEF JobFits
<1>5. to = [step |-> to.step, at |-> to.at, batch |-> to.batch] /\ to.step \in {"idle", "index"}
  <2>1. CASE to = NoImport
    <3>1. to = [step |-> "idle", at |-> 0, batch |-> {}]
      BY <2>1, Bare
    <3> QED BY <3>1
  <2>2. CASE to = [command EXCEPT !.at = place]
    BY <1>3, <1>4, <2>2
  <2> QED BY <1>2, <2>1, <2>2
<1>6. GivenVotes' = GivenVotes
  BY <1>2 DEF GivenVotes
<1>7. Remembered
  BY <1>2, GiveRemembers DEF ContributionsInv
<1> QED BY <1>2, <1>5, <1>6, <1>7, OtherJobsFit, CommandStep, ImportTypes

(* The list of the rows that the index has not.                            *)
LEMMA IndexRowsStep ==
  ASSUME ContributionConstants, ContributionsInv, NEW c \in Commands, StartIndexRows(c)
  PROVE  ContributionsInv'
<1>1. PICK to : to = [step |-> "rows", at |-> 0, batch |-> Records \ indexed]
  OBVIOUS
<1>2. Run(c, "idle", to) /\ UNCHANGED <<votes, mapped, squelched, oldTables, asked>>
  BY <1>1 DEF StartIndexRows
<1>3. to = [step |-> to.step, at |-> to.at, batch |-> to.batch] /\ to.step = "rows"
  BY <1>1
<1>4. GivenVotes' = GivenVotes /\ records' = records
  BY <1>2 DEF GivenVotes, oldTables
<1> QED BY <1>2, <1>3, <1>4, OtherJobsFit, CommandStep, ImportTypes, NothingToRemember
        DEF ContributionsInv

(* What an admin does in a form.                                           *)
LEMMA AdminStep ==
  ASSUME ContributionConstants, ContributionsInv, AdminNext
  PROVE  ContributionsInv'
<1>1. /\ UNCHANGED <<votes, mapped, squelched, records, importing, asking>>
      /\ \E given, successful : Give(given, successful)
  BY DEF AdminNext, AddIndexRow, MarkContribution
<1>2. GivenVotes' = GivenVotes
  BY <1>1 DEF GivenVotes
<1>3. ImportInv'
  BY <1>1, <1>2 DEF ContributionsInv, ImportInv
<1>4. Remembered
  BY <1>1, GiveRemembers DEF ContributionsInv
<1> QED BY <1>1, <1>2, <1>3, <1>4, StatisticsGrow DEF ContributionsInv

(* What is counted at a time is all that was there when the request began. *)
LEMMA CountedFits ==
  ASSUME ContributionConstants, ContributionsInv, asking.step # "idle", NEW hidden,
         asked.hidden \subseteq hidden, hidden \subseteq HiddenRounds
  PROVE  Sums(Counted(hidden), HiddenRounds)
<1>1. votes \in [Votes -> {0, 1}] /\ Large \subseteq Votes
  BY ImportTypes DEF ContributionConstants
<1>2. asked.votes \subseteq GivenVotes \cap Large
  BY DEF ContributionsInv, StatisticsInv
<1>3. \A v \in Votes : votes[v] > 0 <=> v \in GivenVotes
  BY <1>1 DEF GivenVotes
<1>4. \A v : v \in Counted(hidden) <=> v \in Large /\ v \in GivenVotes /\ RoundOf[v] \notin hidden
  BY <1>1, <1>3 DEF Counted
<1> QED BY <1>2, <1>4 DEF Sums

(* A step of a request.                                                    *)
LEMMA QueryStep ==
  ASSUME ContributionConstants, ContributionsInv, QueryNext
  PROVE  ContributionsInv'
<1> USE DEF ContributionsInv
<1>1. UNCHANGED <<votes, mapped, squelched, oldTables, importing>>
  BY DEF QueryNext, StartAsking, LookForAny, CountGrants, SumGiven, SumVotes, CountProjects,
         ReadIndex, ReadRounds, ReadBoth, Answered, Ask
<1>2. /\ GivenVotes' = GivenVotes /\ HiddenRounds' = HiddenRounds
      /\ Successes' = Successes /\ records' = records
  BY <1>1 DEF GivenVotes, HiddenRounds, Successes, oldTables
<1>0. /\ asked = [votes |-> asked.votes, hidden |-> asked.hidden, steady |-> asked.steady,
                  ever |-> asked.ever]
      /\ asking.step # "idle" =>
           /\ asked.steady \subseteq Successes /\ Successes \subseteq asked.ever
           /\ asking.grants \cup asking.given \subseteq asked.ever
  BY DEF StatisticsInv
<1>16. PICK all : all = Successes
  OBVIOUS
<1>3. ImportInv'
  BY <1>1, <1>2 DEF ImportInv
<1>4. PICK hide : hide = HiddenRounds
  OBVIOUS
<1>5. asking.step # "idle" => Sums(Counted(hide), HiddenRounds)
  BY <1>4, CountedFits DEF StatisticsInv
<1>6. asking = [step |-> asking.step, grants |-> asking.grants, given |-> asking.given,
                hidden |-> asking.hidden, projects |-> asking.projects,
                amount |-> asking.amount]
  BY DEF StatisticsInv
<1>7. \A some : Sums(some, HiddenRounds)' <=>
        /\ some \subseteq GivenVotes /\ \A v \in some : RoundOf[v] \notin asked'.hidden
        /\ \A v \in asked'.votes : RoundOf[v] \notin HiddenRounds => v \in some
  BY <1>2 DEF Sums
<1>8. CASE StartAsking
  <2>1. PICK language \in {"look", "index"} : asking' = [Silent EXCEPT !.step = language]
    BY <1>8 DEF StartAsking
  <2>2. asking' = [step |-> language, grants |-> {}, given |-> {}, hidden |-> {},
                   projects |-> {}, amount |-> {}]
    BY <2>1 DEF Silent
  <2>3. asked' = [votes |-> Counted({}), hidden |-> HiddenRounds, steady |-> Successes,
                  ever |-> Successes]
    BY <1>8 DEF StartAsking
  <2>4. Counted({}) \subseteq GivenVotes \cap Large
    <3>1. votes \in [Votes -> {0, 1}] /\ Large \subseteq Votes
      BY ImportTypes DEF ContributionConstants
    <3> QED BY <3>1 DEF Counted, GivenVotes
  <2> QED BY <1>1, <1>2, <1>3, <2>2, <2>3, <2>4 DEF StatisticsInv
<1>9. CASE LookForAny
  <2>1. PICK step : step = IF all = {} THEN "votes" ELSE "grants"
    OBVIOUS
  <2>2. asking.step = "look" /\ asked' = asked /\ asking' = [asking EXCEPT !.step = step]
    BY <1>9, <1>16, <2>1 DEF LookForAny, Ask
  <2>3. asking' = [step |-> step, grants |-> asking.grants, given |-> asking.given,
                   hidden |-> asking.hidden, projects |-> asking.projects,
                   amount |-> asking.amount]
    BY <1>6, <2>2
  <2>4. /\ step \in {"votes", "grants"} /\ (step = "votes" => asked.steady = {})
        /\ asked.steady \subseteq Successes /\ Successes \subseteq asked.ever
        /\ asking.grants \cup asking.given \subseteq asked.ever
    BY <1>0, <1>16, <2>1, <2>2
  <2> QED BY <1>0, <1>1, <1>2, <1>3, <2>2, <2>3, <2>4 DEF StatisticsInv
<1>17. CASE CountGrants
  <2>1. /\ asking.step = "grants" /\ asked' = asked
        /\ asking' = [asking EXCEPT !.grants = all, !.step = "given"]
    BY <1>16, <1>17 DEF CountGrants, Ask
  <2>2. asking' = [step |-> "given", grants |-> all, given |-> asking.given,
                   hidden |-> asking.hidden, projects |-> asking.projects,
                   amount |-> asking.amount]
    BY <1>6, <2>1
  <2> QED BY <1>0, <1>1, <1>2, <1>3, <1>16, <2>1, <2>2 DEF StatisticsInv
<1>10. CASE SumGiven
  <2>1. /\ asking.step = "given" /\ asked' = asked
        /\ asking' = [asking EXCEPT !.given = all, !.step = "votes"]
    BY <1>10, <1>16 DEF SumGiven, Ask
  <2>2. asking' = [step |-> "votes", grants |-> asking.grants, given |-> all,
                   hidden |-> asking.hidden, projects |-> asking.projects,
                   amount |-> asking.amount]
    BY <1>6, <2>1
  <2> QED BY <1>0, <1>1, <1>2, <1>3, <1>16, <2>1, <2>2 DEF StatisticsInv
<1>11. CASE SumVotes
  <2>1. PICK sum : sum = Counted(hide)
    OBVIOUS
  <2>2. /\ asking.step = "votes" /\ asked' = asked
        /\ asking' = [asking EXCEPT !.amount = sum, !.step = "projects"]
    BY <1>4, <1>11, <2>1 DEF SumVotes, Ask
  <2>3. asking' = [step |-> "projects", grants |-> asking.grants, given |-> asking.given,
                   hidden |-> asking.hidden, projects |-> asking.projects, amount |-> sum]
    BY <1>6, <2>2
  <2>4. Sums(sum, HiddenRounds)
    BY <1>5, <2>1, <2>2
  <2> QED BY <1>1, <1>2, <1>3, <2>2, <2>3, <2>4 DEF StatisticsInv, Sums
<1>12. CASE CountProjects
  <2>1. PICK sum : sum = Counted(hide)
    OBVIOUS
  <2>2. /\ asking.step = "projects" /\ asked' = asked
        /\ asking' = [asking EXCEPT !.projects = sum, !.step = "answered"]
    BY <1>4, <1>12, <2>1 DEF CountProjects, Ask
  <2>3. asking' = [step |-> "answered", grants |-> asking.grants, given |-> asking.given,
                   hidden |-> asking.hidden, projects |-> sum, amount |-> asking.amount]
    BY <1>6, <2>2
  <2>4. Sums(sum, HiddenRounds)
    BY <1>5, <2>1, <2>2
  <2> QED BY <1>1, <1>2, <1>3, <2>2, <2>3, <2>4 DEF StatisticsInv, Sums
<1>13. CASE ReadIndex
  <2>1. /\ asking.step = "index" /\ asked' = asked
        /\ asking' = [asking EXCEPT !.grants = all, !.given = all, !.step = "rounds"]
    BY <1>13, <1>16 DEF ReadIndex, Ask
  <2>2. asking' = [step |-> "rounds", grants |-> all, given |-> all,
                   hidden |-> asking.hidden, projects |-> asking.projects,
                   amount |-> asking.amount]
    BY <1>6, <2>1
  <2> QED BY <1>0, <1>1, <1>2, <1>3, <1>16, <2>1, <2>2 DEF StatisticsInv
<1>18. CASE ReadRounds
  <2>1. /\ asking.step = "rounds" /\ asked' = asked
        /\ asking' = [asking EXCEPT !.hidden = hide, !.step = "both"]
    BY <1>4, <1>18 DEF ReadRounds, Ask
  <2>2. asking' = [step |-> "both", grants |-> asking.grants, given |-> asking.given,
                   hidden |-> hide, projects |-> asking.projects, amount |-> asking.amount]
    BY <1>6, <2>1
  <2> QED BY <1>0, <1>1, <1>2, <1>3, <1>4, <2>1, <2>2 DEF StatisticsInv
<1>14. CASE ReadBoth
  <2>1. PICK sum : sum = Counted(asking.hidden)
    OBVIOUS
  <2>2. /\ asking.step = "both" /\ asked' = asked
        /\ asking' = [asking EXCEPT !.amount = sum, !.projects = sum, !.step = "answered"]
    BY <1>14, <2>1 DEF ReadBoth, Ask
  <2>3. asking' = [step |-> "answered", grants |-> asking.grants, given |-> asking.given,
                   hidden |-> asking.hidden, projects |-> sum, amount |-> sum]
    BY <1>6, <2>2
  <2>4. Sums(sum, HiddenRounds)
    <3>1. asked.hidden \subseteq asking.hidden /\ asking.hidden \subseteq HiddenRounds
      BY <2>2 DEF StatisticsInv
    <3> QED BY <2>1, <2>2, <3>1, CountedFits
  <2> QED BY <1>1, <1>2, <1>3, <2>2, <2>3, <2>4 DEF StatisticsInv, Sums
<1>15. CASE Answered
  <2>1. asking' = [step |-> "idle", grants |-> {}, given |-> {}, hidden |-> {},
                   projects |-> {}, amount |-> {}]
    BY <1>15 DEF Answered, Silent
  <2>2. asked' = [votes |-> {}, hidden |-> {}, steady |-> {}, ever |-> {}]
    BY <1>15 DEF Answered, NothingAsked
  <2> QED BY <1>1, <1>2, <1>3, <2>1, <2>2 DEF StatisticsInv
<1> QED BY <1>8, <1>9, <1>10, <1>11, <1>12, <1>13, <1>14, <1>15, <1>17, <1>18 DEF QueryNext

(* The invariant.                                                          *)
THEOREM ContributionsInvariance ==
  ASSUME ContributionConstants PROVE ContributionSpec => []ContributionsInv
<1>1. ContributionInit => ContributionsInv
  <2>1. ASSUME ContributionInit PROVE ContributionsInv
    <3>1. /\ votes = [v \in Votes |-> 0] /\ records = [t \in DOMAIN Refers |-> {}]
          /\ importing = [c \in Commands |-> NoImport] /\ asking = Silent
      BY <2>1 DEF ContributionInit
    <3>2. PICK none : none = NoImport
      OBVIOUS
    <3>3. none = [step |-> "idle", at |-> 0, batch |-> {}]
      BY <3>2, Bare
    <3>4. none = [step |-> none.step, at |-> none.at, batch |-> none.batch] /\ none.step = "idle"
      BY <3>3
    <3>5. \A c \in Commands : JobFits(importing[c], GivenVotes, records)
      BY <3>1, <3>2, <3>4, OtherJobsFit
    <3>6. DOMAIN Refers = Tables
      BY DEF Refers, Tables
    <3>7. ImportInv
      BY <3>1, <3>5, <3>6 DEF ImportInv
    <3>8. asking = [step |-> "idle", grants |-> {}, given |-> {}, hidden |-> {},
                    projects |-> {}, amount |-> {}]
      BY <3>1 DEF Silent
    <3>10. asked = [votes |-> {}, hidden |-> {}, steady |-> {}, ever |-> {}]
      BY <2>1 DEF ContributionInit, NothingAsked
    <3>9. StatisticsInv
      BY <3>8, <3>10 DEF StatisticsInv
    <3> QED BY <3>7, <3>9 DEF ContributionsInv
  <2> QED BY <2>1
<1>2. ASSUME ContributionsInv, [ContributionNext]_contributionVars PROVE ContributionsInv'
  <2>1. CASE UNCHANGED contributionVars
    <3>1. /\ UNCHANGED <<votes, mapped, squelched, oldTables, importing, asking, asked>>
          /\ UNCHANGED records
      BY <2>1 DEF contributionVars, oldTables
    <3>2. GivenVotes' = GivenVotes /\ HiddenRounds' = HiddenRounds /\ Successes' = Successes
      BY <3>1 DEF GivenVotes, HiddenRounds, Successes, oldTables
    <3> QED BY <1>2, <3>1, <3>2 DEF ContributionsInv, ImportInv, StatisticsInv, Sums
  <2>2. ASSUME NEW c \in Commands, VoteImport(c) \/ RecordImport(c) PROVE ContributionsInv'
    <3>1. \/ \/ StartVotes(c) \/ StartRounds(c) \/ MapRound(c) \/ MissRounds(c)
             \/ CheckNumber(c) \/ Squelch(c) \/ StartIndex(c) \/ SaveNoIndexRow(c)
             \/ CommandDies(c)
          \/ ReadVote(c) \/ CreateVotes(c) \/ AddAddresses(c) \/ StartIndexRows(c)
          \/ \E table \in Tables : Import(c, table)
      BY <2>2 DEF VoteImport, RecordImport, ImportProfiles, ImportGrants, ImportSubscriptions,
                  ImportContributions, Tables
    <3> QED BY <1>2, <3>1, SmallSteps, ReadVoteStep, CreateVotesStep, AddAddressesStep,
              IndexRowsStep, ImportStep
  <2> QED BY <1>2, <2>1, <2>2, QueryStep, AdminStep DEF ContributionNext
<1>3. ContributionsInv /\ [ContributionNext]_contributionVars => ContributionsInv'
  BY <1>2
<1> QED BY <1>1, <1>3, PTL DEF ContributionSpec

(* StatisticsHold, for any file, any rounds and any number of commands: an *)
(* answer counts each vote once, none of a round that was hidden, and all  *)
(* others that were there, and of the old contributions those that were    *)
(* successes of the address in the index all the while and none that never *)
(* was, whatever is imported and marked meanwhile.                         *)
THEOREM StatisticsTheorem ==
  ASSUME ContributionConstants PROVE ContributionSpec => []StatisticsHold
<1>1. ContributionsInv => StatisticsHold
  BY DEF ContributionsInv, StatisticsInv, Sums, GivenVotes, StatisticsHold
<1> QED BY <1>1, ContributionsInvariance, PTL

(* FilesAreImported, for the same: a command that comes to the end of its  *)
(* file or its table has left out nothing that parses.                     *)
THEOREM FilesTheorem ==
  ASSUME ContributionConstants PROVE ContributionSpec => []FilesAreImported
<1>1. ContributionsInv => FilesAreImported
  <2>1. ASSUME ContributionsInv, NEW c \in Commands, NEW command, command = importing[c]
        PROVE  /\ command.step = "create" /\ command.at = Len(VoteFile) =>
                    \A i \in DOMAIN VoteFile :
                      VoteFile[i] \in {Garbage} \cup command.batch \cup {v \in Votes : votes[v] > 0}
               /\ command.step \in DOMAIN Refers => Records = records[command.step] \cup command.batch
    <3>1. JobFits(command, GivenVotes, records)
      BY <2>1 DEF ContributionsInv, ImportInv
    <3>2. DOMAIN Refers = Tables
      BY DEF Refers, Tables
    <3>3. DOMAIN VoteFile = 1..Len(VoteFile) /\ Len(VoteFile) \in Nat
      BY DEF ContributionConstants
    <3>4. GivenVotes \subseteq {v \in Votes : votes[v] > 0}
      BY <2>1 DEF GivenVotes
    <3> QED BY <3>1, <3>2, <3>3, <3>4 DEF JobFits
  <2> QED BY <2>1 DEF FilesAreImported
<1> QED BY <1>1, ContributionsInvariance, PTL

-----------------------------------------------------------------------------
(***************************************************************************)
(* The rules of the firewall: what seven files, read and put one by one,   *)
(* say of a key that does not change.                                      *)
(***************************************************************************)
WafSpec == WafInit /\ [][WafNext]_wafVars

(* The demo key is not one of an account.                                  *)
WafConstants ==
  /\ Demo \notin Keys /\ NoKey \notin KeyRow
  /\ LastDate \in Nat /\ Settings \subseteq KeyRow

Generating == [rule: Nat, read: SUBSET (Keys \cup {Demo}), untouched: SUBSET Keys,
               first: BOOLEAN]

WafTypes ==
  /\ date \in Nat
  /\ apiKeys \in [Keys -> KeyRow \cup {NoKey}]
  /\ ruleFiles \in [DOMAIN Rules -> SUBSET (Keys \cup {Demo})]
  /\ generating \in [Generators -> Generating]
  /\ fixed \subseteq Keys

(* Whether a key should be in a file, and whether some keys are as they    *)
(* should be in what a file says.                                          *)
Belongs(k, n) == k \in Issued /\ Fits(Rules[n], apiKeys[k])
Right(keys, said, n) == \A k \in keys : k \in said <=> Belongs(k, n)

InProgress(g) == generating[g].rule > 0

(* A run whose turn it is has keys that did not change since it began;     *)
(* what it has read of them is still right, and what it has put if nobody  *)
(* was ahead of it, since others that run began later.                     *)
RunInv(g) ==
  LET run == generating[g] IN
  /\ NumberOf(g) \in DOMAIN Rules
  /\ fixed \subseteq run.untouched
  /\ run.rule % 2 = 1 => Right(run.untouched, run.read, NumberOf(g))
  /\ run.first =>
       /\ \A h \in Generators : InProgress(h) => run.untouched \subseteq generating[h].untouched
       /\ \A n \in DOMAIN Rules :
            n < NumberOf(g) => Right(run.untouched, ruleFiles[n], n)

WafInv ==
  /\ WafTypes
  /\ \A n \in DOMAIN Rules : Right(fixed, ruleFiles[n], n)
  /\ \A g \in Generators : InProgress(g) => RunInv(g)

(* There are seven files.                                                  *)
LEMMA SevenRules ==
  /\ DOMAIN Rules = 1..7 /\ Len(Rules) = 7
  /\ \A n \in DOMAIN Rules : Rules[n].field \in {"blocked", "analysis", "rate"}
<1>1. Len(Rules) = 7 /\ DOMAIN Rules = 1..7
  BY DEF Rules
<1>2. \A n \in 1..7 : Rules[n].field \in {"blocked", "analysis", "rate"}
  <2>1. /\ Rules[1].field = "blocked" /\ Rules[2].field = "analysis"
        /\ Rules[3].field = "analysis" /\ Rules[4].field = "analysis"
        /\ Rules[5].field = "rate" /\ Rules[6].field = "rate" /\ Rules[7].field = "rate"
    BY DEF Rules
  <2>2. \A n \in 1..7 : n = 1 \/ n = 2 \/ n = 3 \/ n = 4 \/ n = 5 \/ n = 6 \/ n = 7
    OBVIOUS
  <2> QED BY <2>1, <2>2
<1> QED BY <1>1, <1>2

(* A key whose row and whose expiry are as they were belongs where it did. *)
LEMMA BelongsStays ==
  ASSUME NEW k \in Keys, apiKeys'[k] = apiKeys[k],
         k \in Issued => (Expired(apiKeys[k])' <=> Expired(apiKeys[k])),
         NEW n \in DOMAIN Rules
  PROVE  Belongs(k, n)' <=> Belongs(k, n)
<1>1. k \in Issued' <=> k \in Issued
  BY DEF Issued
<1>2. PICK key, rule : key = apiKeys[k] /\ rule = Rules[n]
  OBVIOUS
<1>3. ASSUME k \in Issued PROVE Fits(rule, key)' <=> Fits(rule, key)
  <2>1. (key.expires <= date') <=> (key.expires <= date)
    BY <1>2, <1>3 DEF Expired
  <2>2. rule.field \in {"blocked", "analysis", "rate"}
    BY <1>2, SevenRules
  <2>3. CASE rule.field = "blocked"
    BY <2>1, <2>3 DEF Fits, Expired
  <2>4. CASE rule.field = "analysis"
    BY <2>1, <2>4 DEF Fits, InForce, Expired
  <2>5. CASE rule.field = "rate"
    BY <2>1, <2>5 DEF Fits, InForce, Expired
  <2> QED BY <2>2, <2>3, <2>4, <2>5
<1>4. /\ Belongs(k, n) <=> k \in Issued /\ Fits(rule, key)
      /\ Belongs(k, n)' <=> k \in Issued' /\ Fits(rule, key)'
  BY <1>2 DEF Belongs
<1> QED BY <1>1, <1>3, <1>4

(* An admin, or the date, changes some keys: they are no longer dealt with.*)
LEMMA ChangeStep ==
  ASSUME WafConstants, WafInv, NEW those, Change(those),
         date' \in Nat, apiKeys' \in [Keys -> KeyRow \cup {NoKey}],
         \A k \in Keys : k \notin those =>
           /\ apiKeys'[k] = apiKeys[k]
           /\ k \in Issued => (Expired(apiKeys[k])' <=> Expired(apiKeys[k]))
  PROVE  WafInv'
<1>1. /\ fixed' = fixed \ those /\ ruleFiles' = ruleFiles
      /\ generating' = [g \in Generators |-> [generating[g] EXCEPT !.untouched = @ \ those]]
  BY DEF Change
<1>2. ASSUME NEW g \in Generators
      PROVE  /\ generating'[g].rule = generating[g].rule
             /\ generating'[g].read = generating[g].read
             /\ generating'[g].first = generating[g].first
             /\ generating'[g].untouched = generating[g].untouched \ those
             /\ generating'[g] \in Generating /\ generating[g] \in Generating
  <2>1. PICK x \in Generating : x = generating[g]
    BY DEF WafInv, WafTypes
  <2>2. PICK y : y = [x EXCEPT !.untouched = x.untouched \ those]
    OBVIOUS
  <2>3. generating'[g] = y
    BY <1>1, <2>1, <2>2
  <2>4. /\ y.rule = x.rule /\ y.read = x.read /\ y.first = x.first
        /\ y.untouched = x.untouched \ those /\ y \in Generating
    BY <2>2 DEF Generating
  <2> QED BY <2>1, <2>3, <2>4
<1>3. WafTypes'
  BY <1>1, <1>2 DEF WafInv, WafTypes
<1>4. \A k \in Keys, n \in DOMAIN Rules : k \notin those => (Belongs(k, n)' <=> Belongs(k, n))
  BY BelongsStays
<1>5. ASSUME NEW keys \in SUBSET Keys, NEW said, NEW n \in DOMAIN Rules, Right(keys, said, n)
      PROVE  Right(keys \ those, said, n)'
  BY <1>4, <1>5 DEF Right
<1>6. \A n \in DOMAIN Rules : Right(fixed, ruleFiles[n], n)'
  BY <1>1, <1>5 DEF WafInv, WafTypes
<1>7. ASSUME NEW g \in Generators, InProgress(g)' PROVE RunInv(g)'
  <2>1. InProgress(g) /\ RunInv(g) /\ generating[g].untouched \in SUBSET Keys
    BY <1>2, <1>7 DEF InProgress, WafInv, Generating
  <2>2. NumberOf(g)' = NumberOf(g) /\ NumberOf(g) \in DOMAIN Rules
    BY <1>2, <2>1 DEF NumberOf, RunInv
  <2>3. fixed' \subseteq generating'[g].untouched
    BY <1>1, <1>2, <2>1 DEF RunInv
  <2>4. ASSUME generating'[g].rule % 2 = 1
        PROVE  Right(generating[g].untouched, generating[g].read, NumberOf(g))'
    <3>1. Right(generating[g].untouched, generating[g].read, NumberOf(g))
      BY <1>2, <2>1, <2>4 DEF RunInv
    <3>2. PICK keys, said, n : /\ keys = generating[g].untouched
                               /\ said = generating[g].read /\ n = NumberOf(g)
      OBVIOUS
    <3>3. Right(keys \ those, said, n)'
      BY <1>5, <2>1, <2>2, <3>1, <3>2
    <3> QED BY <1>2, <2>2, <3>2, <3>3
  <2>5. ASSUME generating'[g].first, NEW h \in Generators, InProgress(h)'
        PROVE  generating'[g].untouched \subseteq generating'[h].untouched
    BY <1>2, <2>1, <2>5 DEF RunInv, InProgress
  <2>6. ASSUME generating'[g].first, NEW n \in DOMAIN Rules, n < NumberOf(g)'
        PROVE  Right(generating[g].untouched, ruleFiles[n], n)'
    <3>1. Right(generating[g].untouched, ruleFiles[n], n)
      BY <1>2, <2>1, <2>2, <2>6 DEF RunInv
    <3>2. PICK keys, said : keys = generating[g].untouched /\ said = ruleFiles[n]
      OBVIOUS
    <3>3. Right(keys \ those, said, n)'
      BY <1>5, <2>1, <3>1, <3>2
    <3> QED BY <1>1, <1>2, <3>2, <3>3
  <2> QED BY <2>2, <2>3, <2>4, <2>5, <2>6 DEF RunInv
<1> QED BY <1>3, <1>6, <1>7 DEF WafInv

(* A run goes on: what it has then, and what the others have.              *)
LEMMA RunGoesOn ==
  ASSUME WafConstants, WafInv, NEW g \in Generators, NEW to \in Generating,
         generating' = [generating EXCEPT ![g] = to], UNCHANGED <<date, apiKeys>>,
         ruleFiles' \in [DOMAIN Rules -> SUBSET (Keys \cup {Demo})], fixed' \subseteq Keys,
         \A n \in DOMAIN Rules : Right(fixed', ruleFiles'[n], n),
         \A h \in Generators : h # g /\ InProgress(h) =>
           /\ fixed' \subseteq generating[h].untouched
           /\ generating[h].first =>
                /\ to.rule > 0 => generating[h].untouched \subseteq to.untouched
                /\ \A n \in DOMAIN Rules :
                     n < NumberOf(h) => Right(generating[h].untouched, ruleFiles'[n], n),
         to.rule > 0 =>
           /\ to.rule \div 2 \in DOMAIN Rules
           /\ fixed' \subseteq to.untouched
           /\ to.rule % 2 = 1 => Right(to.untouched, to.read, to.rule \div 2)
           /\ to.first =>
                /\ \A h \in Generators :
                     h # g /\ InProgress(h) => to.untouched \subseteq generating[h].untouched
                /\ \A n \in DOMAIN Rules :
                     n < to.rule \div 2 => Right(to.untouched, ruleFiles'[n], n)
  PROVE  WafInv'
<1>1. /\ generating'[g] = to
      /\ \A h \in Generators : h # g =>
           generating'[h] = generating[h] /\ (InProgress(h)' <=> InProgress(h))
  BY DEF WafInv, WafTypes, InProgress
<1>2. WafTypes'
  BY DEF WafInv, WafTypes
<1>3. \A k, n : Belongs(k, n)' <=> Belongs(k, n')
  BY DEF Belongs, Issued, Fits, InForce, Expired
<1>4. \A keys, said, n : Right(keys, said, n)' <=>
        \A k \in keys' : k \in said' <=> Belongs(k, n')
  BY <1>3 DEF Right
<1>5. \A n \in DOMAIN Rules : Right(fixed, ruleFiles[n], n)'
  BY <1>3 DEF Right
<1>6. ASSUME NEW h \in Generators, h # g, InProgress(h) PROVE RunInv(h)'
  <2>1. RunInv(h) /\ generating'[h] = generating[h]
    BY <1>1, <1>6 DEF WafInv
  <2>2. NumberOf(h)' = NumberOf(h)
    BY <2>1 DEF NumberOf
  <2>3. generating[h].rule % 2 = 1 =>
          Right(generating[h].untouched, generating[h].read, NumberOf(h))'
    BY <1>3, <2>1, <2>2 DEF RunInv, Right
  <2>4. ASSUME generating[h].first, NEW i \in Generators, InProgress(i)'
        PROVE  generating[h].untouched \subseteq generating'[i].untouched
    <3>1. CASE i = g
      BY <1>1, <1>6, <2>4, <3>1 DEF InProgress
    <3>2. CASE i # g
      BY <1>1, <2>1, <2>4, <3>2 DEF RunInv
    <3> QED BY <3>1, <3>2
  <2>5. ASSUME generating[h].first, NEW n \in DOMAIN Rules, n < NumberOf(h)
        PROVE  Right(generating[h].untouched, ruleFiles[n], n)'
    <3>1. Right(generating[h].untouched, ruleFiles'[n], n)
      BY <1>6, <2>5
    <3> QED BY <1>3, <2>1, <3>1 DEF Right
  <2>6. NumberOf(h) \in DOMAIN Rules /\ fixed' \subseteq generating[h].untouched
    BY <1>6, <2>1 DEF RunInv
  <2> QED BY <2>1, <2>2, <2>3, <2>4, <2>5, <2>6 DEF RunInv
<1>7. ASSUME InProgress(g)' PROVE RunInv(g)'
  <2>1. to.rule > 0 /\ NumberOf(g)' = to.rule \div 2
    BY <1>1, <1>7 DEF InProgress, NumberOf
  <2>2. to.rule % 2 = 1 => Right(generating[g].untouched, generating[g].read, NumberOf(g))'
    BY <1>1, <1>3, <2>1 DEF Right
  <2>3. ASSUME to.first, NEW h \in Generators, InProgress(h)'
        PROVE  to.untouched \subseteq generating'[h].untouched
    BY <1>1, <2>1, <2>3
  <2>4. ASSUME to.first, NEW n \in DOMAIN Rules, n < to.rule \div 2
        PROVE  Right(generating[g].untouched, ruleFiles[n], n)'
    <3>1. Right(to.untouched, ruleFiles'[n], n)
      BY <2>1, <2>4
    <3> QED BY <1>1, <1>3, <3>1 DEF Right
  <2> QED BY <1>1, <2>1, <2>2, <2>3, <2>4 DEF RunInv
<1> QED BY <1>1, <1>2, <1>5, <1>6, <1>7 DEF WafInv

(* A run begins, reads the keys of a file, or fails to put it.             *)
LEMMA ReadsStep ==
  ASSUME WafConstants, WafInv, NEW g \in Generators,
         StartGenerating(g) \/ ReadKeysOfRule(g) \/ PutFails(g)
  PROVE  WafInv'
<1>1. PICK x \in Generating : x = generating[g]
  BY DEF WafInv, WafTypes
<1>2. /\ UNCHANGED <<date, apiKeys, ruleFiles, fixed>>
      /\ ruleFiles' \in [DOMAIN Rules -> SUBSET (Keys \cup {Demo})] /\ fixed' \subseteq Keys
      /\ \A n \in DOMAIN Rules : Right(fixed', ruleFiles'[n], n)
  BY DEF StartGenerating, ReadKeysOfRule, PutFails, ReadFor, Proceed, WafInv, WafTypes
<1>3. \A h \in Generators : InProgress(h) =>
        /\ fixed' \subseteq generating[h].untouched
        /\ generating[h].first =>
             \A n \in DOMAIN Rules :
               n < NumberOf(h) => Right(generating[h].untouched, ruleFiles'[n], n)
  BY <1>2 DEF WafInv, RunInv
<1>4. \A h \in Generators : generating[h] \in Generating
  BY DEF WafInv, WafTypes
<1>5. CASE StartGenerating(g)
  <2>1. PICK first \in BOOLEAN :
          first <=> \A h \in Generators : generating[h].rule = 0
    OBVIOUS
  <2>2. PICK none : none = {}
    OBVIOUS
  <2>3. PICK to : to = [rule |-> 2, read |-> none, untouched |-> Keys, first |-> first]
    OBVIOUS
  <2>4. to \in Generating /\ to.rule = 2 /\ to.untouched = Keys /\ to.first = first
    BY <2>2, <2>3 DEF Generating
  <2>5. generating' = [generating EXCEPT ![g] = to]
    BY <1>5, <2>1, <2>2, <2>3 DEF StartGenerating, Proceed
  <2>6. \A h \in Generators : generating[h].untouched \subseteq to.untouched
    BY <1>4, <2>4 DEF Generating
  <2>7. to.first => \A h \in Generators : ~InProgress(h)
    BY <2>1, <2>4 DEF InProgress
  <2>8. to.rule \div 2 = 1 /\ to.rule % 2 = 0 /\ 1 \in DOMAIN Rules
        /\ \A n \in DOMAIN Rules : ~(n < 1)
    BY <2>4, SevenRules
  <2>9. \A h \in Generators : h # g /\ InProgress(h) =>
          /\ fixed' \subseteq generating[h].untouched
          /\ generating[h].first =>
               /\ to.rule > 0 => generating[h].untouched \subseteq to.untouched
               /\ \A n \in DOMAIN Rules :
                    n < NumberOf(h) => Right(generating[h].untouched, ruleFiles'[n], n)
    BY <1>3, <2>6
  <2>10. to.rule > 0 =>
           /\ to.rule \div 2 \in DOMAIN Rules
           /\ fixed' \subseteq to.untouched
           /\ to.rule % 2 = 1 => Right(to.untouched, to.read, to.rule \div 2)
           /\ to.first =>
                /\ \A h \in Generators :
                     h # g /\ InProgress(h) => to.untouched \subseteq generating[h].untouched
                /\ \A n \in DOMAIN Rules :
                     n < to.rule \div 2 => Right(to.untouched, ruleFiles'[n], n)
    BY <1>2, <2>4, <2>7, <2>8
  <2> QED BY <1>2, <2>4, <2>5, <2>9, <2>10, RunGoesOn
<1>6. CASE ReadKeysOfRule(g)
  <2>1. PICK keys, n : n = NumberOf(g) /\ keys = KeysFor(Rules[n])
    OBVIOUS
  <2>2. /\ x.rule \in Nat /\ x.rule > 0 /\ x.rule % 2 = 0 /\ n = x.rule \div 2
        /\ InProgress(g) /\ RunInv(g)
    BY <1>1, <1>6, <2>1 DEF ReadKeysOfRule, ReadFor, NumberOf, InProgress, WafInv, Generating
  <2>3. /\ n \in DOMAIN Rules /\ fixed' \subseteq x.untouched
        /\ x.first => /\ \A h \in Generators :
                           InProgress(h) => x.untouched \subseteq generating[h].untouched
                      /\ \A m \in DOMAIN Rules :
                           m < n => Right(x.untouched, ruleFiles'[m], m)
    BY <1>1, <1>2, <2>1, <2>2 DEF RunInv
  <2>4. PICK y : y = [x EXCEPT !.rule = x.rule + 1]
    OBVIOUS
  <2>5. y \in Generating /\ y.rule = x.rule + 1 /\ y.untouched = x.untouched /\ y.first = x.first
    BY <2>2, <2>4 DEF Generating
  <2>6. PICK to : to = [y EXCEPT !.read = keys]
    OBVIOUS
  <2>7. keys \subseteq Keys \cup {Demo} /\ \A k \in Keys : k \in keys <=> Belongs(k, n)
    <3>1. PICK those : those = {k \in Issued : Fits(Rules[n], apiKeys[k])}
      OBVIOUS
    <3>2. those \subseteq Keys /\ \A k \in Keys : k \in those <=> Belongs(k, n)
      BY <3>1 DEF Issued, Belongs
    <3>3. keys = those \/ keys = those \cup {Demo}
      BY <2>1, <3>1 DEF KeysFor
    <3> QED BY <3>2, <3>3 DEF WafConstants
  <2>8. /\ to \in Generating /\ to.rule = x.rule + 1 /\ to.untouched = x.untouched
        /\ to.first = x.first /\ to.read = keys
    BY <2>5, <2>6, <2>7 DEF Generating
  <2>9. generating' = [generating EXCEPT ![g] = to]
    <3>1. to = [x EXCEPT !.rule = x.rule + 1, !.read = keys]
      BY <2>4, <2>6 DEF Generating
    <3> QED BY <1>1, <1>6, <2>1, <3>1 DEF ReadKeysOfRule, ReadFor, Proceed
  <2>10. to.rule \div 2 = n
    BY <2>2, <2>8
  <2>11. x.untouched \subseteq Keys
    BY DEF Generating
  <2>12. Right(to.untouched, to.read, n)
    BY <2>7, <2>8, <2>11 DEF Right
  <2>13. \A h \in Generators : InProgress(h) /\ generating[h].first =>
           generating[h].untouched \subseteq to.untouched
    BY <1>1, <2>2, <2>8 DEF WafInv, RunInv
  <2> QED BY <1>2, <1>3, <2>3, <2>8, <2>9, <2>10, <2>12, <2>13, RunGoesOn
<1>7. CASE PutFails(g)
  <2>1. PICK to : to = Waiting
    OBVIOUS
  <2>2. to \in Generating /\ to.rule = 0
    BY <2>1 DEF Waiting, Generating
  <2>3. generating' = [generating EXCEPT ![g] = to] /\ ~(to.rule > 0)
    BY <1>7, <2>1, <2>2 DEF PutFails, Proceed
  <2> QED BY <1>2, <1>3, <2>2, <2>3, RunGoesOn
<1> QED BY <1>5, <1>6, <1>7

(* A file is put, and the run goes on to the next or ends.                 *)
LEMMA PutStep ==
  ASSUME WafConstants, WafInv, NEW g \in Generators, PutRule(g)
  PROVE  WafInv'
<1>1. PICK x \in Generating : x = generating[g]
  BY DEF WafInv, WafTypes
<1>2. PICK n : n = NumberOf(g)
  OBVIOUS
<1>3. /\ x.rule \in Nat /\ x.rule % 2 = 1 /\ n = x.rule \div 2 /\ x.rule > 0
      /\ ruleFiles' = [ruleFiles EXCEPT ![n] = x.read]
      /\ fixed' = (IF n = Len(Rules) /\ x.first THEN fixed \cup x.untouched ELSE fixed)
      /\ UNCHANGED <<date, apiKeys>>
  BY <1>1, <1>2 DEF PutRule, Proceed, NumberOf, Generating
<1>4. InProgress(g) /\ RunInv(g) /\ n \in DOMAIN Rules /\ n \in 1..7
  BY <1>1, <1>2, <1>3, SevenRules DEF InProgress, WafInv, RunInv
<1>5. /\ x.read \subseteq Keys \cup {Demo} /\ x.untouched \subseteq Keys
      /\ fixed \subseteq x.untouched /\ Right(x.untouched, x.read, n)
      /\ x.first =>
           /\ \A h \in Generators :
                InProgress(h) => x.untouched \subseteq generating[h].untouched
           /\ \A m \in DOMAIN Rules : m < n => Right(x.untouched, ruleFiles[m], m)
  BY <1>1, <1>2, <1>3, <1>4 DEF RunInv, Generating
<1>6. /\ ruleFiles' \in [DOMAIN Rules -> SUBSET (Keys \cup {Demo})]
      /\ ruleFiles'[n] = x.read
      /\ \A m \in DOMAIN Rules : m # n => ruleFiles'[m] = ruleFiles[m]
  BY <1>3, <1>4, <1>5 DEF WafInv, WafTypes
<1>7. fixed' \subseteq x.untouched /\ fixed' \subseteq Keys
  BY <1>3, <1>5
<1>8. \A keys, all, said, m : Right(all, said, m) /\ keys \subseteq all => Right(keys, said, m)
  BY DEF Right
<1>9. ASSUME NEW m \in DOMAIN Rules PROVE Right(fixed', ruleFiles'[m], m)
  <2>1. CASE m = n
    BY <1>5, <1>6, <1>7, <1>8, <2>1
  <2>2. CASE m # n /\ fixed' = fixed
    BY <1>6, <2>2 DEF WafInv
  <2>3. CASE m # n /\ fixed' # fixed
    <3>1. n = Len(Rules) /\ x.first
      BY <1>3, <2>3
    <3>2. m < n
      BY <2>3, <3>1, SevenRules
    <3> QED BY <1>5, <1>6, <1>7, <1>8, <2>3, <3>1, <3>2
  <2> QED BY <2>1, <2>2, <2>3
<1>10. ASSUME NEW h \in Generators, h # g, InProgress(h)
       PROVE  fixed' \subseteq generating[h].untouched
  <2>1. fixed \subseteq generating[h].untouched
    BY <1>10 DEF WafInv, RunInv
  <2> QED BY <1>3, <1>5, <1>10, <2>1
<1>11. ASSUME NEW h \in Generators, h # g, InProgress(h), generating[h].first
       PROVE  /\ generating[h].untouched \subseteq x.untouched
              /\ \A m \in DOMAIN Rules :
                   m < NumberOf(h) => Right(generating[h].untouched, ruleFiles'[m], m)
  <2>1. generating[h].untouched \subseteq x.untouched
    BY <1>1, <1>4, <1>11 DEF WafInv, RunInv
  <2>2. ASSUME NEW m \in DOMAIN Rules, m < NumberOf(h)
        PROVE  Right(generating[h].untouched, ruleFiles'[m], m)
    <3>1. CASE m = n
      BY <1>5, <1>6, <1>8, <2>1, <3>1
    <3>2. CASE m # n
      <4>1. Right(generating[h].untouched, ruleFiles[m], m)
        BY <1>11, <2>2 DEF WafInv, RunInv
      <4> QED BY <1>6, <3>2, <4>1
    <3> QED BY <3>1, <3>2
  <2> QED BY <2>1, <2>2
<1>12. CASE n = Len(Rules)
  <2>1. PICK to : to = Waiting
    OBVIOUS
  <2>2. to \in Generating /\ to.rule = 0 /\ ~(to.rule > 0)
    BY <2>1 DEF Waiting, Generating
  <2>3. generating' = [generating EXCEPT ![g] = to]
    BY <1>2, <1>12, <2>1 DEF PutRule, Proceed
  <2> QED BY <1>3, <1>6, <1>7, <1>9, <1>10, <1>11, <2>2, <2>3, RunGoesOn
<1>13. CASE n # Len(Rules)
  <2>1. PICK none : none = {}
    OBVIOUS
  <2>2. PICK y : y = [x EXCEPT !.rule = x.rule + 1]
    OBVIOUS
  <2>3. y \in Generating /\ y.rule = x.rule + 1 /\ y.untouched = x.untouched /\ y.first = x.first
    BY <1>3, <2>2 DEF Generating
  <2>4. PICK to : to = [y EXCEPT !.read = none]
    OBVIOUS
  <2>5. /\ to \in Generating /\ to.rule = x.rule + 1 /\ to.untouched = x.untouched
        /\ to.first = x.first
    BY <2>1, <2>3, <2>4 DEF Generating
  <2>6. generating' = [generating EXCEPT ![g] = to]
    <3>1. to = [x EXCEPT !.rule = x.rule + 1, !.read = none]
      BY <2>2, <2>4 DEF Generating
    <3> QED BY <1>1, <1>2, <1>13, <2>1, <3>1 DEF PutRule, Proceed
  <2>7. to.rule \div 2 = n + 1 /\ to.rule % 2 = 0
    <3>1. PICK r \in Nat : r = x.rule
      BY <1>3
    <3>2. n \in Nat /\ r = 2 * n + 1
      BY <1>3, <1>4, <3>1
    <3>3. r + 1 = 2 * (n + 1)
      BY <3>2
    <3>4. (r + 1) \div 2 = n + 1 /\ (r + 1) % 2 = 0
      BY <3>2, <3>3
    <3> QED BY <2>5, <3>1, <3>4
  <2>8. n + 1 \in DOMAIN Rules /\ \A m \in DOMAIN Rules : m < n + 1 => m < n \/ m = n
    BY <1>4, <1>13, SevenRules
  <2>9. ASSUME x.first, NEW m \in DOMAIN Rules, m < n + 1
        PROVE  Right(x.untouched, ruleFiles'[m], m)
    <3>1. m < n \/ m = n
      BY <2>8, <2>9
    <3>2. CASE m = n
      BY <1>5, <1>6, <3>2
    <3>3. CASE m < n /\ m # n
      BY <1>5, <1>6, <2>9, <3>3
    <3> QED BY <3>1, <3>2, <3>3
  <2>10. to.rule > 0 =>
           /\ to.rule \div 2 \in DOMAIN Rules
           /\ fixed' \subseteq to.untouched
           /\ to.rule % 2 = 1 => Right(to.untouched, to.read, to.rule \div 2)
           /\ to.first =>
                /\ \A h \in Generators :
                     h # g /\ InProgress(h) => to.untouched \subseteq generating[h].untouched
                /\ \A m \in DOMAIN Rules :
                     m < to.rule \div 2 => Right(to.untouched, ruleFiles'[m], m)
    BY <1>5, <1>7, <2>5, <2>7, <2>8, <2>9
  <2> QED BY <1>3, <1>6, <1>7, <1>9, <1>10, <1>11, <2>5, <2>6, <2>10, RunGoesOn
<1> QED BY <1>12, <1>13

(* No step of a run, an admin or the date breaks the invariant.            *)
LEMMA WafSteps ==
  ASSUME WafConstants, WafInv, [WafNext]_wafVars
  PROVE  WafInv'
<1>1. date \in Nat /\ apiKeys \in [Keys -> KeyRow \cup {NoKey}]
  BY DEF WafInv, WafTypes
<1>2. ASSUME NEW k \in Keys, NEW row \in KeyRow \cup {NoKey},
             apiKeys' = [apiKeys EXCEPT ![k] = row], Change({k}), date' = date
      PROVE  WafInv'
  <2>1. PICK those : those = {k}
    OBVIOUS
  <2>2. /\ apiKeys' \in [Keys -> KeyRow \cup {NoKey}] /\ Change(those) /\ date' \in Nat
        /\ \A i \in Keys : i \notin those => apiKeys'[i] = apiKeys[i]
    BY <1>1, <1>2, <2>1
  <2>4. \A i \in Keys : i \notin those => (Expired(apiKeys[i])' <=> Expired(apiKeys[i]))
    BY <1>2, <2>2 DEF Expired
  <2> QED BY <2>2, <2>4, ChangeStep
<1>3. CASE AddKey
  <2>1. PICK k \in Keys : apiKeys' = [apiKeys EXCEPT ![k] = NewKey] /\ Change({k}) /\ date' = date
    BY <1>3 DEF AddKey
  <2>2. NewKey \in KeyRow
    BY DEF WafConstants, NewKey, KeyRow, Never, Tiers
  <2> QED BY <1>2, <2>1, <2>2
<1>4. CASE EditKey
  <2>1. PICK k \in Issued, setting \in Settings :
          apiKeys' = [apiKeys EXCEPT ![k] = setting] /\ Change({k}) /\ date' = date
    BY <1>4 DEF EditKey
  <2> QED BY <1>2, <2>1 DEF Issued, WafConstants
<1>5. CASE DeleteKey
  <2>1. PICK k \in Issued :
          apiKeys' = [apiKeys EXCEPT ![k] = NoKey] /\ Change({k}) /\ date' = date
    BY <1>5 DEF DeleteKey
  <2> QED BY <1>2, <2>1 DEF Issued
<1>6. CASE WafTick
  <2>1. PICK those : those = {k \in Issued : apiKeys[k].expires = date + 1}
    OBVIOUS
  <2>2. Change(those) /\ date' = date + 1 /\ apiKeys' = apiKeys
    BY <1>6, <2>1 DEF WafTick
  <2>3. ASSUME NEW k \in Keys, k \notin those, k \in Issued
        PROVE  Expired(apiKeys[k])' <=> Expired(apiKeys[k])
    <3>1. PICK e : e = apiKeys[k].expires
      OBVIOUS
    <3>2. e \in Int /\ e # date + 1
      BY <1>1, <2>1, <2>3, <3>1 DEF Issued, KeyRow, Never, WafConstants
    <3> QED BY <1>1, <2>2, <3>1, <3>2 DEF Expired
  <2> QED BY <1>1, <2>2, <2>3, ChangeStep
<1>7. CASE UNCHANGED wafVars
  <2>1. \A k, n : Belongs(k, n)' <=> Belongs(k, n')
    BY <1>7 DEF wafVars, Belongs, Issued, Fits, InForce, Expired
  <2> QED BY <1>7, <2>1
        DEF wafVars, WafInv, WafTypes, Right, RunInv, InProgress, NumberOf
<1> QED BY <1>3, <1>4, <1>5, <1>6, <1>7, ReadsStep, PutStep DEF WafNext

(* RulesFitKeys, for any number of keys, settings and runs: seven files    *)
(* that are read and put one by one agree on a key that did not change     *)
(* since a run began that no other was ahead of.                           *)
THEOREM RulesTheorem == ASSUME WafConstants PROVE WafSpec => []RulesFitKeys
<1>1. WafInit => WafInv
  <2>1. ASSUME WafInit PROVE WafInv
    <3>1. PICK none : none = {}
      OBVIOUS
    <3>2. Waiting \in Generating /\ Waiting.rule = 0
      BY DEF Waiting, Generating
    <3>3. NewKey \in KeyRow
      BY DEF WafConstants, NewKey, KeyRow, Never, Tiers
    <3>4. WafTypes
      BY <2>1, <3>2, <3>3 DEF WafInit, WafTypes
    <3> QED BY <2>1, <3>2, <3>4 DEF WafInit, WafInv, Right, InProgress
  <2> QED BY <2>1
<1>2. WafInv /\ [WafNext]_wafVars => WafInv'
  BY WafSteps
<1>3. WafInv => RulesFitKeys
  BY DEF WafInv, Right, Belongs, RulesFitKeys
<1> QED BY <1>1, <1>2, <1>3, PTL DEF WafSpec

-----------------------------------------------------------------------------
(***************************************************************************)
(* Answers: the stamps and the score of an address, read apart.            *)
(***************************************************************************)
ResponseSpec == ResponseInit /\ [][ResponseNext]_responseVars

Uploaded == StampKinds \X UploadIds
ScoreRow == [counted : SUBSET Uploaded, expires : Int]

(* No score is a score that is not there.                                  *)
ResponseConstants ==
  LastMoment \in Nat /\ LastVersion \in Nat /\ NoScore \notin ScoreRow

RequestSteps == {"ready", "delete", "create", "show", "score", "look", "answer"}
RequestRow ==
  [handler : Handlers \cup {"none"}, step : RequestSteps, added : SUBSET StampKinds,
   shown : SUBSET Uploaded, score : ScoreRow \cup {NoScore}]

ResponseTypes ==
  /\ live \in [StampKinds -> Nat] /\ \A p \in StampKinds : live[p] <= uploads
  /\ expires \in [UploadIds -> Nat]
  /\ uploads \in 0..LastVersion
  /\ revoked \subseteq Uploaded
  /\ now \in Nat /\ began \in Nat /\ began <= now
  /\ saved \in ScoreRow \cup {NoScore} /\ elsewhere \in ScoreRow \cup {NoScore}
  /\ request \in RequestRow
  /\ request.step = "show" => request.handler \in Handlers \ {"ui"}
  /\ request.step = "look" => request.handler \in {"ui", "stamps"}

(* The date of a score is not after that of a stamp that it counts.        *)
GoodScore(s) ==
  s # NoScore =>
    \A row \in s.counted : row[2] <= uploads /\ s.expires <= expires[row[2]]

(* What a request has done by its step.                                    *)
HasAdded ==
  \/ request.handler = "add" /\ request.step \in {"show", "score", "answer"}
  \/ request.handler = "rust_add" /\ request.step \in {"score", "show", "answer"}
HasShown ==
  \/ request.step = "answer"
  \/ request.step = "score" /\ request.handler \in {"add", "rust_get"}
HasScored ==
  \/ request.step = "answer"
  \/ request.step = "show" /\ request.handler \in {"get", "rust_add"}
Both == request.handler \in {"add", "get", "rust_add", "rust_get"}

(* The row of an upload is live, and the scorer in Python or Rust takes it.*)
There(p, v) == live[p] = v /\ v # 0
Takes(rust, p, v) == There(p, v) /\ (rust \/ <<p, v>> \notin revoked)

(* As far as others changed nothing: what was added is there, and what was *)
(* shown or counted is still what would be.                                *)
AnswerInv ==
  /\ GoodScore(saved) /\ GoodScore(elsewhere)
  /\ HasScored /\ request.handler # "stamps" =>
       /\ request.score # NoScore
       /\ \A row \in request.score.counted :
            row[2] <= uploads /\ expires[row[2]] >= began
  /\ HasAdded => \A p \in request.added \ changed :
       There(p, live[p]) /\ <<p, live[p]>> \notin revoked
  /\ HasShown /\ Both => \A p \in StampKinds \ changed, v \in UploadIds :
       <<p, v>> \in request.shown <=> Takes(FALSE, p, v)
  /\ HasScored /\ Both => \A p \in StampKinds \ changed, v \in UploadIds :
       /\ <<p, v>> \in request.score.counted => Takes(IsRust, p, v)
       /\ Takes(IsRust, p, v) => \/ <<p, v>> \in request.score.counted
                                 \/ expires[v] < now

ResponseInv == ResponseTypes /\ AnswerInv

(* The rows that are live.                                                 *)
LEMMA RowsAre ==
  ASSUME ResponseConstants, ResponseTypes
  PROVE  /\ Rows \subseteq Uploaded
         /\ \A p \in StampKinds, v \in UploadIds : <<p, v>> \in Rows <=> There(p, v)
         /\ \A row \in Rows : row[2] <= uploads
<1>1. ASSUME NEW p \in StampKinds, live[p] # 0 PROVE live[p] \in UploadIds
  BY <1>1 DEF ResponseTypes, UploadIds, ResponseConstants
<1>2. \A row : row \in Rows => \E p \in StampKinds : live[p] # 0 /\ row = <<p, live[p]>>
  BY DEF Rows
<1>3. Rows \subseteq Uploaded
  BY <1>1, <1>2 DEF Uploaded
<1>4. \A p \in StampKinds, v \in UploadIds : <<p, v>> \in Rows <=> There(p, v)
  BY DEF Rows, There
<1>5. \A row \in Rows : row[2] <= uploads
  BY <1>2 DEF ResponseTypes
<1> QED BY <1>3, <1>4, <1>5

(* What a score counts, and when it expires.                               *)
LEMMA ScoreIs ==
  ASSUME ResponseConstants, ResponseTypes, NEW rust \in BOOLEAN, NEW s, s = ScoreNow(rust)
  PROVE  /\ s \in ScoreRow /\ s # NoScore /\ GoodScore(s)
         /\ \A row \in s.counted : row[2] <= uploads /\ expires[row[2]] >= began
         /\ \A p \in StampKinds, v \in UploadIds :
              <<p, v>> \in s.counted <=> Takes(rust, p, v) /\ expires[v] >= now
<1>1. PICK counted : counted = Countable(rust)
  OBVIOUS
<1>2. PICK dates : dates = {expires[row[2]] : row \in counted}
  OBVIOUS
<1>3. PICK ends : ends = IF counted = {} THEN LastMoment + 1 ELSE Min(dates)
  OBVIOUS
<1>4. counted \subseteq Rows /\ \A row \in counted : expires[row[2]] >= now
  BY <1>1 DEF Countable
<1>5. \A row \in counted :
        row \in Uploaded /\ row[2] \in UploadIds /\ row[2] <= uploads /\ expires[row[2]] \in Nat
  BY <1>4, RowsAre DEF Uploaded, ResponseTypes
<1>6. ends \in Int /\ \A row \in counted : ends <= expires[row[2]]
  <2>1. CASE counted = {}
    BY <1>3, <2>1 DEF ResponseConstants
  <2>2. CASE counted # {}
    <3>1. dates \in SUBSET Nat /\ dates # {}
      BY <1>2, <1>5, <2>2
    <3>2. \E m \in dates : \A n \in dates : m <= n
      BY <3>1, Least
    <3>3. ends \in dates /\ \A n \in dates : ends <= n
      BY <1>3, <2>2, <3>2 DEF Min
    <3> QED BY <1>2, <3>1, <3>3
  <2> QED BY <2>1, <2>2
<1>7. s = [counted |-> counted, expires |-> ends]
  BY <1>1, <1>2, <1>3 DEF ScoreNow, Score
<1>8. s \in ScoreRow /\ s.counted = counted /\ s.expires = ends
  BY <1>5, <1>6, <1>7 DEF ScoreRow
<1>9. ASSUME NEW p \in StampKinds, NEW v \in UploadIds
      PROVE  <<p, v>> \in s.counted <=> Takes(rust, p, v) /\ expires[v] >= now
  <2>1. <<p, v>> \in counted <=>
          <<p, v>> \in Rows /\ (rust \/ <<p, v>> \notin revoked) /\ expires[v] >= now
    BY <1>1 DEF Countable
  <2> QED BY <1>8, <2>1, RowsAre DEF Takes
<1>10. \A row \in counted : expires[row[2]] >= began
  BY <1>4, <1>5 DEF ResponseTypes
<1> QED BY <1>5, <1>6, <1>8, <1>9, <1>10 DEF ResponseConstants, GoodScore

(* Time goes on, or others change stamps: what they did not change is as   *)
(* it was.                                                                 *)
LEMMA OthersGoOn ==
  ASSUME ResponseConstants, ResponseInv, ResponseTypes', UNCHANGED <<request, began>>,
         uploads <= uploads', now <= now',
         \A v \in UploadIds : v <= uploads => expires'[v] = expires[v],
         changed \subseteq changed',
         \A p \in StampKinds \ changed' :
           /\ live'[p] = live[p]
           /\ \A v \in UploadIds : <<p, v>> \in revoked' <=> <<p, v>> \in revoked,
         GoodScore(saved)', GoodScore(elsewhere)'
  PROVE  ResponseInv'
<1> USE DEF ResponseInv
<1>1. /\ uploads \in Int /\ uploads' \in Int /\ now \in Int /\ now' \in Int
      /\ expires \in [UploadIds -> Nat] /\ expires' \in [UploadIds -> Nat]
      /\ UploadIds \subseteq Int /\ \A p \in StampKinds : live[p] \in Int /\ live[p] <= uploads
  BY DEF ResponseTypes, UploadIds, ResponseConstants
<1>2. /\ (HasAdded' <=> HasAdded) /\ (HasShown' <=> HasShown)
      /\ (HasScored' <=> HasScored) /\ (Both' <=> Both) /\ (IsRust' <=> IsRust)
  BY DEF HasAdded, HasShown, HasScored, Both, IsRust
<1>3. ASSUME NEW p \in StampKinds \ changed', NEW v \in UploadIds
      PROVE  /\ (There(p, v)' <=> There(p, v)) /\ (Takes(FALSE, p, v)' <=> Takes(FALSE, p, v))
             /\ \A rust \in BOOLEAN : Takes(rust, p, v)' <=> Takes(rust, p, v)
             /\ There(p, v) => expires'[v] = expires[v]
  BY <1>1 DEF There, Takes
<1>4. ASSUME HasScored, request.handler # "stamps"
      PROVE  /\ request.score # NoScore
             /\ \A row \in request.score.counted :
                  row[2] <= uploads' /\ expires'[row[2]] >= began
  <2>1. request.score # NoScore /\ request.score \in ScoreRow
    BY <1>4 DEF AnswerInv, ResponseTypes, RequestRow
  <2>2. ASSUME NEW row \in request.score.counted
        PROVE  row[2] <= uploads' /\ expires'[row[2]] >= began
    <3>1. row[2] <= uploads /\ expires[row[2]] >= began /\ row[2] \in UploadIds
      BY <1>4, <2>1, <2>2 DEF AnswerInv, ScoreRow, Uploaded
    <3>2. PICK v \in UploadIds : v = row[2]
      BY <3>1
    <3>3. v <= uploads' /\ expires'[v] = expires[v]
      BY <1>1, <3>1, <3>2
    <3> QED BY <3>1, <3>2, <3>3
  <2> QED BY <2>1, <2>2
<1>5. HasAdded => \A p \in request.added \ changed' :
        There(p, live[p])' /\ <<p, live'[p]>> \notin revoked'
  <2>1. ASSUME HasAdded, NEW p \in request.added, p \notin changed'
        PROVE  There(p, live[p])' /\ <<p, live'[p]>> \notin revoked'
    <3>1. p \in StampKinds /\ p \notin changed
      BY <2>1 DEF ResponseTypes, RequestRow
    <3>2. There(p, live[p]) /\ <<p, live[p]>> \notin revoked
      BY <2>1, <3>1 DEF AnswerInv
    <3>3. live[p] \in UploadIds /\ live'[p] = live[p]
      BY <1>1, <2>1, <3>1, <3>2 DEF There, UploadIds, ResponseTypes, ResponseConstants
    <3>4. <<p, live[p]>> \notin revoked'
      BY <2>1, <3>1, <3>2, <3>3
    <3> QED BY <3>2, <3>3, <3>4 DEF There
  <2> QED BY <2>1
<1>6. HasShown /\ Both => \A p \in StampKinds \ changed', v \in UploadIds :
        <<p, v>> \in request.shown <=> Takes(FALSE, p, v)'
  BY <1>3 DEF AnswerInv
<1>7. ASSUME HasScored, Both, NEW p \in StampKinds \ changed', NEW v \in UploadIds
      PROVE  /\ <<p, v>> \in request.score.counted => Takes(IsRust, p, v)'
             /\ Takes(IsRust, p, v)' => \/ <<p, v>> \in request.score.counted
                                        \/ expires'[v] < now'
  <2>1. PICK rust \in BOOLEAN : rust <=> IsRust
    OBVIOUS
  <2>2. /\ Takes(IsRust, p, v) <=> Takes(rust, p, v)
        /\ Takes(IsRust, p, v)' <=> Takes(rust, p, v)'
    BY <1>2, <2>1 DEF Takes, There
  <2>3. /\ <<p, v>> \in request.score.counted => Takes(IsRust, p, v)
        /\ Takes(IsRust, p, v) => \/ <<p, v>> \in request.score.counted
                                  \/ expires[v] < now
    BY <1>7 DEF AnswerInv
  <2>4. Takes(rust, p, v)' <=> Takes(rust, p, v)
    BY <1>3
  <2>5. Takes(rust, p, v) => expires'[v] = expires[v]
    BY <1>3 DEF Takes
  <2>6. expires[v] \in Int
    BY <1>1
  <2> QED BY <1>1, <2>2, <2>3, <2>4, <2>5, <2>6
<1>8. AnswerInv'
  BY <1>2, <1>4, <1>5, <1>6, <1>7 DEF AnswerInv
<1> QED BY <1>8

(* What the now and others do keeps the types.                           *)
LEMMA OthersTypes ==
  ASSUME ResponseConstants, ResponseTypes,
         \/ Tick \/ OthersDelete \/ OthersInsert \/ OthersRevoke
         \/ OthersCompute \/ OthersSave
  PROVE  ResponseTypes'
<1>1. CASE Tick
  BY <1>1 DEF Tick, ResponseTypes
<1>2. CASE OthersDelete
  <2>1. PICK p \in StampKinds : Replace({p}, 0)
    BY <1>2 DEF OthersDelete
  <2>2. /\ live' \in [StampKinds -> Nat] /\ \A q \in StampKinds : live'[q] <= uploads
        /\ revoked' \subseteq Uploaded
    BY <2>1 DEF Replace, ResponseTypes, ResponseConstants
  <2> QED BY <1>2, <2>2 DEF OthersDelete, ResponseTypes
<1>3. CASE OthersInsert
  <2>1. PICK p \in StampKinds : Insert({p})
    BY <1>3 DEF OthersInsert
  <2>2. /\ live' \in [StampKinds -> Nat] /\ \A q \in StampKinds : live'[q] <= uploads'
        /\ revoked' \subseteq Uploaded /\ uploads' \in 0..LastVersion
    BY <2>1 DEF Insert, Replace, ResponseTypes, ResponseConstants
  <2>3. expires' \in [UploadIds -> Nat]
    <3>1. PICK life \in {0, 1} : expires' = [expires EXCEPT ![uploads + 1] = now + life]
      BY <2>1 DEF Insert
    <3>2. PICK ends : ends = now + life
      OBVIOUS
    <3>3. ends \in Nat
      BY <3>1, <3>2 DEF ResponseTypes
    <3> QED BY <3>1, <3>2, <3>3 DEF ResponseTypes
  <2> QED BY <1>3, <2>2, <2>3 DEF OthersInsert, ResponseTypes
<1>4. CASE OthersRevoke
  <2>1. revoked' \subseteq Uploaded
    BY <1>4, RowsAre DEF OthersRevoke, ResponseTypes
  <2> QED BY <1>4, <2>1 DEF OthersRevoke, ResponseTypes
<1>5. CASE OthersCompute
  <2>1. elsewhere' \in ScoreRow
    BY <1>5, ScoreIs DEF OthersCompute
  <2> QED BY <1>5, <2>1 DEF OthersCompute, ResponseTypes
<1>6. CASE OthersSave
  BY <1>6 DEF OthersSave, ResponseTypes
<1> QED BY <1>1, <1>2, <1>3, <1>4, <1>5, <1>6

(* A new upload leaves the dates of the others as they are.                *)
LEMMA InsertIs ==
  ASSUME ResponseConstants, ResponseTypes, NEW them \in SUBSET StampKinds, Insert(them)
  PROVE  /\ uploads' = uploads + 1 /\ uploads' \in UploadIds
         /\ expires' \in [UploadIds -> Nat]
         /\ \A v \in UploadIds : v <= uploads => expires'[v] = expires[v]
         /\ live' = [p \in StampKinds |-> IF p \in them THEN uploads + 1 ELSE live[p]]
         /\ revoked' = {row \in revoked : row[1] \notin them}
         /\ live' \in [StampKinds -> Nat] /\ \A p \in StampKinds : live'[p] <= uploads'
         /\ revoked' \subseteq Uploaded /\ uploads' \in 0..LastVersion
<1>1. /\ uploads \in Int /\ uploads' = uploads + 1 /\ uploads' \in UploadIds
      /\ uploads' \in 0..LastVersion
  BY DEF Insert, ResponseTypes, UploadIds, ResponseConstants
<1>2. PICK life \in {0, 1} : expires' = [expires EXCEPT ![uploads + 1] = now + life]
  BY DEF Insert
<1>3. expires' \in [UploadIds -> Nat]
  <2>1. PICK ends : ends = now + life
    OBVIOUS
  <2>2. ends \in Nat
    BY <1>2, <2>1 DEF ResponseTypes
  <2> QED BY <1>2, <2>1, <2>2 DEF ResponseTypes
<1>4. \A v \in UploadIds : v <= uploads => expires'[v] = expires[v]
  BY <1>1, <1>2 DEF ResponseTypes
<1>5. /\ live' = [p \in StampKinds |-> IF p \in them THEN uploads + 1 ELSE live[p]]
      /\ revoked' = {row \in revoked : row[1] \notin them}
  BY DEF Insert, Replace
<1>6. live' \in [StampKinds -> Nat] /\ \A p \in StampKinds : live'[p] <= uploads'
  BY <1>1, <1>5 DEF ResponseTypes
<1> QED BY <1>1, <1>3, <1>4, <1>5, <1>6 DEF ResponseTypes

(* A score stays good while uploads are added.                             *)
LEMMA GoodStays ==
  ASSUME ResponseConstants, ResponseTypes, NEW s \in ScoreRow \cup {NoScore}, GoodScore(s),
         uploads \in Int, uploads' \in Int, uploads <= uploads',
         \A v \in UploadIds : v <= uploads => expires'[v] = expires[v]
  PROVE  s # NoScore =>
           \A row \in s.counted : row[2] <= uploads' /\ s.expires <= expires'[row[2]]
<1>1. ASSUME s # NoScore, NEW row \in s.counted
      PROVE  row[2] <= uploads' /\ s.expires <= expires'[row[2]]
  <2>1. row[2] \in UploadIds /\ row[2] <= uploads /\ s.expires <= expires[row[2]]
    BY <1>1 DEF GoodScore, ScoreRow, Uploaded
  <2>2. PICK v \in UploadIds : v = row[2]
    BY <2>1
  <2>3. v \in Int /\ v <= uploads /\ expires'[v] = expires[v]
    BY <2>1, <2>2 DEF UploadIds
  <2> QED BY <2>1, <2>2, <2>3
<1> QED BY <1>1

(* What the now and others do keeps the invariant.                       *)
LEMMA OthersStep ==
  ASSUME ResponseConstants, ResponseInv,
         \/ Tick \/ OthersDelete \/ OthersInsert \/ OthersRevoke
         \/ OthersCompute \/ OthersSave
  PROVE  ResponseInv'
<1>0. ResponseTypes /\ ResponseTypes'
  BY OthersTypes DEF ResponseInv
<1>1. /\ ResponseTypes /\ ResponseTypes' /\ UNCHANGED <<request, began>>
      /\ GoodScore(saved) /\ GoodScore(elsewhere)
      /\ saved \in ScoreRow \cup {NoScore} /\ elsewhere \in ScoreRow \cup {NoScore}
      /\ uploads \in Int /\ now \in Int /\ live \in [StampKinds -> Nat]
  BY <1>0
  DEF ResponseInv, ResponseTypes, AnswerInv, Tick, OthersDelete, OthersInsert, OthersRevoke,
      OthersCompute, OthersSave
<1>2. CASE Tick
  <2>1. GoodScore(saved)' /\ GoodScore(elsewhere)'
    BY <1>1, <1>2 DEF Tick, GoodScore
  <2> QED BY <1>1, <1>2, <2>1, OthersGoOn DEF Tick
<1>3. CASE OthersDelete
  <2>1. PICK p \in StampKinds : Replace({p}, 0) /\ changed' = changed \cup {p}
    BY <1>3 DEF OthersDelete
  <2>2. UNCHANGED <<expires, uploads, now, saved, elsewhere>>
    BY <1>3 DEF OthersDelete
  <2>3. GoodScore(saved)' /\ GoodScore(elsewhere)'
    BY <1>1, <2>2 DEF GoodScore
  <2>4. \A q \in StampKinds \ changed' :
          /\ live'[q] = live[q]
          /\ \A v \in UploadIds : <<q, v>> \in revoked' <=> <<q, v>> \in revoked
    BY <2>1 DEF Replace
  <2>5. uploads <= uploads' /\ now <= now' /\ changed \subseteq changed'
    BY <1>1, <2>1, <2>2
  <2> QED BY <1>1, <2>2, <2>3, <2>4, <2>5, OthersGoOn
<1>4. CASE OthersInsert
  <2>1. PICK p \in StampKinds : Insert({p}) /\ changed' = changed \cup {p}
    BY <1>4 DEF OthersInsert
  <2>2. PICK them \in SUBSET StampKinds : them = {p}
    OBVIOUS
  <2>3. /\ uploads' = uploads + 1
        /\ \A v \in UploadIds : v <= uploads => expires'[v] = expires[v]
        /\ live' = [q \in StampKinds |-> IF q \in them THEN uploads + 1 ELSE live[q]]
        /\ revoked' = {row \in revoked : row[1] \notin them}
    BY <1>1, <2>1, <2>2, InsertIs
  <2>4. \A q \in StampKinds \ changed' :
          /\ live'[q] = live[q]
          /\ \A v \in UploadIds : <<q, v>> \in revoked' <=> <<q, v>> \in revoked
    BY <2>1, <2>2, <2>3
  <2>5. UNCHANGED <<now, saved, elsewhere>>
    BY <1>4 DEF OthersInsert
  <2>6. uploads <= uploads' /\ uploads' \in Int /\ now <= now' /\ changed \subseteq changed'
    BY <1>1, <2>1, <2>3, <2>5
  <2>7. GoodScore(saved)' /\ GoodScore(elsewhere)'
    BY <1>1, <2>3, <2>5, <2>6, GoodStays DEF GoodScore
  <2> QED BY <1>1, <2>3, <2>4, <2>6, <2>7, OthersGoOn
<1>5. CASE OthersRevoke
  <2>1. PICK row \in Rows \ revoked :
          revoked' = revoked \cup {row} /\ changed' = changed \cup {row[1]}
    BY <1>5 DEF OthersRevoke
  <2>2. UNCHANGED <<live, expires, uploads, now, saved, elsewhere>>
    BY <1>5 DEF OthersRevoke
  <2>3. GoodScore(saved)' /\ GoodScore(elsewhere)'
    BY <1>1, <2>2 DEF GoodScore
  <2>4. \A q \in StampKinds \ changed' :
          /\ live'[q] = live[q]
          /\ \A v \in UploadIds : <<q, v>> \in revoked' <=> <<q, v>> \in revoked
    <3>1. ASSUME NEW q \in StampKinds \ changed', NEW v \in UploadIds PROVE <<q, v>> # row
      BY <2>1, <3>1
    <3> QED BY <2>1, <2>2, <3>1
  <2>5. uploads <= uploads' /\ now <= now' /\ changed \subseteq changed'
    BY <1>1, <2>1, <2>2
  <2> QED BY <1>1, <2>2, <2>3, <2>4, <2>5, OthersGoOn
<1>6. CASE OthersCompute
  <2>1. PICK rust \in BOOLEAN : elsewhere' = ScoreNow(rust)
    BY <1>6 DEF OthersCompute
  <2>2. UNCHANGED <<live, expires, uploads, revoked, now, saved, changed>>
    BY <1>6 DEF OthersCompute
  <2>3. PICK s : s = ScoreNow(rust)
    OBVIOUS
  <2>4. GoodScore(s)
    BY <1>1, <2>3, ScoreIs
  <2>5. GoodScore(saved)' /\ GoodScore(elsewhere)'
    BY <1>1, <2>1, <2>2, <2>3, <2>4 DEF GoodScore
  <2> QED BY <1>1, <2>2, <2>5, OthersGoOn
<1>7. CASE OthersSave
  <2>1. /\ UNCHANGED <<live, expires, uploads, revoked, now, changed>>
        /\ saved' = elsewhere /\ elsewhere' = NoScore
    BY <1>7 DEF OthersSave
  <2>2. GoodScore(saved)' /\ GoodScore(elsewhere)'
    BY <1>1, <2>1 DEF GoodScore
  <2> QED BY <1>1, <2>1, <2>2, OthersGoOn
<1> QED BY <1>2, <1>3, <1>4, <1>5, <1>6, <1>7

(* Which step is the first.                                                *)
LEMMA FirstSteps ==
  ASSUME NEW h \in Handlers
  PROVE  /\ FirstStep[h] \in {"delete", "score", "show", "look"}
         /\ FirstStep[h] = "delete" <=> h \in Adding
         /\ FirstStep[h] = "score" <=> h = "get"
         /\ FirstStep[h] = "show" <=> h = "rust_get"
         /\ FirstStep[h] = "look" <=> h \in {"ui", "stamps"}
<1>1. CASE h \in Adding
  <2>1. FirstStep[h] = "delete"
    BY <1>1 DEF FirstStep, Adding, Handlers
  <2> QED BY <1>1, <2>1 DEF Adding
<1>2. CASE h = "get"
  <2>1. FirstStep[h] = "score"
    BY <1>2 DEF FirstStep, Adding, Handlers
  <2> QED BY <1>2, <2>1 DEF Adding
<1>3. CASE h = "rust_get"
  <2>1. FirstStep[h] = "show"
    BY <1>3 DEF FirstStep, Adding, Handlers
  <2> QED BY <1>3, <2>1 DEF Adding
<1>4. CASE h \in {"ui", "stamps"}
  <2>1. FirstStep[h] = "look"
    BY <1>4 DEF FirstStep, Adding, Handlers
  <2> QED BY <1>4, <2>1 DEF Adding
<1> QED BY <1>1, <1>2, <1>3, <1>4 DEF Handlers, Adding

(* A request comes.                                                        *)
LEMMA ReceiveStep ==
  ASSUME ResponseConstants, ResponseInv, Receive
  PROVE  ResponseInv'
<1>1. PICK h \in Handlers, added \in SUBSET StampKinds :
        request' = [NoRequest EXCEPT !.handler = h, !.step = FirstStep[h], !.added = added]
  BY DEF Receive
<1>2. /\ began' = now /\ UNCHANGED <<live, expires, uploads, revoked, now, saved, elsewhere>>
      /\ ResponseTypes /\ GoodScore(saved) /\ GoodScore(elsewhere)
  BY DEF Receive, ResponseInv, AnswerInv
<1>3. PICK first : first = FirstStep[h]
  OBVIOUS
<1>4. /\ first \in {"delete", "score", "show", "look"}
      /\ first = "delete" <=> h \in Adding
      /\ first = "score" <=> h = "get"
      /\ first = "show" <=> h = "rust_get"
      /\ first = "look" <=> h \in {"ui", "stamps"}
  BY <1>3, FirstSteps
<1>5. request' = [handler |-> h, step |-> first, added |-> added, shown |-> {},
                  score |-> NoScore]
  BY <1>1, <1>3 DEF NoRequest
<1>6. request' \in RequestRow
  BY <1>4, <1>5 DEF RequestRow, RequestSteps
<1>7. ResponseTypes'
  BY <1>2, <1>4, <1>5, <1>6 DEF ResponseTypes
<1>8. GoodScore(saved)' /\ GoodScore(elsewhere)'
  BY <1>2 DEF GoodScore
<1>9. request'.handler = h /\ request'.step = first
  BY <1>5
<1>10. ~HasAdded' /\ ~HasShown' /\ ~HasScored'
  BY <1>4, <1>9 DEF HasAdded, HasShown, HasScored, Adding
<1> QED BY <1>7, <1>8, <1>10 DEF ResponseInv, AnswerInv

(* A request ends, and the next may come.                                  *)
LEMMA RequestEnds ==
  ASSUME ResponseConstants, ResponseInv, request' = NoRequest,
         UNCHANGED <<live, expires, uploads, revoked, now, saved, elsewhere, began>>
  PROVE  ResponseInv'
<1>1. /\ ResponseTypes /\ GoodScore(saved) /\ GoodScore(elsewhere)
      /\ request'.handler = "none" /\ request'.step = "ready"
      /\ request' \in RequestRow
  BY DEF ResponseInv, AnswerInv, NoRequest, RequestRow, RequestSteps
<1>2. ResponseTypes'
  BY <1>1 DEF ResponseTypes
<1>3. GoodScore(saved)' /\ GoodScore(elsewhere)'
  BY <1>1 DEF GoodScore
<1>4. ~HasAdded' /\ ~HasShown' /\ ~HasScored'
  BY <1>1 DEF HasAdded, HasShown, HasScored
<1> QED BY <1>2, <1>3, <1>4 DEF ResponseInv, AnswerInv

(* The rows of a request are deleted.                                      *)
LEMMA DeleteOwnStep ==
  ASSUME ResponseConstants, ResponseInv, DeleteOwn
  PROVE  ResponseInv'
<1>1. /\ Replace(request.added, 0) /\ request' = [request EXCEPT !.step = "create"]
      /\ UNCHANGED <<expires, uploads, now, saved, elsewhere, began, changed>>
      /\ ResponseTypes /\ GoodScore(saved) /\ GoodScore(elsewhere)
  BY DEF DeleteOwn, Then, ResponseInv, AnswerInv
<1>2. /\ live' \in [StampKinds -> Nat] /\ \A q \in StampKinds : live'[q] <= uploads
      /\ revoked' \subseteq Uploaded
  BY <1>1 DEF Replace, ResponseTypes, ResponseConstants
<1>3. request' \in RequestRow /\ request'.step = "create"
  BY <1>1 DEF ResponseTypes, RequestRow, RequestSteps
<1>4. ResponseTypes'
  BY <1>1, <1>2, <1>3 DEF ResponseTypes
<1>5. GoodScore(saved)' /\ GoodScore(elsewhere)'
  BY <1>1 DEF GoodScore
<1>6. ~HasAdded' /\ ~HasShown' /\ ~HasScored'
  BY <1>3 DEF HasAdded, HasShown, HasScored
<1> QED BY <1>4, <1>5, <1>6 DEF ResponseInv, AnswerInv

(* The rows of a request are inserted.                                     *)
LEMMA OwnInserted ==
  ASSUME ResponseConstants, ResponseInv, Insert(request.added),
         UNCHANGED <<now, saved, elsewhere, began, changed>>,
         \/ /\ request.handler = "add"
            /\ request' = [request EXCEPT !.step = "show"]
         \/ /\ request.handler = "rust_add"
            /\ request' = [request EXCEPT !.step = "score"]
  PROVE  ResponseInv'
<1>1. ResponseTypes /\ GoodScore(saved) /\ GoodScore(elsewhere)
  BY DEF ResponseInv, AnswerInv
<1>2. PICK them \in SUBSET StampKinds : them = request.added
  BY <1>1 DEF ResponseTypes, RequestRow
<1>3. Insert(them)
  BY <1>2
<1>4. /\ uploads' = uploads + 1 /\ uploads' \in UploadIds
      /\ expires' \in [UploadIds -> Nat]
      /\ \A v \in UploadIds : v <= uploads => expires'[v] = expires[v]
      /\ live' = [p \in StampKinds |-> IF p \in them THEN uploads + 1 ELSE live[p]]
      /\ revoked' = {row \in revoked : row[1] \notin them}
      /\ live' \in [StampKinds -> Nat] /\ \A p \in StampKinds : live'[p] <= uploads'
      /\ revoked' \subseteq Uploaded /\ uploads' \in 0..LastVersion
  BY <1>1, <1>3, InsertIs
<1>5. /\ request' \in RequestRow /\ request'.added = them
      /\ request'.handler = request.handler
      /\ \/ request'.handler = "add" /\ request'.step = "show"
         \/ request'.handler = "rust_add" /\ request'.step = "score"
  BY <1>1, <1>2 DEF ResponseTypes, RequestRow, RequestSteps
<1>6. ResponseTypes'
  BY <1>1, <1>4, <1>5 DEF ResponseTypes, Handlers
<1>7. GoodScore(saved)' /\ GoodScore(elsewhere)'
  <2>1. uploads \in Int /\ uploads' \in Int /\ uploads <= uploads'
    BY <1>1, <1>4 DEF ResponseTypes
  <2>2. saved \in ScoreRow \cup {NoScore} /\ elsewhere \in ScoreRow \cup {NoScore}
    BY <1>1 DEF ResponseTypes
  <2> QED BY <1>1, <1>4, <2>1, <2>2, GoodStays DEF GoodScore
<1>8. ~HasShown' /\ ~HasScored'
  BY <1>5 DEF HasShown, HasScored
<1>9. \A p \in them : There(p, live[p])' /\ <<p, live'[p]>> \notin revoked'
  <2>1. uploads + 1 # 0
    BY <1>1 DEF ResponseTypes
  <2> QED BY <1>2, <1>4, <2>1 DEF There
<1> QED BY <1>5, <1>6, <1>7, <1>8, <1>9 DEF ResponseInv, AnswerInv

(* The rows are looked up that the answer shows.                           *)
LEMMA ShowStep ==
  ASSUME ResponseConstants, ResponseInv, Show
  PROVE  ResponseInv'
<1>1. PICK next : next = IF request.handler \in {"add", "rust_get"} THEN "score" ELSE "answer"
  OBVIOUS
<1>2. PICK rows : rows = Rows \ revoked
  OBVIOUS
<1>3. /\ request' = [request EXCEPT !.shown = rows, !.step = next]
      /\ UNCHANGED <<live, expires, uploads, revoked, now, saved, elsewhere, began, changed>>
      /\ ResponseTypes /\ AnswerInv
      /\ request.step = "show" /\ request.handler \in Handlers \ {"ui"}
  BY <1>1, <1>2 DEF Show, ResponseInv, ResponseTypes
<1>4. rows \subseteq Uploaded
  BY <1>2, <1>3, RowsAre
<1>5. request \in RequestRow
  BY <1>3 DEF ResponseTypes
<1>6. /\ request'.step = next /\ request'.shown = rows
      /\ request'.handler = request.handler /\ request'.added = request.added
      /\ request'.score = request.score
  BY <1>3, <1>5 DEF RequestRow
<1>7. request' \in RequestRow
  BY <1>1, <1>3, <1>4, <1>5 DEF RequestRow, RequestSteps
<1>8. ResponseTypes'
  BY <1>1, <1>3, <1>6, <1>7 DEF ResponseTypes
<1>9. GoodScore(saved)' /\ GoodScore(elsewhere)'
  BY <1>3 DEF GoodScore, AnswerInv
<1>10. /\ (IsRust' <=> IsRust) /\ (Both' <=> Both)
       /\ HasAdded' => HasAdded
       /\ HasScored' /\ request.handler # "stamps" => HasScored
  BY <1>1, <1>3, <1>6 DEF IsRust, Both, HasAdded, HasScored, Handlers
<1>11. HasScored' /\ request'.handler # "stamps" =>
         /\ request'.score # NoScore
         /\ \A row \in request'.score.counted :
              row[2] <= uploads' /\ expires'[row[2]] >= began'
  BY <1>3, <1>6, <1>10 DEF AnswerInv
<1>12. HasAdded' => \A p \in request'.added \ changed' :
         There(p, live[p])' /\ <<p, live'[p]>> \notin revoked'
  BY <1>3, <1>6, <1>10 DEF AnswerInv, There
<1>13. \A p \in StampKinds, v \in UploadIds : <<p, v>> \in rows <=> Takes(FALSE, p, v)'
  BY <1>2, <1>3, RowsAre DEF Takes, There
<1>14. HasScored' /\ Both' => \A p \in StampKinds \ changed', v \in UploadIds :
         /\ <<p, v>> \in request'.score.counted => Takes(IsRust, p, v)'
         /\ Takes(IsRust, p, v)' => \/ <<p, v>> \in request'.score.counted
                                    \/ expires'[v] < now'
  <2>1. HasScored' /\ Both' => HasScored /\ Both
    BY <1>10 DEF Both
  <2>2. \A p \in StampKinds, v \in UploadIds : Takes(IsRust, p, v)' <=> Takes(IsRust, p, v)
    BY <1>3, <1>10 DEF Takes, There
  <2> QED BY <1>3, <1>6, <2>1, <2>2 DEF AnswerInv
<1> QED BY <1>6, <1>8, <1>9, <1>11, <1>12, <1>13, <1>14 DEF ResponseInv, AnswerInv

(* The score is computed and saved.                                        *)
LEMMA ComputeScoreStep ==
  ASSUME ResponseConstants, ResponseInv, ComputeScore
  PROVE  ResponseInv'
<1>1. PICK next : next = IF request.handler \in {"get", "rust_add", "stamps"} THEN "show"
                         ELSE "answer"
  OBVIOUS
<1>2. PICK rust \in BOOLEAN : rust <=> IsRust
  OBVIOUS
<1>3. PICK s : s = ScoreNow(rust)
  OBVIOUS
<1>4. ScoreNow(IsRust) = s
  BY <1>2, <1>3 DEF ScoreNow, Countable
<1>5. /\ saved' = s /\ request' = [request EXCEPT !.score = s, !.step = next]
      /\ UNCHANGED <<live, expires, uploads, revoked, now, elsewhere, began, changed>>
      /\ ResponseTypes /\ AnswerInv /\ request.step = "score"
  BY <1>1, <1>4 DEF ComputeScore, ResponseInv
<1>6. /\ s \in ScoreRow /\ s # NoScore /\ GoodScore(s)
      /\ \A row \in s.counted : row[2] <= uploads /\ expires[row[2]] >= began
      /\ \A p \in StampKinds, v \in UploadIds :
           <<p, v>> \in s.counted <=> Takes(rust, p, v) /\ expires[v] >= now
  BY <1>3, <1>5, ScoreIs
<1>7. request \in RequestRow
  BY <1>5 DEF ResponseTypes
<1>8. /\ request'.step = next /\ request'.score = s
      /\ request'.handler = request.handler /\ request'.added = request.added
      /\ request'.shown = request.shown
  BY <1>5, <1>7 DEF RequestRow
<1>9. request' \in RequestRow
  BY <1>1, <1>5, <1>6, <1>7 DEF RequestRow, RequestSteps
<1>10. ResponseTypes'
  BY <1>1, <1>5, <1>6, <1>8, <1>9 DEF ResponseTypes, Handlers
<1>11. GoodScore(saved)' /\ GoodScore(elsewhere)'
  BY <1>5, <1>6 DEF GoodScore, AnswerInv
<1>12. /\ (IsRust' <=> IsRust) /\ (Both' <=> Both)
       /\ HasAdded' => HasAdded
       /\ HasShown' /\ Both' => HasShown
  BY <1>1, <1>5, <1>8 DEF IsRust, Both, HasAdded, HasShown
<1>13. HasAdded' => \A p \in request'.added \ changed' :
         There(p, live[p])' /\ <<p, live'[p]>> \notin revoked'
  BY <1>5, <1>8, <1>12 DEF AnswerInv, There
<1>14. HasShown' /\ Both' => \A p \in StampKinds \ changed', v \in UploadIds :
         <<p, v>> \in request'.shown <=> Takes(FALSE, p, v)'
  BY <1>5, <1>8, <1>12 DEF AnswerInv, Takes, There
<1>15. \A p \in StampKinds, v \in UploadIds :
         /\ <<p, v>> \in s.counted => Takes(IsRust, p, v)'
         /\ Takes(IsRust, p, v)' => <<p, v>> \in s.counted \/ expires'[v] < now'
  <2>1. ASSUME NEW p \in StampKinds, NEW v \in UploadIds
        PROVE  /\ <<p, v>> \in s.counted => Takes(IsRust, p, v)'
               /\ Takes(IsRust, p, v)' => <<p, v>> \in s.counted \/ expires'[v] < now'
    <3>1. Takes(IsRust, p, v)' <=> Takes(rust, p, v)
      BY <1>2, <1>5, <1>12 DEF Takes, There
    <3>2. expires[v] \in Int /\ now \in Int
      BY <1>5 DEF ResponseTypes
    <3> QED BY <1>5, <1>6, <3>1, <3>2
  <2> QED BY <2>1
<1> QED BY <1>5, <1>6, <1>8, <1>10, <1>11, <1>13, <1>14, <1>15 DEF ResponseInv, AnswerInv

(* The stored score is looked up.                                          *)
LEMMA LookUpStep ==
  ASSUME ResponseConstants, ResponseInv, LookUp
  PROVE  ResponseInv'
<1>1. /\ UNCHANGED <<live, expires, uploads, revoked, now, saved, elsewhere, began, changed>>
      /\ ResponseTypes /\ GoodScore(saved) /\ GoodScore(elsewhere)
      /\ request.handler \in {"ui", "stamps"} /\ request \in RequestRow
  BY DEF LookUp, ResponseInv, AnswerInv, ResponseTypes
<1>2. GoodScore(saved)' /\ GoodScore(elsewhere)'
  BY <1>1 DEF GoodScore
<1>3. CASE request.handler = "ui" /\ (saved = NoScore \/ saved.expires < now)
  <2>1. request' = [request EXCEPT !.step = "score"]
    BY <1>3 DEF LookUp
  <2>2. request' \in RequestRow /\ request'.step = "score" /\ request'.handler = "ui"
    BY <1>1, <1>3, <2>1 DEF RequestRow, RequestSteps
  <2>3. ~HasAdded' /\ ~HasShown' /\ ~HasScored'
    BY <2>2 DEF HasAdded, HasShown, HasScored
  <2>4. ResponseTypes'
    BY <1>1, <2>2 DEF ResponseTypes
  <2> QED BY <1>2, <2>3, <2>4 DEF ResponseInv, AnswerInv
<1>4. CASE request.handler = "ui" /\ saved # NoScore /\ ~(saved.expires < now)
  <2>1. request' = [request EXCEPT !.score = saved, !.step = "answer"]
    BY <1>4 DEF LookUp
  <2>2. request' \in RequestRow
    BY <1>1, <2>1 DEF RequestRow, RequestSteps, ResponseTypes
  <2>3. request'.step = "answer" /\ request'.handler = "ui" /\ request'.score = saved
    BY <1>1, <1>4, <2>1 DEF RequestRow
  <2>4. ~HasAdded' /\ ~Both'
    BY <2>3 DEF HasAdded, Both
  <2>5. ResponseTypes'
    BY <1>1, <2>2, <2>3 DEF ResponseTypes
  <2>6. \A row \in saved.counted : row[2] <= uploads /\ expires[row[2]] >= began
    <3>1. saved \in ScoreRow
      BY <1>1, <1>4 DEF ResponseTypes
    <3>2. ASSUME NEW row \in saved.counted PROVE row[2] <= uploads /\ expires[row[2]] >= began
      <4>1. row[2] \in UploadIds /\ row[2] <= uploads /\ saved.expires <= expires[row[2]]
        BY <1>1, <1>4, <3>1 DEF GoodScore, ScoreRow, Uploaded
      <4>2. expires[row[2]] \in Int /\ now \in Int /\ began \in Int /\ began <= now
        BY <1>1, <4>1 DEF ResponseTypes
      <4>3. saved.expires \in Int
        BY <3>1 DEF ScoreRow
      <4> QED BY <1>4, <4>1, <4>2, <4>3
    <3> QED BY <3>2
  <2> QED BY <1>1, <1>2, <1>4, <2>3, <2>4, <2>5, <2>6 DEF ResponseInv, AnswerInv
<1>5. CASE request.handler = "stamps"
  <2>1. PICK next \in {"score", "show"} : request' = [request EXCEPT !.step = next]
    BY <1>5 DEF LookUp
  <2>2. request' \in RequestRow /\ request'.step = next /\ request'.handler = "stamps"
    BY <1>1, <1>5, <2>1 DEF RequestRow, RequestSteps
  <2>3. ~HasAdded' /\ ~HasShown' /\ ~HasScored'
    BY <2>1, <2>2 DEF HasAdded, HasShown, HasScored
  <2>4. ResponseTypes'
    BY <1>1, <2>1, <2>2 DEF ResponseTypes, Handlers
  <2> QED BY <1>2, <2>3, <2>4 DEF ResponseInv, AnswerInv
<1> QED BY <1>1, <1>3, <1>4, <1>5

(* Every step keeps the invariant.                                         *)
LEMMA ResponseStep ==
  ASSUME ResponseConstants, ResponseInv, [ResponseNext]_responseVars
  PROVE  ResponseInv'
<1>1. CASE \/ Tick \/ OthersDelete \/ OthersInsert \/ OthersRevoke
           \/ OthersCompute \/ OthersSave
  BY <1>1, OthersStep
<1>2. CASE Receive
  BY <1>2, ReceiveStep
<1>3. CASE DeleteOwn
  BY <1>3, DeleteOwnStep
<1>4. CASE CreateOwn
  <2>1. CASE \E p \in request.added : live[p] # 0
    BY <1>4, <2>1, RequestEnds DEF CreateOwn
  <2>2. CASE ~\E p \in request.added : live[p] # 0
    BY <1>4, <2>2, OwnInserted DEF CreateOwn, At, Then
  <2> QED BY <2>1, <2>2
<1>5. CASE ReplaceOwn
  BY <1>5, OwnInserted DEF ReplaceOwn, At, Then
<1>6. CASE Show
  BY <1>6, ShowStep
<1>7. CASE ComputeScore
  BY <1>7, ComputeScoreStep
<1>8. CASE LookUp
  BY <1>8, LookUpStep
<1>9. CASE SendAnswer \/ FailRequest
  BY <1>9, RequestEnds DEF SendAnswer, FailRequest
<1>10. CASE UNCHANGED responseVars
  BY <1>10
  DEF responseVars, ResponseInv, ResponseTypes, AnswerInv, GoodScore, HasAdded, HasShown,
      HasScored, Both, There, Takes, IsRust
<1> QED
  BY <1>1, <1>2, <1>3, <1>4, <1>5, <1>6, <1>7, <1>8, <1>9, <1>10 DEF ResponseNext

(* The invariant holds in every state.                                     *)
LEMMA ResponseInvariance ==
  ASSUME ResponseConstants
  PROVE  ResponseSpec => []ResponseInv
<1>1. ASSUME ResponseInit PROVE ResponseInv
  <2>1. request = NoRequest /\ request.step = "ready" /\ request \in RequestRow
    BY <1>1 DEF ResponseInit, NoRequest, RequestRow, RequestSteps
  <2>2. ResponseTypes
    BY <1>1, <2>1 DEF ResponseInit, ResponseTypes, ResponseConstants
  <2>3. ~HasAdded /\ ~HasShown /\ ~HasScored
    BY <2>1 DEF HasAdded, HasShown, HasScored
  <2>4. GoodScore(saved) /\ GoodScore(elsewhere)
    BY <1>1 DEF ResponseInit, GoodScore
  <2> QED BY <2>2, <2>3, <2>4 DEF ResponseInv, AnswerInv
<1>2. ASSUME ResponseInv, [ResponseNext]_responseVars PROVE ResponseInv'
  BY <1>2, ResponseStep
<1> QED BY <1>1, <1>2, PTL DEF ResponseSpec

(* The stamps of an answer are those its score counts, as far as nobody    *)
(* else changed them between the two reads of the handler.                 *)
THEOREM FitTheorem ==
  ASSUME ResponseConstants
  PROVE  ResponseSpec => []AnswersFit
<1>1. ASSUME ResponseInv PROVE AnswersFit
  <2>1. ASSUME Answering({"add", "get", "rust_add", "rust_get"}),
               NEW p \in StampKinds, NEW v \in UploadIds, p \notin changed
        PROVE  /\ <<p, v>> \in request.shown \ request.score.counted => expires[v] < now
               /\ <<p, v>> \in request.score.counted \ request.shown
                    => IsRust /\ <<p, v>> \in revoked
    <3>1. HasShown /\ HasScored /\ Both
      BY <2>1 DEF Answering, At, HasShown, HasScored, Both
    <3>2. /\ <<p, v>> \in request.shown <=> Takes(FALSE, p, v)
          /\ <<p, v>> \in request.score.counted => Takes(IsRust, p, v)
          /\ Takes(IsRust, p, v) => <<p, v>> \in request.score.counted \/ expires[v] < now
      BY <1>1, <2>1, <3>1 DEF ResponseInv, AnswerInv
    <3> QED BY <3>2 DEF Takes
  <2> QED BY <2>1 DEF AnswersFit
<1> QED BY <1>1, ResponseInvariance, PTL

(* Who adds stamps is shown them, and they count unless they expired,      *)
(* whatever others do to the stamps of other providers.                    *)
THEOREM AddsTheorem ==
  ASSUME ResponseConstants
  PROVE  ResponseSpec => []AddsAreAnswered
<1>1. ASSUME ResponseInv PROVE AddsAreAnswered
  <2>1. ASSUME Answering(Adding), NEW p \in request.added \ changed
        PROVE  /\ <<p, live[p]>> \in request.shown
               /\ \/ <<p, live[p]>> \in request.score.counted
                  \/ expires[live[p]] < now
    <3>1. HasAdded /\ HasShown /\ HasScored /\ Both
      BY <2>1 DEF Answering, At, Adding, HasAdded, HasShown, HasScored, Both
    <3>2. There(p, live[p]) /\ <<p, live[p]>> \notin revoked
      BY <1>1, <2>1, <3>1 DEF ResponseInv, AnswerInv
    <3>3. p \in StampKinds \ changed
      BY <1>1, <2>1 DEF ResponseInv, ResponseTypes, RequestRow
    <3>4. live[p] \in UploadIds
      BY <1>1, <3>2, <3>3 DEF There, UploadIds, ResponseInv, ResponseTypes, ResponseConstants
    <3>5. PICK v \in UploadIds : v = live[p]
      BY <3>4
    <3>6. Takes(FALSE, p, v) /\ Takes(IsRust, p, v)
      BY <3>2, <3>5 DEF Takes
    <3>7. /\ <<p, v>> \in request.shown <=> Takes(FALSE, p, v)
          /\ Takes(IsRust, p, v) => <<p, v>> \in request.score.counted \/ expires[v] < now
      BY <1>1, <3>1, <3>3 DEF ResponseInv, AnswerInv
    <3> QED BY <3>5, <3>6, <3>7
  <2> QED BY <2>1 DEF AddsAreAnswered
<1> QED BY <1>1, ResponseInvariance, PTL

(* No score that is answered counts a stamp that had expired before it was *)
(* asked for, stored or not, and whichever worker stored it.               *)
THEOREM CurrentTheorem ==
  ASSUME ResponseConstants
  PROVE  ResponseSpec => []ScoresAreCurrent
<1>1. ASSUME ResponseInv PROVE ScoresAreCurrent
  <2>1. ASSUME Answering(Handlers \ {"stamps"})
        PROVE  \A row \in request.score.counted : expires[row[2]] >= began
    <3>1. HasScored /\ request.handler # "stamps"
      BY <2>1 DEF Answering, At, HasScored
    <3> QED BY <1>1, <3>1 DEF ResponseInv, AnswerInv
  <2> QED BY <2>1 DEF ScoresAreCurrent
<1> QED BY <1>1, ResponseInvariance, PTL
=============================================================================
