------------------------------- MODULE Logins -------------------------------
(***************************************************************************)
(* Messages that are signed with a nonce and given back: the login of a    *)
(* developer (account/api.py), the login to the ceramic cache              *)
(* (ceramic_cache/api/v1.py), a passport submitted with a signature        *)
(* (registry/api/v1.py) and the terms of service (tos/models.py).  All use *)
(* one table of nonces; every ORM call commits by itself.                  *)
(***************************************************************************)
EXTENDS Integers, FiniteSets

CONSTANTS
  Clients,     \* the requests that are served at a time
  People,      \* the addresses that sign
  Nonces,
  Versions,    \* final texts of the terms of service
  Nobody

VARIABLES
  nonces,      \* Nonce: whether each is not issued, fresh, expired or used
  signed,      \* the messages that were handed out and signed
  terms,       \* the active text of the terms, or Nobody
  accounts,    \* how many Account rows each address has
  proofs,      \* TosAcceptanceProof
  at,          \* the step each request is at
  message,     \* the message it brings
  taken,       \* history: how often each nonce was taken
  twice        \* history: nonces, and addresses, that two requests were about
               \* to save at the same time

loginVars ==
  <<nonces, signed, terms, accounts, proofs, at, message, taken, twice>>

Kinds == {"account", "ceramic", "passport", "terms"}
Message == [kind: Kinds, who: People, nonce: Nonces,
            text: Versions \cup {Nobody}]
NoMessage == [kind |-> "none", who |-> Nobody, nonce |-> Nobody, text |-> Nobody]

(* Who a signature of another text than the one checked seems to be by.    *)
Stranger(m) == <<"stranger", m.nonce>>
Proof(address, text, nonce) ==
  [address |-> address, text |-> text, nonce |-> nonce]

LoginTypeOK ==
  /\ nonces \in [Nonces -> {"none", "fresh", "expired", "used"}]
  /\ signed \subseteq Message
  /\ \A m1, m2 \in signed : m1.nonce = m2.nonce => m1 = m2
  /\ terms \in Versions \cup {Nobody}
  /\ accounts \in [People -> 0..Cardinality(Clients)]
  /\ \A x \in proofs : x.text \in Versions /\ nonces[x.nonce] = "used"
  /\ at \in [Clients -> {"idle", "read", "save", "verify", "account", "create"}]
  /\ \A c \in Clients : at[c] = "idle" <=> message[c] = NoMessage

LoginInit ==
  /\ nonces = [n \in Nonces |-> "none"]
  /\ signed = {}
  /\ terms \in Versions
  /\ accounts = [a \in People |-> 0]
  /\ proofs = {}
  /\ at = [c \in Clients |-> "idle"]
  /\ message = [c \in Clients |-> NoMessage]
  /\ taken = [n \in Nonces |-> 0]
  /\ twice = {}

-----------------------------------------------------------------------------
(* create_nonce, and get_message_with_nonce, which puts the active terms   *)
(* around the nonce; the holder signs what it is given.                    *)
Sign ==
  /\ \E n \in Nonces, a \in People, k \in Kinds :
       /\ nonces[n] = "none"
       /\ k = "terms" => terms # Nobody
       /\ nonces' = [nonces EXCEPT ![n] = "fresh"]
       /\ signed' = signed \cup
            {[kind |-> k, who |-> a, nonce |-> n,
              text |-> IF k = "terms" THEN terms ELSE Nobody]}
  /\ UNCHANGED <<terms, accounts, proofs, at, message, taken, twice>>

(* Nonces of the two logins live five minutes, the others for ever.        *)
Expire ==
  /\ \E m \in signed :
       /\ m.kind \in {"account", "ceramic"}
       /\ nonces[m.nonce] = "fresh"
       /\ nonces' = [nonces EXCEPT ![m.nonce] = "expired"]
  /\ UNCHANGED <<signed, terms, accounts, proofs, at, message, taken, twice>>

(* make_active: the active terms are made inactive, then others active.    *)
ActivateTerms ==
  /\ IF terms = Nobody THEN terms' \in Versions ELSE terms' = Nobody
  /\ UNCHANGED <<nonces, signed, accounts, proofs, at, message, taken, twice>>

(* A message comes in, perhaps again.                                      *)
Submit(c) ==
  /\ at[c] = "idle"
  /\ \E m \in signed : message' = [message EXCEPT ![c] = m]
  /\ at' = [at EXCEPT ![c] = "read"]
  /\ UNCHANGED <<nonces, signed, terms, accounts, proofs, taken, twice>>

Answer(c) ==
  /\ at' = [at EXCEPT ![c] = "idle"]
  /\ message' = [message EXCEPT ![c] = NoMessage]

Continue(c, to) == at' = [at EXCEPT ![c] = to] /\ UNCHANGED message

(* Others that are at the step at which c is going to be, for the same x.  *)
Together(c, step, x, same(_)) ==
  IF \E d \in Clients \ {c} : at[d] = step /\ same(message[d])
  THEN twice \cup {x} ELSE twice

(* Plausible bug: use_nonce does not look at was_used.                     *)
ReadNonceUsed(c) ==
  LET n == message[c].nonce IN
  /\ at[c] = "read"
  /\ IF nonces[n] # "expired" THEN Continue(c, "save") ELSE Answer(c)
  /\ UNCHANGED <<nonces, signed, terms, accounts, proofs, taken, twice>>

(* validate_nonce.                                                         *)
ReadNonce(c) ==
  LET n == message[c].nonce
      SameNonce(m) == m.nonce = n IN
  /\ at[c] = "read"
  /\ \/ /\ nonces[n] = "fresh"
        /\ Continue(c, "save")
        /\ twice' = Together(c, "save", n, SameNonce)
     \/ nonces[n] # "fresh" /\ Answer(c) /\ UNCHANGED twice
  /\ UNCHANGED <<nonces, signed, terms, accounts, proofs, taken>>

(* use_nonce saves the row as it read it, with was_used.                   *)
SaveNonce(c) ==
  LET n == message[c].nonce IN
  /\ at[c] = "save"
  /\ nonces' = [nonces EXCEPT ![n] = "used"]
  /\ taken' = [taken EXCEPT ![n] = @ + 1]
  /\ Continue(c, "verify")
  /\ UNCHANGED <<signed, terms, accounts, proofs, twice>>

(* submit_signed_challenge: the signature is right.                        *)
Verified(c) ==
  /\ at[c] = "verify"
  /\ message[c].kind = "account"
  /\ Continue(c, "account")
  /\ UNCHANGED <<nonces, signed, terms, accounts, proofs, taken, twice>>

(* handle_authenticate_v2 gives a token out, and looks for no account.     *)
Authenticate(c) ==
  /\ at[c] = "verify"
  /\ message[c].kind = "ceramic"
  /\ Answer(c)
  /\ UNCHANGED <<nonces, signed, terms, accounts, proofs, taken, twice>>

(* ahandle_submit_passport, which has checked the signature before.        *)
SubmitPassport(c) ==
  /\ at[c] = "verify"
  /\ message[c].kind = "passport"
  /\ Answer(c)
  /\ UNCHANGED <<nonces, signed, terms, accounts, proofs, taken, twice>>

(* It is wrong, or cannot be checked (a contract's, on chain).             *)
VerificationFails(c) ==
  /\ at[c] = "verify"
  /\ message[c].kind \in {"account", "ceramic"}
  /\ Answer(c)
  /\ UNCHANGED <<nonces, signed, terms, accounts, proofs, taken, twice>>

(* TosAcceptanceProof.objects.get_or_create: unique by nonce, and by text  *)
(* and address; a violation by the nonce alone is an error.                *)
AddProof(x) ==
  proofs' = IF \E y \in proofs : \/ y.nonce = x.nonce
                                 \/ y.text = x.text /\ y.address = x.address
            THEN proofs ELSE proofs \cup {x}

AcceptWith(c, proof) ==
  /\ at[c] = "verify"
  /\ message[c].kind = "terms"
  /\ IF terms = Nobody THEN UNCHANGED proofs ELSE AddProof(proof)
  /\ Answer(c)
  /\ UNCHANGED <<nonces, signed, terms, accounts, taken, twice>>

(* Plausible bug: the address is taken from the signed text, and the terms *)
(* that are active now are recorded as accepted.                           *)
AcceptActive(c) ==
  AcceptWith(c, Proof(message[c].who, terms, message[c].nonce))

(* accept recovers the signer from the terms that are active now; where    *)
(* none are, it fails, with the nonce used.                                *)
AcceptTerms(c) ==
  LET m == message[c] IN
  AcceptWith(c, Proof(IF m.text = terms THEN m.who ELSE Stranger(m),
                      terms, m.nonce))

(* Plausible bug: an account is made for each login.                       *)
FindNoAccount(c) ==
  /\ at[c] = "account"
  /\ Continue(c, "create")
  /\ UNCHANGED <<nonces, signed, terms, accounts, proofs, taken, twice>>

(* Account.objects.get: one, none, or two, which is an error.              *)
FindAccount(c) ==
  LET a == message[c].who
      SameAddress(m) == m.who = a IN
  /\ at[c] = "account"
  /\ \/ /\ accounts[a] = 0
        /\ Continue(c, "create")
        /\ twice' = Together(c, "create", a, SameAddress)
     \/ accounts[a] > 0 /\ Answer(c) /\ UNCHANGED twice
  /\ UNCHANGED <<nonces, signed, terms, accounts, proofs, taken>>

(* Nothing makes the address of an account unique.                         *)
CreateAccount(c) ==
  /\ at[c] = "create"
  /\ accounts' = [accounts EXCEPT ![message[c].who] = @ + 1]
  /\ Answer(c)
  /\ UNCHANGED <<nonces, signed, terms, proofs, taken, twice>>

LoginNext ==
  \/ Sign \/ Expire \/ ActivateTerms
  \/ \E c \in Clients :
       \/ Submit(c) \/ ReadNonce(c) \/ SaveNonce(c)
       \/ Verified(c) \/ Authenticate(c) \/ SubmitPassport(c)
       \/ VerificationFails(c) \/ AcceptTerms(c)
       \/ FindAccount(c) \/ CreateAccount(c)

-----------------------------------------------------------------------------
(* A nonce lets one message in, whatever kind it is and however often it   *)
(* comes, but for requests that both read it before either saved it.       *)
NonceTakenOnce == \A n \in Nonces : taken[n] > 1 => n \in twice

(* An address has one account, which it can log in to, but for first       *)
(* logins that both looked for it before either created it.                *)
OneAccount == \A a \in People : accounts[a] > 1 => a \in twice

(* Who has accepted terms has signed these very terms, also when others    *)
(* became active between the signature and its acceptance.                 *)
ProofsAreSigned ==
  \A x \in proofs : x.address \in People =>
    \E m \in signed :
      m.kind = "terms" /\ m.who = x.address /\ m.text = x.text /\ m.nonce = x.nonce
=============================================================================
