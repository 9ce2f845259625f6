----------------------------- MODULE Credentials -----------------------------
(***************************************************************************)
(* Which credentials of an address reach deduplication: the loop of        *)
(* avalidate_credentials in Python (registry/atasks.py, registry/utils.py) *)
(* and of validate_credentials_batch in Rust                               *)
(* (rust-scorer/src/auth/credentials.rs).  They go through the credentials *)
(* one by one, and time passes while signatures are verified.              *)
(***************************************************************************)
EXTENDS Integers, Sequences

CONSTANTS
  Uploads,     \* what may be read from the cache: sequences of credentials
  LastTime,    \* bound on the clock
  NoDate, NoName

VARIABLES
  clock,
  check,       \* the loop: its program, credentials, next one and step
  kept,        \* the positions of the credentials it keeps
  started      \* history: when it started

credentialVars == <<clock, check, kept, started>>

NoCheck == [program |-> "none", credentials |-> <<>>, next |-> 1, step |-> "ready"]
Current == check.credentials[check.next]

CredentialTypeOK ==
  /\ clock \in 0..LastTime
  /\ check.program \in {"none", "python", "rust"}
  /\ check.step \in {"ready", "dates", "verify", "done", "error"}
  /\ check.next \in 1..(Len(check.credentials) + 1)
  /\ check.step \in {"dates", "verify"} =>
       check.next \in DOMAIN check.credentials
  /\ kept \subseteq 1..(check.next - 1)

CredentialInit ==
  /\ clock = 0
  /\ check = NoCheck
  /\ kept = {}
  /\ started = 0

-----------------------------------------------------------------------------
Wait ==
  /\ clock < LastTime
  /\ clock' = clock + 1
  /\ UNCHANGED <<check, kept, started>>

Begin ==
  /\ check = NoCheck
  /\ \E program \in {"python", "rust"}, credentials \in Uploads :
       check' = [program |-> program, credentials |-> credentials, next |-> 1,
                 step |-> IF credentials = <<>> THEN "done" ELSE "dates"]
  /\ kept' = {}
  /\ started' = clock
  /\ UNCHANGED clock

Advance ==
  [check EXCEPT !.next = @ + 1,
     !.step = IF check.next = Len(check.credentials) THEN "done" ELSE "dates"]
Skip == check' = Advance /\ UNCHANGED kept
Keep == check' = Advance /\ kept' = kept \cup {check.next}
EndWith(step) == check' = [check EXCEPT !.step = step] /\ UNCHANGED kept

IsChecked(program, step) == check.program = program /\ check.step = step

(* verify_issuer, and the date; a credential without one raises a KeyError *)
(* that ends the scoring, and the Score with an error.                     *)
PythonDates ==
  /\ IsChecked("python", "dates")
  /\ IF Current.expires = NoDate THEN EndWith("error")
     ELSE IF Current.expires < clock \/ ~Current.trusted THEN Skip
     ELSE EndWith("verify")
  /\ UNCHANGED <<clock, started>>

(* What validate_credential objects to: it takes a hash for nullifiers.    *)
PythonAccepts(c) ==
  /\ c.own
  /\ c.provider # NoName
  /\ c.hash \/ c.nullifiers \in {"some", "mixed"}
  /\ c.signed

PythonVerify ==
  /\ IsChecked("python", "verify")
  /\ IF PythonAccepts(Current) THEN Keep ELSE Skip
  /\ UNCHANGED <<clock, started>>

(* validate_credential in Rust: what is missing gives an error, and what   *)
(* is wrong gives None; validate_credentials_batch goes on after either.   *)
RustMisses(c) ==
  c.provider = NoName \/ c.nullifiers = "none" \/ c.expires = NoDate

RustDates ==
  /\ IsChecked("rust", "dates")
  /\ IF \/ RustMisses(Current)
        \/ Current.nullifiers # "some"
        \/ ~Current.own
        \/ Current.expires < clock
        \/ ~Current.trusted
     THEN Skip ELSE EndWith("verify")
  /\ UNCHANGED <<clock, started>>

(* Plausible bug: an error of one credential ends the batch.               *)
RustDatesOrError ==
  /\ IsChecked("rust", "dates")
  /\ IF RustMisses(Current) THEN EndWith("done")
     ELSE IF \/ Current.nullifiers # "some"
             \/ ~Current.own
             \/ Current.expires < clock
             \/ ~Current.trusted
     THEN Skip ELSE EndWith("verify")
  /\ UNCHANGED <<clock, started>>

(* Only the first valid credential of each provider is kept.               *)
RustVerify ==
  /\ IsChecked("rust", "verify")
  /\ IF /\ Current.signed
        /\ \A i \in kept : check.credentials[i].provider # Current.provider
     THEN Keep ELSE Skip
  /\ UNCHANGED <<clock, started>>

End ==
  /\ check.step \in {"done", "error"}
  /\ check' = NoCheck
  /\ kept' = {}
  /\ UNCHANGED <<clock, started>>

CredentialNext ==
  \/ Wait \/ Begin \/ PythonDates \/ PythonVerify \/ RustDates \/ RustVerify
  \/ End

-----------------------------------------------------------------------------
Sound(c) == c.own /\ c.trusted /\ c.signed /\ c.provider # NoName
Whole(c) == Sound(c) /\ c.nullifiers = "some" /\ c.expires # NoDate

(* What is kept is the address's own, signed by a trusted issuer, and had  *)
(* not expired when the scoring began, however long the others took.       *)
KeptAreValid ==
  \A i \in kept :
    LET c == check.credentials[i] IN
    Sound(c) /\ c.expires # NoDate /\ c.expires >= started

(* A credential that is whole and has not expired is kept whatever else    *)
(* the cache holds for the address, but for one of its provider in Rust;   *)
(* only a credential without a date costs the others theirs, in Python.    *)
WholeOnesAreKept ==
  /\ check.step = "done" =>
       \A i \in DOMAIN check.credentials :
         LET c == check.credentials[i] IN
         Whole(c) /\ c.expires >= clock =>
           \/ i \in kept
           \/ /\ check.program = "rust"
              /\ \E j \in kept : check.credentials[j].provider = c.provider
  /\ check.step = "error" =>
       /\ check.program = "python"
       /\ \E i \in DOMAIN check.credentials :
            check.credentials[i].expires = NoDate
=============================================================================
