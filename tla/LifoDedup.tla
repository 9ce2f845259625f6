----------------------------- MODULE LifoDedup -----------------------------
(***************************************************************************)
(* LIFO deduplication as the Python API runs it                            *)
(* (src/api/account/deduplication/lifo.py: alifo, arun_lifo_dedup and      *)
(* save_hash_links).                                                       *)
(*                                                                         *)
(* A stamp carries nullifiers.  The table HashScorerLink, one row per      *)
(* (hash, community), says which address a nullifier counts for and until  *)
(* when.  A scoring request reads the rows of its stamps' nullifiers,      *)
(* decides in memory which stamps clash with another address, and then     *)
(* creates and updates rows in separate statements: the API runs in        *)
(* autocommit, so every statement below is an atomic step of its own,      *)
(* other requests run in between, and what one statement wrote stays when  *)
(* a later one fails or the worker dies.  Communities share no row, so one *)
(* of them is modelled.                                                    *)
(***************************************************************************)
EXTENDS Integers, FiniteSets

CONSTANTS
  Requests,        \* the workers that run scoring requests
  Addresses,       \* the Ethereum addresses that are scored
  Nullifiers,      \* every value of a stamp's "hash" or "nullifiers"
  V0,              \* those whose text starts with "v0"
  MultiNullifier,  \* settings.FF_MULTI_NULLIFIER == "on"
  Passports,       \* the validated passports a request may carry: sets of stamps
  MaxTries,        \* tries_remaining at the start of alifo
  MaxTime,         \* bound on the clock
  MayCrash,        \* whether workers die in the middle of a request
  None             \* no row of HashScorerLink, or no address

Time == Nat
Stamp == [nullifiers: SUBSET Nullifiers, expires: Time]
Link == [address: Addresses, expires_at: Time]
LinkOrNone == Link \cup {None}

(***************************************************************************)
(* get_nullifiers: with the multi-nullifier flag off only v0 ones count.   *)
(***************************************************************************)
get_nullifiers(stamp) ==
  IF MultiNullifier THEN stamp.nullifiers ELSE stamp.nullifiers \cap V0

(* A passport has one stamp per provider and a nullifier hashes the        *)
(* provider with the account behind the stamp, so two stamps of a passport *)
(* share none.                                                             *)
ASSUME ConstantsAssumption ==
  /\ IsFiniteSet(Nullifiers)
  /\ V0 \subseteq Nullifiers
  /\ MultiNullifier \in BOOLEAN
  /\ Passports \subseteq SUBSET Stamp
  /\ \A P \in Passports : \A s, t \in P :
       s # t => s.nullifiers \cap t.nullifiers = {}
  /\ MaxTries \in Nat \ {0}
  /\ MaxTime \in Nat
  /\ MayCrash \in BOOLEAN
  /\ None \notin Link \cup Addresses

VARIABLES
  clock,      \* wall-clock time
  links,      \* HashScorerLink: the row of each nullifier, or None
  credited,   \* the stamps the last finished attempt let each address count
  lapsed,     \* history: nullifiers whose row was, at some moment, expired
  pc,         \* where each request is
  address,    \* the address it scores
  passport,   \* its validated stamps
  tries,      \* tries_remaining
  nowAt,      \* now, sampled when the attempt started
  kept,       \* deduped_passport["stamps"]
  clashing,   \* clashing_stamps
  creates,    \* hash_links_to_create, by hash
  updates     \* hash_links_to_update, by hash

shared == <<links, credited, lapsed>>
input  == <<address, passport>>
plan   == <<kept, clashing, creates, updates>>
vars   == <<clock, shared, pc, input, tries, nowAt, plan>>

Stages == {"idle", "start", "read", "create", "update", "verify", "finish"}

TypeOK ==
  /\ clock \in Time
  /\ links \in [Nullifiers -> LinkOrNone]
  /\ credited \in [Addresses -> SUBSET Stamp]
  /\ lapsed \in SUBSET Nullifiers
  /\ pc \in [Requests -> Stages]
  /\ address \in [Requests -> Addresses \cup {None}]
  /\ passport \in [Requests -> Passports \cup {{}}]
  /\ tries \in [Requests -> 1..MaxTries]
  /\ nowAt \in [Requests -> Time]
  /\ kept \in [Requests -> SUBSET Stamp]
  /\ clashing \in [Requests -> SUBSET Stamp]
  /\ creates \in [Requests -> [Nullifiers -> LinkOrNone]]
  /\ updates \in [Requests -> [Nullifiers -> LinkOrNone]]

NoRows == [n \in Nullifiers |-> None]

Init ==
  /\ clock = 0
  /\ links = NoRows
  /\ credited = [a \in Addresses |-> {}]
  /\ lapsed = {}
  /\ pc = [r \in Requests |-> "idle"]
  /\ address = [r \in Requests |-> None]
  /\ passport = [r \in Requests |-> {}]
  /\ tries = [r \in Requests |-> MaxTries]
  /\ nowAt = [r \in Requests |-> 0]
  /\ kept = [r \in Requests |-> {}]
  /\ clashing = [r \in Requests |-> {}]
  /\ creates = [r \in Requests |-> NoRows]
  /\ updates = [r \in Requests |-> NoRows]

-----------------------------------------------------------------------------
(***************************************************************************)
(* What an attempt decides from the rows it has read.                      *)
(***************************************************************************)
Hashes(rows) == {n \in Nullifiers : rows[n] # None}

NullifiersOf(stamps) == UNION {get_nullifiers(s) : s \in stamps}

(* Plausible bugs: an expiry compared one unit too early, and the owner    *)
(* forgotten.                                                              *)
ClashingHashesTooEarly(rows, a, now) ==
  {n \in Hashes(rows) : rows[n].address # a /\ rows[n].expires_at > now + 1}

ClashingHashesOfAnyone(rows, a, now) ==
  {n \in Hashes(rows) : rows[n].expires_at > now}

(* The rows that still belong to somebody else.                            *)
ClashingHashes(rows, a, now) ==
  {n \in Hashes(rows) : rows[n].address # a /\ rows[n].expires_at > now}

(* Plausible bug: a stamp clashes only if all its nullifiers do.           *)
ClashingStampsOnAll(P, clashingHashes) ==
  {s \in P : get_nullifiers(s) # {} /\ get_nullifiers(s) \subseteq clashingHashes}

ClashingStamps(P, clashingHashes) ==
  {s \in P : get_nullifiers(s) \cap clashingHashes # {}}

StampWith(stamps, n) == CHOOSE s \in stamps : n \in get_nullifiers(s)

RowFor(stamps, n, a) ==
  [address |-> a, expires_at |-> StampWith(stamps, n).expires]

(* A kept stamp's own and forfeited rows are updated, its other hashes get *)
(* a row.  (A row of this address is always rewritten: the test for an     *)
(* unchanged expiry compares a datetime with the credential's text.)       *)
RowsToUpdate(rows, keeps, a) ==
  [n \in Nullifiers |->
     IF n \in NullifiersOf(keeps) \cap Hashes(rows)
     THEN RowFor(keeps, n, a)
     ELSE None]

(* A clashing stamp's other hashes get a copy of the row it clashes with,  *)
(* first[s] being the first clashing hash in the stamp's list.             *)
RowsToCreate(rows, keeps, clashes, clashingHashes, first, a) ==
  [n \in Nullifiers |->
     IF n \in NullifiersOf(keeps) \ Hashes(rows)
     THEN RowFor(keeps, n, a)
     ELSE IF n \in NullifiersOf(clashes) \ clashingHashes
          THEN rows[first[StampWith(clashes, n)]]
          ELSE None]

Expired(rows, now) == {n \in Hashes(rows) : rows[n].expires_at <= now}

-----------------------------------------------------------------------------
(***************************************************************************)
(* The steps of a request.                                                 *)
(***************************************************************************)
Goto(r, stage) == pc' = [pc EXCEPT ![r] = stage]

(* An attempt that ends takes its local variables with it.                 *)
ForgetAttempt(r) ==
  /\ nowAt' = [nowAt EXCEPT ![r] = 0]
  /\ kept' = [kept EXCEPT ![r] = {}]
  /\ clashing' = [clashing EXCEPT ![r] = {}]
  /\ creates' = [creates EXCEPT ![r] = NoRows]
  /\ updates' = [updates EXCEPT ![r] = NoRows]

EndRequest(r) ==
  /\ Goto(r, "idle")
  /\ ForgetAttempt(r)
  /\ address' = [address EXCEPT ![r] = None]
  /\ passport' = [passport EXCEPT ![r] = {}]
  /\ tries' = [tries EXCEPT ![r] = MaxTries]

(* aprocess_deduplication calls alifo for an address and the stamps that   *)
(* validation let through: none of them has expired yet.                   *)
Arrive(r, a, P) ==
  /\ pc[r] = "idle"
  /\ \A s \in P : s.expires >= clock
  /\ address' = [address EXCEPT ![r] = a]
  /\ passport' = [passport EXCEPT ![r] = P]
  /\ Goto(r, "start")
  /\ UNCHANGED <<clock, shared, tries, nowAt, plan>>

(* arun_lifo_dedup begins: now = get_utc_time().                           *)
Start(r) ==
  /\ pc[r] = "start"
  /\ nowAt' = [nowAt EXCEPT ![r] = clock]
  /\ Goto(r, "read")
  /\ UNCHANGED <<clock, shared, input, tries, plan>>

(* The one SELECT of the attempt, and everything computed from it.         *)
ReadLinks(r) ==
  LET a        == address[r]
      clashes  == ClashingHashes(links, a, nowAt[r])
      deduped  == ClashingStamps(passport[r], clashes)
      keeps    == passport[r] \ deduped
  IN
  /\ pc[r] = "read"
  /\ \E first \in [deduped -> Nullifiers] :
       /\ \A s \in deduped : first[s] \in get_nullifiers(s) \cap clashes
       /\ creates' = [creates EXCEPT ![r] =
                        RowsToCreate(links, keeps, deduped, clashes, first, a)]
  /\ updates' = [updates EXCEPT ![r] = RowsToUpdate(links, keeps, a)]
  /\ kept' = [kept EXCEPT ![r] = keeps]
  /\ clashing' = [clashing EXCEPT ![r] = deduped]
  /\ Goto(r, IF creates'[r] = NoRows /\ updates'[r] = NoRows
             THEN "finish" ELSE "create")
  /\ UNCHANGED <<clock, shared, input, tries, nowAt>>

(* Plausible bug: the insert is an upsert (update_conflicts=True).         *)
BulkUpsert(r) ==
  /\ pc[r] = "create"
  /\ links' = [n \in Nullifiers |->
                 IF creates[r][n] # None THEN creates[r][n] ELSE links[n]]
  /\ lapsed' = lapsed \cup Expired(links', clock)
  /\ Goto(r, "update")
  /\ UNCHANGED <<clock, credited, input, tries, nowAt, plan>>

(* abulk_create inserts all the rows or, when one of the hashes already    *)
(* has a row (unique_together of HashScorerLink), none.                    *)
BulkCreate(r) ==
  /\ pc[r] = "create"
  /\ Hashes(creates[r]) \cap Hashes(links) = {}
  /\ links' = [n \in Nullifiers |->
                 IF creates[r][n] # None THEN creates[r][n] ELSE links[n]]
  /\ lapsed' = lapsed \cup Expired(links', clock)
  /\ Goto(r, "update")
  /\ UNCHANGED <<clock, credited, input, tries, nowAt, plan>>

(* abulk_update rewrites the rows it has read by their ids, whoever owns   *)
(* them by now.                                                            *)
BulkUpdate(r) ==
  /\ pc[r] = "update"
  /\ links' = [n \in Nullifiers |->
                 IF updates[r][n] # None /\ links[n] # None
                 THEN updates[r][n] ELSE links[n]]
  /\ lapsed' = lapsed \cup Expired(links', clock)
  /\ Goto(r, "verify")
  /\ UNCHANGED <<clock, credited, input, tries, nowAt, plan>>

OwnRows(r) ==
  {n \in Hashes(creates[r]) \cup Hashes(updates[r]) :
     links[n] # None /\ links[n].address = address[r]}

ExpectedRows(r) ==
  Cardinality(Hashes(creates[r])) + Cardinality(Hashes(updates[r]))

(* The count that ends save_hash_links.                                    *)
Verify(r) ==
  /\ pc[r] = "verify"
  /\ Cardinality(OwnRows(r)) = ExpectedRows(r)
  /\ Goto(r, "finish")
  /\ UNCHANGED <<clock, shared, input, tries, nowAt, plan>>

(* HashScorerLinkIntegrityError, from the insert or from the count.        *)
Conflict(r) ==
  \/ pc[r] = "create" /\ Hashes(creates[r]) \cap Hashes(links) # {}
  \/ pc[r] = "verify" /\ Cardinality(OwnRows(r)) # ExpectedRows(r)

(* Plausible bugs: one try too many, and tries that are not counted.       *)
RetryOnceMore(r) ==
  /\ Conflict(r)
  /\ tries' = [tries EXCEPT ![r] = @ - 1]
  /\ ForgetAttempt(r)
  /\ Goto(r, "start")
  /\ UNCHANGED <<clock, shared, input>>

RetryUncounted(r) ==
  /\ Conflict(r)
  /\ ForgetAttempt(r)
  /\ Goto(r, "start")
  /\ UNCHANGED <<clock, shared, input, tries>>

(* alifo catches it and starts over while tries remain ...                 *)
Retry(r) ==
  /\ Conflict(r)
  /\ tries[r] - 1 > 0
  /\ tries' = [tries EXCEPT ![r] = @ - 1]
  /\ ForgetAttempt(r)
  /\ Goto(r, "start")
  /\ UNCHANGED <<clock, shared, input>>

(* ... and raises it when none does: ascore_passport then clears the       *)
(* score, and no stamp counts any more.                                    *)
GiveUp(r) ==
  /\ Conflict(r)
  /\ tries[r] - 1 <= 0
  /\ credited' = [credited EXCEPT ![address[r]] = {}]
  /\ EndRequest(r)
  /\ UNCHANGED <<clock, links, lapsed>>

(* Plausible bug: the passport is returned as it came in.                  *)
FinishUndeduplicated(r) ==
  /\ pc[r] = "finish"
  /\ credited' = [credited EXCEPT ![address[r]] = passport[r]]
  /\ EndRequest(r)
  /\ UNCHANGED <<clock, links, lapsed>>

(* A LIFO_DEDUPLICATION event is logged for every clashing stamp (no one   *)
(* reads them back) and the deduplicated passport is returned: from here   *)
(* on its stamps count for the address.                                    *)
Finish(r) ==
  /\ pc[r] = "finish"
  /\ credited' = [credited EXCEPT ![address[r]] = kept[r]]
  /\ EndRequest(r)
  /\ UNCHANGED <<clock, links, lapsed>>

(* The worker dies (a restarted server, a Lambda past its time limit).     *)
Crash(r) ==
  /\ MayCrash
  /\ pc[r] # "idle"
  /\ EndRequest(r)
  /\ UNCHANGED <<clock, shared>>

Tick ==
  /\ clock < MaxTime
  /\ clock' = clock + 1
  /\ lapsed' = lapsed \cup Expired(links, clock')
  /\ UNCHANGED <<links, credited, pc, input, tries, nowAt, plan>>

Step(r) ==
  \/ Start(r) \/ ReadLinks(r) \/ BulkCreate(r) \/ BulkUpdate(r)
  \/ Verify(r) \/ Retry(r) \/ GiveUp(r) \/ Finish(r)

Next ==
  \/ \E r \in Requests, a \in Addresses, P \in Passports : Arrive(r, a, P)
  \/ \E r \in Requests : Step(r) \/ Crash(r)
  \/ Tick

Spec == Init /\ [][Next]_vars

(* A worker that is running keeps running its request.                     *)
Fairness == \A r \in Requests : WF_vars(Step(r))
FairSpec == Spec /\ Fairness

-----------------------------------------------------------------------------
(***************************************************************************)
(* Properties.                                                             *)
(***************************************************************************)

(* While the row of a nullifier has never expired, an address whose score  *)
(* counts a stamp with that nullifier owns the row: no order of reads,     *)
(* inserts, updates, retries and crashes makes a stamp count that another  *)
(* address holds (the decision of arun_lifo_dedup is still right when      *)
(* save_hash_links has finished).                                          *)
CreditIsBacked ==
  \A a \in Addresses : \A s \in credited[a] : \A n \in get_nullifiers(s) :
    n \notin lapsed => links[n] # None /\ links[n].address = a

(* Two addresses count the same nullifier only if its row has expired at   *)
(* some moment: what LIFO deduplication is for.                            *)
ExclusiveUnlessLapsed ==
  \A a, b \in Addresses :
    a # b => NullifiersOf(credited[a]) \cap NullifiersOf(credited[b])
               \subseteq lapsed

(* A stamp that is reported as deduplicated, in the answer and as a        *)
(* LIFO_DEDUPLICATION event, has a nullifier that belongs to another       *)
(* address when the report is made (or whose row has expired).             *)
ReportsAreJustified ==
  \A r \in Requests : pc[r] = "finish" =>
    \A s \in clashing[r] : \E n \in get_nullifiers(s) :
      n \in lapsed \/ (links[n] # None /\ links[n].address # address[r])

(* A row never disappears, and it changes its owner only after it expired: *)
(* neither the blind bulk_update nor a backfill takes a nullifier away     *)
(* from an address that kept it alive all the time.                        *)
OwnersKeepUnexpiredRows ==
  [][\A n \in Hashes(links) :
       /\ links'[n] # None
       /\ links'[n].address # links[n].address => n \in lapsed]_links

(* No two addresses count live stamps with the same nullifier.  With one   *)
(* request at a time the dedup decision gives this; with two it does not   *)
(* (two requests that both saw the row expired).                           *)
NoLiveDoubleCredit ==
  \A a, b \in Addresses : \A s \in credited[a], t \in credited[b] :
    a # b /\ s.expires > clock /\ t.expires > clock
      => get_nullifiers(s) \cap get_nullifiers(t) = {}

(* Every request comes to an end: alifo's loop gives up after MaxTries.    *)
RequestsEnd == \A r \in Requests : pc[r] # "idle" ~> pc[r] = "idle"

(* alifo's comment: an integrity error means a competing request won, so   *)
(* trying again helps.  Alone, a request never runs out of tries.          *)
RetryingHelps == \A r \in Requests : Conflict(r) => tries[r] > 1

(***************************************************************************)
(* Refinement: a row's owner is the registry's owner of the nullifier.     *)
(***************************************************************************)
Registry == INSTANCE NullifierRegistry WITH
  Nobody <- None,
  owner  <- [n \in Nullifiers |->
               IF links[n] = None THEN None ELSE links[n].address],
  held   <- [a \in Addresses |-> NullifiersOf(credited[a])]

(* Every step of a request is a step of the registry or changes nothing in *)
(* it: the rows, statements and retries of lifo.py keep its promise.       *)
ImplementsRegistry == Registry!RegSpec

-----------------------------------------------------------------------------
(***************************************************************************)
(* The inductive invariant behind the properties.                          *)
(***************************************************************************)
Deciding == {"create", "update", "verify"}

(* An attempt's clock is never ahead, and expired rows are noted.          *)
TimeInv ==
  /\ \A r \in Requests : nowAt[r] <= clock
  /\ Expired(links, clock) \subseteq lapsed
  /\ lapsed \subseteq Hashes(links)

(* What a request is about to overwrite is its own or has expired.         *)
UpdatesInv ==
  \A r \in Requests :
    /\ pc[r] \in {"idle", "start", "read"} => updates[r] = NoRows
    /\ \A n \in Hashes(updates[r]) :
         /\ links[n] # None
         /\ updates[r][n].address = address[r]
         /\ n \notin lapsed => links[n].address = address[r]

(* Until it has counted its rows, every nullifier of a kept stamp is       *)
(* either inserted or updated, and none both.                              *)
CoverInv ==
  \A r \in Requests : pc[r] \in Deciding =>
    /\ NullifiersOf(kept[r]) \subseteq Hashes(creates[r]) \cup Hashes(updates[r])
    /\ Hashes(creates[r]) \cap Hashes(updates[r]) = {}

(* Once it has, the nullifiers of its kept stamps are its own.             *)
KeptInv ==
  \A r \in Requests : pc[r] = "finish" =>
    \A n \in NullifiersOf(kept[r]) :
      n \notin lapsed => links[n] # None /\ links[n].address = address[r]

(* A clash stays a clash until the request reports it.                     *)
ClashInv ==
  \A r \in Requests : pc[r] \in Deciding \cup {"finish"} =>
    \A s \in clashing[r] : \E n \in get_nullifiers(s) :
      n \in lapsed \/ (links[n] # None /\ links[n].address # address[r])

(* A request that runs scores an address.                                  *)
ActiveInv ==
  \A r \in Requests : pc[r] # "idle" => address[r] \in Addresses

(* All of it: what makes the properties above inductive.                   *)
IInv ==
  /\ TypeOK
  /\ ActiveInv
  /\ TimeInv
  /\ UpdatesInv
  /\ CoverInv
  /\ KeptInv
  /\ ClashInv
  /\ CreditIsBacked
=============================================================================
