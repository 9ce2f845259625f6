----------------------------- MODULE RustScorer -----------------------------
(***************************************************************************)
(* The scorer in Rust (src/rust-scorer/src): uploads of stamps to the      *)
(* ceramic cache, and the scoring of an address for one scorer             *)
(* (domain/scoring.rs: calculate_score_for_address).                       *)
(*                                                                         *)
(* An upload is a transaction of its own.  A scoring is one READ COMMITTED *)
(* transaction: it locks the Passport row, deduplicates, which locks the   *)
(* rows of the links it writes, and commits links, stamps and score        *)
(* together; any error rolls all of it back.  The community, the stamps    *)
(* and the weights are read through the pool, on a second connection, and  *)
(* the transaction holds its own meanwhile.                                *)
(***************************************************************************)
EXTENDS Integers, FiniteSets

CONSTANTS
  Requests,     \* the requests that may run at a time
  Addresses,
  Providers,
  Credentials,
  HolderOf,     \* the address a credential was issued to
  Uploads,      \* the sets of stamps that one request may upload
  ProviderOf,
  ExpiresAt,
  Place,        \* Place[c][n]: where nullifier n of c comes in a request's rows
  Nullifiers,
  PoolSizes,    \* the max_connections that are tried
  MaxTime,      \* bound on the clock
  None

VARIABLES
  pool,       \* max_connections
  clock,
  cache,      \* the live stamps of each address in the ceramic cache
  links,      \* the HashScorerLink row of each nullifier, or None
  credited,   \* the Stamp rows and the Score of each passport
  pc,         \* where each request is
  address,    \* whom it serves
  payload,    \* the stamps it uploads
  old,        \* the rows its soft delete found live
  loaded,     \* the valid stamps it has read; then those without a clash
  todo,       \* the link rows it still has to write
  mine,       \* the link rows it has written and not committed
  fresh,      \* history: requests that have read the cache as it is now
  shown,      \* history: whether a score shows the cache as it is now, or owes
              \* that, or is excused by a failure or a deletion
  overwritten \* history: links written over a row other than the one read

requests == <<pc, address, payload, old, loaded, todo, mine, fresh>>
history  == <<shown, overwritten>>
vars     == <<pool, clock, cache, links, credited, requests, history>>

Link == [owner: Addresses, expires: Nat]
NullifiersOf(c) == DOMAIN Place[c]
(* A row to write: whose stamp it is for, and what the link was when read. *)
Row ==
  {row \in [stamp: Credentials, hash: Nullifiers, link: Link,
            was: Link \cup {None}] : row.hash \in NullifiersOf(row.stamp)}
ProvidersOf(stamps) == {ProviderOf[c] : c \in stamps}

OnePerProvider(stamps) ==
  \A c, d \in stamps : ProviderOf[c] = ProviderOf[d] => c = d

(* Credentials and nullifiers are finitely many.  An upload has one stamp  *)
(* of a provider: of a list with more, the INSERT ... ON CONFLICT DO       *)
(* NOTHING of bulk_insert_ceramic_cache_stamps stores the first.           *)
ASSUME RustAssumption ==
  /\ IsFiniteSet(Credentials) /\ IsFiniteSet(Nullifiers)
  /\ ProviderOf \in [Credentials -> Providers]
  /\ ExpiresAt \in [Credentials -> Nat]
  /\ \A c \in Credentials :
       /\ NullifiersOf(c) \subseteq Nullifiers
       /\ \A n \in NullifiersOf(c) : Place[c][n] \in Nat
  /\ Uploads \subseteq SUBSET Credentials
  /\ \A stamps \in Uploads : OnePerProvider(stamps)
  /\ MaxTime \in Nat
  /\ None \notin Link \cup Addresses

(* The types; uploads leave a provider with one live stamp, and no two     *)
(* transactions have written the same link.                                *)
TypeOK ==
  /\ pool \in PoolSizes
  /\ clock \in 0..MaxTime
  /\ cache \in [Addresses -> SUBSET Credentials]
  /\ \A a \in Addresses : OnePerProvider(cache[a])
  /\ links \in [Nullifiers -> Link \cup {None}]
  /\ credited \in [Addresses -> SUBSET Credentials]
  /\ pc \in [Requests -> {"idle", "upload", "store", "begin", "community",
                          "passport", "stamps", "links", "write", "aborted",
                          "score"}]
  /\ address \in [Requests -> Addresses \cup {None}]
  /\ payload \in [Requests -> SUBSET Credentials]
  /\ old \in [Requests -> SUBSET Credentials]
  /\ loaded \in [Requests -> SUBSET Credentials]
  /\ todo \in [Requests -> SUBSET Row]
  /\ mine \in [Requests -> [Nullifiers -> Link \cup {None}]]
  /\ \A r, q \in Requests, n \in Nullifiers :
       r # q => mine[r][n] = None \/ mine[q][n] = None
  /\ fresh \in SUBSET Requests
  /\ shown \in [Addresses -> {"current", "owed", "excused"}]
  /\ overwritten \in SUBSET Nullifiers

NoLinks == [n \in Nullifiers |-> None]

Init ==
  /\ pool \in PoolSizes
  /\ clock = 0
  /\ cache = [a \in Addresses |-> {}]
  /\ links = NoLinks
  /\ credited = [a \in Addresses |-> {}]
  /\ pc = [r \in Requests |-> "idle"]
  /\ address = [r \in Requests |-> None]
  /\ payload = [r \in Requests |-> {}]
  /\ old = [r \in Requests |-> {}]
  /\ loaded = [r \in Requests |-> {}]
  /\ todo = [r \in Requests |-> {}]
  /\ mine = [r \in Requests |-> NoLinks]
  /\ fresh = {}
  /\ shown = [a \in Addresses |-> "current"]
  /\ overwritten = {}

-----------------------------------------------------------------------------
Goto(r, stage) == pc' = [pc EXCEPT ![r] = stage]

(* The pool hands out a connection, or the request waits for one.          *)
Connected == {"store", "community", "passport", "stamps", "links", "write",
              "aborted", "score"}
PoolHasOne == Cardinality({r \in Requests : pc[r] \in Connected}) < pool

(* The request is over; its transaction, if it is in one, has ended.       *)
Forget(r) ==
  /\ Goto(r, "idle")
  /\ address' = [address EXCEPT ![r] = None]
  /\ payload' = [payload EXCEPT ![r] = {}]
  /\ old' = [old EXCEPT ![r] = {}]
  /\ loaded' = [loaded EXCEPT ![r] = {}]
  /\ todo' = [todo EXCEPT ![r] = {}]
  /\ mine' = [mine EXCEPT ![r] = NoLinks]
  /\ fresh' = fresh \ {r}

Rollback(r) ==
  /\ Forget(r)
  /\ shown' = [shown EXCEPT ![address[r]] = "excused"]
  /\ UNCHANGED <<clock, cache, links, credited, overwritten>>

-----------------------------------------------------------------------------
(***************************************************************************)
(* Requests.  Those that upload delete the stamps of their providers and   *)
(* insert the new ones; a conflict with a live row is ignored.             *)
(***************************************************************************)
Upload(r) ==
  /\ pc[r] = "idle"
  /\ \E a \in Addresses, stamps \in Uploads :
       /\ \A c \in stamps : HolderOf[c] = a
       /\ address' = [address EXCEPT ![r] = a]
       /\ payload' = [payload EXCEPT ![r] = stamps]
  /\ Goto(r, "upload")
  /\ UNCHANGED <<clock, cache, links, credited, old, loaded, todo, mine, fresh,
                 history>>

GetScore(r) ==
  /\ pc[r] = "idle"
  /\ \E a \in Addresses : address' = [address EXCEPT ![r] = a]
  /\ Goto(r, "begin")
  /\ UNCHANGED <<clock, cache, links, credited, payload, old, loaded, todo,
                 mine, fresh, history>>

(* The UPDATE locks the rows it finds live when it starts; where another   *)
(* request has them, it waits, and then leaves what that one has deleted.  *)
SoftDelete(r) ==
  /\ pc[r] = "upload"
  /\ PoolHasOne
  /\ old' = [old EXCEPT ![r] =
               {c \in cache[address[r]] : ProviderOf[c] \in ProvidersOf(payload[r])}]
  /\ Goto(r, "store")
  /\ UNCHANGED <<clock, cache, links, credited, address, payload, loaded, todo,
                 mine, fresh, history>>

(* The cache of an address changes: what was read or shown of it is old.   *)
Changed(a, then) ==
  /\ fresh' = {r \in fresh : address[r] # a}
  /\ shown' = [shown EXCEPT ![a] = then]

Store(r, kept, new) ==
  /\ pc[r] = "store"
  /\ cache' = [cache EXCEPT ![address[r]] = kept \cup new]
  /\ payload' = [payload EXCEPT ![r] = {}]
  /\ old' = [old EXCEPT ![r] = {}]
  /\ Goto(r, "begin")
  /\ Changed(address[r], "owed")
  /\ UNCHANGED <<clock, links, credited, address, loaded, todo, mine, overwritten>>

(* Plausible bug: a conflict with a live row loses both stamps.            *)
BulkInsertOrDelete(r) ==
  LET others == {c \in cache[address[r]] \ old[r] :
                   ProviderOf[c] \in ProvidersOf(payload[r])} IN
  Store(r, (cache[address[r]] \ old[r]) \ others,
        {c \in payload[r] : ProviderOf[c] \notin ProvidersOf(others)})

BulkInsert(r) ==
  LET kept == cache[address[r]] \ old[r] IN
  Store(r, kept, {c \in payload[r] : ProviderOf[c] \notin ProvidersOf(kept)})

(* ceramic_cache_delete_stamps does not score.                             *)
DeleteStamps ==
  /\ \E a \in Addresses : \E stamps \in (SUBSET cache[a]) \ {{}} :
       /\ cache' = [cache EXCEPT ![a] = @ \ stamps]
       /\ Changed(a, "excused")
  /\ UNCHANGED <<clock, links, credited, pc, address, payload, old, loaded, todo,
                 mine, overwritten>>

-----------------------------------------------------------------------------
(***************************************************************************)
(* calculate_score_for_address.                                            *)
(***************************************************************************)
Advance(r, from, to) ==
  /\ pc[r] = from
  /\ Goto(r, to)
  /\ UNCHANGED <<clock, cache, links, credited, address, payload, old, loaded,
                 todo, mine, fresh, history>>

BeginTransaction(r) == Advance(r, "begin", "community") /\ PoolHasOne
LoadCommunity(r) == Advance(r, "community", "passport") /\ PoolHasOne

HoldsPassport(r) == pc[r] \in {"stamps", "links", "write", "aborted", "score"}

(* Plausible bug: ON CONFLICT DO NOTHING, which locks nothing.             *)
UpsertPassportNoLock(r) == Advance(r, "passport", "stamps")

(* ON CONFLICT DO UPDATE locks the row until the transaction ends.         *)
UpsertPassport(r) ==
  /\ \A q \in Requests \ {r} : address[q] = address[r] => ~HoldsPassport(q)
  /\ Advance(r, "passport", "stamps")

(* The live stamps, revoked or not, of which those pass that have not      *)
(* expired; then the weights.                                              *)
LoadStamps(r) ==
  /\ pc[r] = "stamps"
  /\ PoolHasOne
  /\ loaded' = [loaded EXCEPT ![r] =
                  {c \in cache[address[r]] : ExpiresAt[c] > clock}]
  /\ fresh' = fresh \cup {r}
  /\ Goto(r, "links")
  /\ UNCHANGED <<clock, cache, links, credited, address, payload, old, todo, mine,
                 history>>

(* lifo_dedup_attempt: what the links say about an address.                *)
Clashing(a, n) ==
  links[n] # None /\ links[n].owner # a /\ links[n].expires > clock
Clashes(a, c) == {n \in NullifiersOf(c) : Clashing(a, n)}
Valid(a, stamps) == {c \in stamps : Clashes(a, c) = {}}
FirstClash(a, c) ==
  links[CHOOSE n \in Clashes(a, c) :
          \A m \in Clashes(a, c) : Place[c][n] <= Place[c][m]]

LinkRow(c, n, link) == [stamp |-> c, hash |-> n, link |-> link, was |-> links[n]]

(* hash_links_to_create and hash_links_to_update of the valid stamps, and  *)
(* the nullifiers beside a clashing one, which go to the owner of that.    *)
RowsToWrite(a, stamps) ==
  (UNION {{LinkRow(c, n, [owner |-> a, expires |-> ExpiresAt[c]]) :
             n \in NullifiersOf(c)} : c \in Valid(a, stamps)})
  \cup
  (UNION {{LinkRow(c, n, FirstClash(a, c)) :
             n \in {m \in NullifiersOf(c) : links[m] = None}} :
           c \in stamps \ Valid(a, stamps)})

ReadLinks(r) ==
  /\ pc[r] = "links"
  /\ todo' = [todo EXCEPT ![r] = RowsToWrite(address[r], loaded[r])]
  /\ loaded' = [loaded EXCEPT ![r] = Valid(address[r], @)]
  /\ Goto(r, "write")
  /\ UNCHANGED <<clock, cache, links, credited, address, payload, old, mine, fresh,
                 history>>

(* bulk_upsert_hash_links: the inserts, then the updates, in their order.  *)
Position(row) == <<IF row.was = None THEN 0 ELSE 1, Place[row.stamp][row.hash]>>
Before(x, y) ==
  \/ Position(x)[1] < Position(y)[1]
  \/ Position(x)[1] = Position(y)[1] /\ Position(x)[2] <= Position(y)[2]
NextRow(r) == CHOOSE x \in todo[r] : \A y \in todo[r] : Before(x, y)

Locks(q, n) == mine[q][n] # None
WaitsFor(r) ==
  IF pc[r] = "write" /\ todo[r] # {}
  THEN {q \in Requests \ {r} : Locks(q, NextRow(r).hash)} ELSE {}

Duplicate(r, row) ==
  row.was = None /\ (links[row.hash] # None \/ Locks(r, row.hash))

Write(r, checked) ==
  /\ pc[r] = "write"
  /\ todo[r] # {}
  /\ LET row == NextRow(r) IN
     /\ checked => WaitsFor(r) = {} /\ ~Duplicate(r, row)
     /\ mine' = [mine EXCEPT ![r][row.hash] = row.link]
     /\ todo' = [todo EXCEPT ![r] = @ \ {row}]
     /\ overwritten' = IF row.was = None \/ links[row.hash] = row.was
                       THEN overwritten ELSE overwritten \cup {row.hash}
  /\ UNCHANGED <<clock, cache, links, credited, pc, address, payload, old, loaded,
                 fresh, shown>>

(* Plausible bug: ON CONFLICT DO UPDATE in place of the plain INSERT.      *)
WriteLinkUpsert(r) == Write(r, FALSE)

WriteLink(r) == Write(r, TRUE)

(* unique_violation, by a link that came in between or by two stamps with  *)
(* the same nullifier.  lifo_dedup retries, in a transaction that the      *)
(* error has aborted: the first query of the retry fails for good.         *)
UniqueViolation(r) ==
  /\ pc[r] = "write"
  /\ todo[r] # {}
  /\ WaitsFor(r) = {}
  /\ Duplicate(r, NextRow(r))
  /\ Advance(r, "write", "aborted")

RetryFails(r) == pc[r] = "aborted" /\ Rollback(r)

(* The server aborts a transaction of a cycle of waiting ones.             *)
DeadlockDetected(r) ==
  /\ pc[r] = "write"
  /\ \E cycle \in SUBSET Requests :
       r \in cycle /\ \A q \in cycle : WaitsFor(q) \cap cycle # {}
  /\ Rollback(r)

(* verify_hash_links: the links of the address among the nullifiers of its *)
(* valid stamps, and the length of the list of these.                      *)
Visible(r, n) == IF mine[r][n] # None THEN mine[r][n] ELSE links[n]
ListedLinks(r) ==
  {x \in Credentials \X Nullifiers : x[1] \in loaded[r] /\ x[2] \in NullifiersOf(x[1])}
OwnLinks(r) ==
  {n \in {x[2] : x \in ListedLinks(r)} :
     Visible(r, n) # None /\ Visible(r, n).owner = address[r]}
Verified(r) == Cardinality(ListedLinks(r)) = Cardinality(OwnLinks(r))

VerifyLinks(r) ==
  /\ pc[r] = "write"
  /\ todo[r] = {}
  /\ Verified(r)
  /\ Advance(r, "write", "score")

VerificationFails(r) ==
  pc[r] = "write" /\ todo[r] = {} /\ ~Verified(r) /\ Rollback(r)

(* The weights again, the Stamp rows, the Score, its event and the human   *)
(* points, and the commit.                                                 *)
Commit(r) ==
  /\ pc[r] = "score"
  /\ PoolHasOne
  /\ links' = [n \in Nullifiers |-> Visible(r, n)]
  /\ credited' = [credited EXCEPT ![address[r]] = loaded[r]]
  /\ shown' = [shown EXCEPT ![address[r]] =
                 IF r \in fresh THEN "current" ELSE IF @ = "excused" THEN @ ELSE "owed"]
  /\ Forget(r)
  /\ UNCHANGED <<clock, cache, overwritten>>

-----------------------------------------------------------------------------
WantsConnection(r) == pc[r] \in {"upload", "begin", "community", "stamps", "score"}

(* Plausible bug: no acquire_timeout.                                      *)
WaitForever(r) == FALSE /\ pc[r] = "idle" /\ UNCHANGED vars

(* acquire_timeout: the error drops the transaction and its connection.    *)
PoolTimeout(r) == WantsConnection(r) /\ ~PoolHasOne /\ Rollback(r)

(* The process dies, a query fails, a credential cannot be checked.        *)
Fail(r) == pc[r] # "idle" /\ Rollback(r)

Tick ==
  /\ clock < MaxTime
  /\ clock' = clock + 1
  /\ UNCHANGED <<cache, links, credited, requests, history>>

Arrive(r) == Upload(r) \/ GetScore(r)

Serve(r) ==
  /\ pc[r] # "idle"
  /\ \/ SoftDelete(r) \/ BulkInsert(r)
     \/ BeginTransaction(r) \/ LoadCommunity(r) \/ UpsertPassport(r)
     \/ LoadStamps(r) \/ ReadLinks(r) \/ WriteLink(r)
     \/ UniqueViolation(r) \/ RetryFails(r) \/ DeadlockDetected(r)
     \/ VerifyLinks(r) \/ VerificationFails(r) \/ Commit(r) \/ PoolTimeout(r)

Next ==
  /\ \/ \E r \in Requests : Arrive(r) \/ Serve(r) \/ Fail(r)
     \/ DeleteStamps
     \/ Tick
  /\ UNCHANGED pool

Spec == Init /\ [][Next]_vars

-----------------------------------------------------------------------------
LiveCredit(a, n) ==
  \E c \in credited[a] : n \in NullifiersOf(c) /\ ExpiresAt[c] > clock

(* A nullifier that counts for an address is linked to it, for as long as  *)
(* the stamp is valid, unless a transaction wrote over a link that another *)
(* had changed after it read it (the UPDATE of bulk_upsert_hash_links does *)
(* not name the owner).  Inserts, backfills, deadlocks, failed retries and *)
(* rollbacks lose no link.                                                 *)
CreditsAreLinked ==
  \A a \in Addresses, n \in Nullifiers :
    LiveCredit(a, n) =>
      \/ links[n] # None /\ links[n].owner = a /\ links[n].expires > clock
      \/ n \in overwritten

(* A score shows the stamps of the cache when all is quiet: two scorings   *)
(* of an address never end with the older reading (the lock that           *)
(* upsert_passport_record takes), unless the last one failed or stamps     *)
(* were deleted, which does not score.                                     *)
NoStaleScore ==
  \A a \in Addresses :
    (\A r \in Requests : address[r] # a) => shown[a] # "owed"

(* Uploads lose no provider: one that had a stamp has one afterwards, also *)
(* when two uploads replace it at the same time (soft delete and insert in *)
(* one transaction, ON CONFLICT DO NOTHING).                               *)
UploadsLoseNothing ==
  [][\A a \in Addresses :
       ProvidersOf(cache[a]) \subseteq ProvidersOf(cache'[a])
       \/ pc' = pc]_vars

(* Requests never all wait for one another, be it that each holds one       *)
(* connection of the pool and wants a second, or that they wait for each   *)
(* other's links and passports: the timeout of the pool and the deadlock   *)
(* detection of the server let one of them move (connection.rs, server.rs). *)
SomebodyMoves ==
  (\E r \in Requests : pc[r] # "idle") => \E r \in Requests : ENABLED Serve(r)
=============================================================================
