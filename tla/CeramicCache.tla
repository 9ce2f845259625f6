---------------------------- MODULE CeramicCache ----------------------------
(***************************************************************************)
(* The stamps of one address in the ceramic cache                          *)
(* (src/api/ceramic_cache/api/v1.py and models.py), and the revocations    *)
(* that bans, the Coinbase command and uploaded lists make.                *)
(*                                                                         *)
(* A request that adds or patches stamps marks the rows of their providers *)
(* as deleted and inserts new ones, in two statements that commit by       *)
(* themselves.  A unique constraint allows one live row for each provider. *)
(* A revocation belongs to a row.  The scoring at the end of a request     *)
(* only reads the table; it is in ScorePipeline.                           *)
(***************************************************************************)
EXTENDS Integers, FiniteSets

CONSTANTS
  Requests,    \* the workers that serve requests for the address
  Revokers,    \* bans and scheduled commands, which revoke row by row
  Providers,   \* the stamp providers
  Coinbase,    \* COINBASE_STAMP_PROVIDER
  Proofs,      \* the credentials, by their proof_value
  ProviderOf,  \* the provider of each
  MaxRows,     \* bound on the rows of the table
  MayCrash,    \* whether workers and revokers die in the middle of their work
  None

Ids == 1..MaxRows
Row == [proof: Proofs, deleted: BOOLEAN, revoked: BOOLEAN, pending: BOOLEAN]

ASSUME CacheAssumption ==
  /\ ProviderOf \in [Proofs -> Providers]
  /\ Coinbase \in Providers
  /\ MaxRows \in Nat
  /\ MayCrash \in BOOLEAN
  /\ None \notin Row
  /\ Requests \cap Revokers = {}

Processes == Requests \cup Revokers

VARIABLES
  rows,      \* CeramicCache: the row of each id, or None
  pc,        \* where each process is
  stamps,    \* the stamps of a request's payload
  emptied,   \* the providers of its payload that it still has to delete
  loaded,    \* the rows a process has read and still has to write
  expected,  \* history: providers whose stamp nobody meant to remove or lost
  due,       \* history: the rows a revoker has found to revoke
  recorded   \* history: those of the runs it has recorded as done

work == <<stamps, emptied, loaded, due>>
vars == <<rows, pc, work, expected, recorded>>

Live(i) == rows[i] # None /\ ~rows[i].deleted
Provider(i) == ProviderOf[rows[i].proof]
LiveOf(providers) == {i \in Ids : Live(i) /\ Provider(i) \in providers}
ProvidersOf(proofs) == {ProviderOf[s] : s \in proofs}
Free == {i \in Ids : rows[i] = None}

(* One type invariant; its last conjunct says that the inserts and deletes *)
(* of concurrent requests leave a provider with one live stamp at most.    *)
TypeOK ==
  /\ rows \in [Ids -> Row \cup {None}]
  /\ pc \in [Processes -> {"idle", "check", "delete", "create", "pending",
                           "status", "revoke"}]
  /\ stamps \in [Processes -> SUBSET Proofs]
  /\ emptied \in [Processes -> SUBSET Providers]
  /\ loaded \in [Processes -> SUBSET Ids]
  /\ expected \in SUBSET Providers
  /\ due \in [Processes -> SUBSET Ids]
  /\ recorded \in SUBSET Ids
  /\ \A p \in Providers : Cardinality(LiveOf({p})) <= 1

Init ==
  /\ rows = [i \in Ids |-> None]
  /\ pc = [q \in Processes |-> "idle"]
  /\ stamps = [q \in Processes |-> {}]
  /\ emptied = [q \in Processes |-> {}]
  /\ loaded = [q \in Processes |-> {}]
  /\ expected = {}
  /\ due = [q \in Processes |-> {}]
  /\ recorded = {}

Goto(q, stage) == pc' = [pc EXCEPT ![q] = stage]

End(q) ==
  /\ Goto(q, "idle")
  /\ stamps' = [stamps EXCEPT ![q] = {}]
  /\ emptied' = [emptied EXCEPT ![q] = {}]
  /\ loaded' = [loaded EXCEPT ![q] = {}]
  /\ due' = [due EXCEPT ![q] = {}]

Request(r, stage, proofs, providers) ==
  /\ pc[r] = "idle"
  /\ Goto(r, stage)
  /\ stamps' = [stamps EXCEPT ![r] = proofs]
  /\ emptied' = [emptied EXCEPT ![r] = providers]
  /\ UNCHANGED <<rows, loaded, due, expected, recorded>>

-----------------------------------------------------------------------------
(***************************************************************************)
(* handle_add_stamps_only, handle_patch_stamps and handle_delete_stamps.   *)
(***************************************************************************)
(* A payload may name a provider twice.                                    *)
AddStamps(r) ==
  \E proofs \in (SUBSET Proofs) \ {{}} :
    Request(r, "delete", proofs, ProvidersOf(proofs))

(* Its items without a stamp only delete.                                  *)
PatchStamps(r) ==
  \E proofs \in SUBSET Proofs, without \in SUBSET Providers :
    /\ proofs \cup without # {}
    /\ Request(r, "delete", proofs, ProvidersOf(proofs) \cup without)

DeleteStamps(r) ==
  \E providers \in (SUBSET Providers) \ {{}} : Request(r, "check", {}, providers)

(* InvalidDeleteCacheRequestException when there is nothing to delete.     *)
CheckDelete(r) ==
  /\ pc[r] = "check"
  /\ IF LiveOf(emptied[r]) = {}
     THEN End(r)
     ELSE Goto(r, "delete") /\ UNCHANGED work
  /\ UNCHANGED <<rows, expected, recorded>>

MarkDeleted(ids) ==
  rows' = [i \in Ids |-> IF i \in ids THEN [rows[i] EXCEPT !.deleted = TRUE]
                                      ELSE rows[i]]

OnPurpose(r) == emptied[r] \ ProvidersOf(stamps[r])

(* Plausible bug: the update forgets the providers of the payload.         *)
SoftDeleteAll(r) ==
  /\ pc[r] = "delete"
  /\ MarkDeleted(LiveOf(Providers))
  /\ expected' = expected \ OnPurpose(r)
  /\ IF stamps[r] = {}
     THEN End(r)
     ELSE Goto(r, "create") /\ emptied' = [emptied EXCEPT ![r] = {}]
          /\ UNCHANGED <<stamps, loaded, due>>
  /\ UNCHANGED recorded

SoftDelete(r) ==
  /\ pc[r] = "delete"
  /\ MarkDeleted(LiveOf(emptied[r]))
  /\ expected' = expected \ OnPurpose(r)
  /\ IF stamps[r] = {}
     THEN End(r)
     ELSE Goto(r, "create") /\ emptied' = [emptied EXCEPT ![r] = {}]
          /\ UNCHANGED <<stamps, loaded, due>>
  /\ UNCHANGED recorded

(* The unique constraint on live rows, against the table and within the    *)
(* payload.                                                                *)
Conflicting(r) ==
  {p \in ProvidersOf(stamps[r]) :
     \/ LiveOf({p}) # {}
     \/ \E s, t \in stamps[r] : s # t /\ ProviderOf[s] = p /\ ProviderOf[t] = p}

Fresh(proof) ==
  [proof |-> proof, deleted |-> FALSE, revoked |-> FALSE, pending |-> TRUE]

(* New rows take ids that follow the others.                               *)
Insert(proofs) ==
  /\ Cardinality(proofs) <= Cardinality(Free)
  /\ \E place \in [proofs -> Free] :
       /\ \A s, t \in proofs : s # t => place[s] # place[t]
       /\ \A s \in proofs : place[s] <= MaxRows - Cardinality(Free) + Cardinality(proofs)
       /\ rows' = [i \in Ids |->
                     IF \E s \in proofs : place[s] = i
                     THEN Fresh(CHOOSE s \in proofs : place[s] = i)
                     ELSE rows[i]]

(* Plausible bug: conflicts are updated instead of failing, by a target    *)
(* that the partial index does not match.                                  *)
BulkCreateUnchecked(r) ==
  /\ pc[r] = "create"
  /\ Insert(stamps[r])
  /\ expected' = expected \cup ProvidersOf(stamps[r])
  /\ End(r)
  /\ UNCHANGED recorded

BulkCreate(r) ==
  /\ pc[r] = "create"
  /\ Conflicting(r) = {}
  /\ Insert(stamps[r])
  /\ expected' = expected \cup ProvidersOf(stamps[r])
  /\ End(r)
  /\ UNCHANGED recorded

(* The stamps that a request has deleted and will not replace.             *)
LostBy(r) == {p \in ProvidersOf(stamps[r]) : pc[r] = "create" /\ LiveOf({p}) = {}}

(* The insert raises IntegrityError: what was deleted stays deleted.       *)
CreateFails(r) ==
  /\ pc[r] = "create"
  /\ Conflicting(r) # {}
  /\ expected' = expected \ LostBy(r)
  /\ End(r)
  /\ UNCHANGED <<rows, recorded>>

-----------------------------------------------------------------------------
(***************************************************************************)
(* handle_update_compose_db_status: the front end has stored stamps in     *)
(* Compose DB, or has failed to; either way they are no longer pending.    *)
(***************************************************************************)
UpdateStatus(r) == Request(r, "pending", {}, {})

ReadPending(r) ==
  /\ pc[r] = "pending"
  /\ \E ids \in SUBSET {i \in Ids : Live(i) /\ rows[i].pending} :
       loaded' = [loaded EXCEPT ![r] = ids]
  /\ Goto(r, "status")
  /\ UNCHANGED <<rows, stamps, emptied, due, expected, recorded>>

WriteRows(r, restored) ==
  /\ pc[r] = "status"
  /\ rows' = [i \in Ids |->
                IF i \in loaded[r]
                THEN [rows[i] EXCEPT !.pending = FALSE, !.deleted = @ /\ i \notin restored]
                ELSE rows[i]]
  /\ End(r)
  /\ UNCHANGED <<expected, recorded>>

(* Plausible bug: the rows, live when they were read, are saved with all   *)
(* their columns.                                                          *)
WriteStatusWholeRow(r) == WriteRows(r, loaded[r])

(* bulk_update by id, of the status columns only.                          *)
WriteStatus(r) == WriteRows(r, {})

-----------------------------------------------------------------------------
(***************************************************************************)
(* Ban.revoke_matching_credentials and check_coinbase_revocations: the     *)
(* rows are read, then one revocation after the other is created.          *)
(***************************************************************************)
ToRevoke(v, ids) ==
  /\ pc[v] = "idle"
  /\ Goto(v, "revoke")
  /\ loaded' = [loaded EXCEPT ![v] = ids]
  /\ due' = [due EXCEPT ![v] = ids]
  /\ UNCHANGED <<rows, stamps, emptied, expected, recorded>>

Unrevoked == {i \in Ids : rows[i] # None /\ ~rows[i].revoked}

(* An account ban matches every provider, a single stamp ban one, and so   *)
(* does the ban of a hash, which stands for an account at a provider.      *)
BanRevokes(v) ==
  \E providers \in {Providers} \cup {{p} : p \in Providers} :
    ToRevoke(v, LiveOf(providers) \cap Unrevoked)

(* The command revokes deleted rows as well.                               *)
CoinbaseRevokes(v) ==
  ToRevoke(v, {i \in Unrevoked : Provider(i) = Coinbase})

CreateRevocation(v) ==
  /\ pc[v] = "revoke"
  /\ \E i \in loaded[v] :
       /\ ~rows[i].revoked
       /\ rows' = [rows EXCEPT ![i].revoked = TRUE]
       /\ loaded' = [loaded EXCEPT ![v] = @ \ {i}]
  /\ UNCHANGED <<pc, stamps, emptied, due, expected, recorded>>

(* ceramic_cache is unique: a row that was revoked in the meantime ends    *)
(* the loop with IntegrityError, and the run is not recorded.              *)
RevocationFails(v) ==
  /\ pc[v] = "revoke"
  /\ \E i \in loaded[v] : rows[i].revoked
  /\ End(v)
  /\ UNCHANGED <<rows, expected, recorded>>

(* Plausible bug: the run is recorded although an error ended it.          *)
RecordRunAnyway(v) ==
  /\ pc[v] = "revoke"
  /\ loaded[v] = {} \/ \E i \in loaded[v] : rows[i].revoked
  /\ recorded' = recorded \cup due[v]
  /\ End(v)
  /\ UNCHANGED <<rows, expected>>

(* last_run_revoke_matching, or LastScheduledRun, is set.                  *)
RecordRun(v) ==
  /\ pc[v] = "revoke"
  /\ loaded[v] = {}
  /\ recorded' = recorded \cup due[v]
  /\ End(v)
  /\ UNCHANGED <<rows, expected>>

(* RevocationListAdmin.save_model, by any admin: a proof with two rows, or *)
(* a row that is revoked, rolls the whole list back.                       *)
RevokeList ==
  /\ \E proofs \in (SUBSET Proofs) \ {{}} :
       LET ids == {i \in Ids : rows[i] # None /\ rows[i].proof \in proofs} IN
       /\ \A s \in proofs : Cardinality({i \in ids : rows[i].proof = s}) = 1
       /\ ids \subseteq Unrevoked
       /\ rows' = [i \in Ids |-> IF i \in ids THEN [rows[i] EXCEPT !.revoked = TRUE]
                                              ELSE rows[i]]
  /\ UNCHANGED <<pc, work, expected, recorded>>

-----------------------------------------------------------------------------
(* A process dies; what it has committed stays.                            *)
Crash(q) ==
  /\ MayCrash
  /\ pc[q] # "idle"
  /\ expected' = expected \ LostBy(q)
  /\ End(q)
  /\ UNCHANGED <<rows, recorded>>

RequestStep(r) ==
  \/ AddStamps(r) \/ PatchStamps(r) \/ DeleteStamps(r) \/ UpdateStatus(r)
  \/ CheckDelete(r) \/ SoftDelete(r) \/ BulkCreate(r) \/ CreateFails(r)
  \/ ReadPending(r) \/ WriteStatus(r)

RevokerStep(v) ==
  \/ BanRevokes(v) \/ CoinbaseRevokes(v)
  \/ CreateRevocation(v) \/ RevocationFails(v) \/ RecordRun(v)

Next ==
  \/ \E r \in Requests : RequestStep(r)
  \/ \E v \in Revokers : RevokerStep(v)
  \/ RevokeList
  \/ \E q \in Processes : Crash(q)

Spec == Init /\ [][Next]_vars

-----------------------------------------------------------------------------
(* A stamp that nobody asked to delete disappears only while a request is  *)
(* replacing it, or when such a request fails on a conflict or dies:       *)
(* requests for other providers, status updates and revocations that run   *)
(* at the same time lose nothing (handle_add_stamps_only,                  *)
(* handle_patch_stamps, handle_delete_stamps).                             *)
OnlyFailedReplacementsLoseStamps ==
  \A p \in expected :
    \/ LiveOf({p}) # {}
    \/ \E r \in Requests : pc[r] = "create" /\ p \in ProvidersOf(stamps[r])

(* A row that is deleted or revoked never counts again, whatever was read  *)
(* of it before (handle_update_compose_db_status writes rows that it read  *)
(* while they were live), and the credential of a row never changes.       *)
GoneStaysGone ==
  [][\A i \in Ids : rows[i] # None =>
       /\ rows'[i] # None
       /\ rows'[i].proof = rows[i].proof
       /\ rows[i].deleted => rows'[i].deleted
       /\ rows[i].revoked => rows'[i].revoked]_vars

(* A ban or a Coinbase run that is recorded as done has revoked every row  *)
(* it found, also when other revokers and replacements of the rows ran at  *)
(* the same time; the Coinbase command looks at later attestations only    *)
(* from then on (revoke_matching_credentials, check_coinbase_revocations). *)
RecordedRunsRevokedAll == \A i \in recorded : rows[i].revoked
=============================================================================
