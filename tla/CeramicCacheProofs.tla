------------------------- MODULE CeramicCacheProofs -------------------------
(***************************************************************************)
(* Proofs about CeramicCache, for any number of requests, revokers,        *)
(* providers, credentials and rows.                                        *)
(***************************************************************************)
EXTENDS CeramicCache, FiniteSetTheorems, TLAPS

USE CacheAssumption DEF work, Processes

(***************************************************************************)
(* The inductive invariant.                                                *)
(***************************************************************************)
Stages == {"idle", "check", "delete", "create", "pending", "status", "revoke"}

Types ==
  /\ rows \in [Ids -> Row \cup {None}]
  /\ pc \in [Processes -> Stages]
  /\ stamps \in [Processes -> SUBSET Proofs]
  /\ emptied \in [Processes -> SUBSET Providers]
  /\ loaded \in [Processes -> SUBSET Ids]
  /\ expected \in SUBSET Providers
  /\ due \in [Processes -> SUBSET Ids]
  /\ recorded \in SUBSET Ids

(* The unique constraint: two live rows are of two providers.              *)
OneLiveRow ==
  \A i, j \in Ids : Live(i) /\ Live(j) /\ Provider(i) = Provider(j) => i = j

(* What a process works on are rows of the table.                          *)
LoadedExist == \A q \in Processes : \A i \in loaded[q] : rows[i] # None

(* Only a revoker in its loop has rows to revoke, and each of them is      *)
(* still to come or is revoked.                                            *)
DueInv ==
  \A q \in Processes :
    /\ pc[q] # "revoke" => due[q] = {}
    /\ \A i \in due[q] : rows[i] # None /\ (i \in loaded[q] \/ rows[i].revoked)

RecordedExist == \A i \in recorded : rows[i] # None

CacheInv ==
  /\ Types
  /\ OneLiveRow
  /\ LoadedExist
  /\ DueInv
  /\ RecordedExist
  /\ RecordedRunsRevokedAll
  /\ OnlyFailedReplacementsLoseStamps

-----------------------------------------------------------------------------
(***************************************************************************)
(* The statements that write rows.                                         *)
(***************************************************************************)
(* What no step does to a row: remove it, change its credential, restore   *)
(* it or take a revocation back.                                           *)
Kept ==
  \A i \in Ids : rows[i] # None =>
    /\ rows'[i] # None
    /\ rows'[i].proof = rows[i].proof
    /\ rows[i].deleted => rows'[i].deleted
    /\ rows[i].revoked => rows'[i].revoked

-----------------------------------------------------------------------------
(***************************************************************************)
(* What the steps do to the table.                                         *)
(***************************************************************************)
(* The actions that leave the table alone.                                 *)
Elsewhere ==
  \/ \E r \in Requests : \/ AddStamps(r) \/ PatchStamps(r) \/ DeleteStamps(r)
                         \/ UpdateStatus(r) \/ CheckDelete(r) \/ CreateFails(r)
                         \/ ReadPending(r)
  \/ \E v \in Revokers : \/ BanRevokes(v) \/ CoinbaseRevokes(v)
                         \/ RevocationFails(v) \/ RecordRun(v)
  \/ \E q \in Processes : Crash(q)

(* The other actions write no row of ceramic_cache_ceramiccache.           *)
LEMMA ElsewhereKeepsRows == Elsewhere => rows' = rows
BY DEF Elsewhere, AddStamps, PatchStamps, DeleteStamps, UpdateStatus, CheckDelete,
       CreateFails, ReadPending, BanRevokes, CoinbaseRevokes, RevocationFails,
       RecordRun, Crash, Request, ToRevoke

(* The rows that a statement flags, and what becomes of them.              *)
LEMMA SoftDeleteRows ==
  ASSUME Types, NEW r \in Requests, SoftDelete(r)
  PROVE  /\ rows' \in [Ids -> Row \cup {None}] /\ Kept
         /\ \A i \in Ids : Live(i)' <=> Live(i) /\ Provider(i) \notin emptied[r]
<1> DEFINE ids == LiveOf(emptied[r])
<1>1. ids \subseteq Ids /\ \A i \in ids : rows[i] \in Row
  BY DEF LiveOf, Live, Types
<1>2. \A i \in ids : rows'[i] = [rows[i] EXCEPT !.deleted = TRUE]
  BY DEF SoftDelete, MarkDeleted, LiveOf
<1>3. \A i \in Ids \ ids : rows'[i] = rows[i]
  BY DEF SoftDelete, MarkDeleted
<1>4. \A i \in ids : /\ rows'[i] \in Row
                     /\ rows'[i].proof = rows[i].proof
                     /\ rows'[i].deleted = TRUE
                     /\ rows'[i].revoked = rows[i].revoked
  <2> TAKE i \in ids
  <2>1. rows[i] \in Row
    BY <1>1
  <2> QED
    BY <1>2, <2>1 DEF Row
<1>5. rows' \in [Ids -> Row \cup {None}]
  <2>1. rows' = [i \in Ids |-> rows'[i]]
    BY DEF SoftDelete, MarkDeleted
  <2> QED
    BY <1>3, <1>4, <2>1 DEF Types
<1>6. Kept
  BY <1>3, <1>4 DEF Kept
<1>7. \A i \in Ids : Live(i)' <=> Live(i) /\ i \notin ids
  BY <1>1, <1>3, <1>4 DEF Live
<1> QED
  BY <1>5, <1>6, <1>7 DEF LiveOf

(* bulk_update of compose_db changes no proof and revives or kills no row. *)
LEMMA WriteStatusRows ==
  ASSUME Types, LoadedExist, NEW r \in Requests, WriteStatus(r)
  PROVE  /\ rows' \in [Ids -> Row \cup {None}] /\ Kept
         /\ \A i \in Ids : Live(i)' <=> Live(i)
<1> DEFINE ids == loaded[r]
<1>1. ids \subseteq Ids /\ \A i \in ids : rows[i] \in Row
  BY DEF LoadedExist, Types
<1>2. \A i \in ids :
        rows'[i] = [rows[i] EXCEPT !.pending = FALSE, !.deleted = @ /\ TRUE]
  BY <1>1 DEF WriteStatus, WriteRows
<1>3. \A i \in Ids \ ids : rows'[i] = rows[i]
  BY DEF WriteStatus, WriteRows
<1>4. \A i \in ids : /\ rows'[i] \in Row
                     /\ rows'[i].proof = rows[i].proof
                     /\ rows'[i].deleted <=> rows[i].deleted
                     /\ rows'[i].revoked <=> rows[i].revoked
  <2> TAKE i \in ids
  <2>1. rows[i] \in Row
    BY <1>1
  <2> QED
    BY <1>2, <2>1 DEF Row
<1>5. rows' \in [Ids -> Row \cup {None}]
  <2>1. rows' = [i \in Ids |-> rows'[i]]
    BY DEF WriteStatus, WriteRows
  <2> QED
    BY <1>3, <1>4, <2>1 DEF Types
<1>6. Kept
  BY <1>3, <1>4 DEF Kept
<1>7. \A i \in Ids : Live(i)' <=> Live(i)
  BY <1>1, <1>3, <1>4 DEF Live
<1> QED
  BY <1>5, <1>6, <1>7

(* A revocation that is created keeps every row, and what leaves the       *)
(* revoker's list is revoked.                                              *)
LEMMA CreateRevocationRows ==
  ASSUME Types, LoadedExist, NEW v \in Revokers, CreateRevocation(v)
  PROVE  /\ rows' \in [Ids -> Row \cup {None}] /\ Kept
         /\ \A i \in Ids : Live(i)' <=> Live(i)
         /\ \A i \in loaded[v] \ loaded'[v] : rows'[i].revoked
<1>1. PICK i \in loaded[v] : /\ rows' = [rows EXCEPT ![i].revoked = TRUE]
                             /\ loaded' = [loaded EXCEPT ![v] = @ \ {i}]
  BY DEF CreateRevocation
<1>2. i \in Ids /\ rows[i] \in Row
  BY DEF LoadedExist, Types
<1>3. /\ rows'[i] \in Row
      /\ rows'[i].proof = rows[i].proof
      /\ rows'[i].deleted <=> rows[i].deleted
      /\ rows'[i].revoked
  BY <1>1, <1>2 DEF Types, Row
<1>4. \A j \in Ids \ {i} : rows'[j] = rows[j]
  BY <1>1 DEF Types
<1>5. rows' \in [Ids -> Row \cup {None}]
  BY <1>1, <1>2, <1>3, <1>4 DEF Types
<1>6. Kept
  BY <1>3, <1>4 DEF Kept
<1>7. \A j \in Ids : Live(j)' <=> Live(j)
  BY <1>2, <1>3, <1>4 DEF Live
<1>8. \A j \in loaded[v] \ loaded'[v] : j = i
  BY <1>1 DEF Types
<1> QED
  BY <1>3, <1>5, <1>6, <1>7, <1>8

(* revoke_selected of the admin keeps every row.                           *)
LEMMA RevokeListRows ==
  ASSUME Types, RevokeList
  PROVE  /\ rows' \in [Ids -> Row \cup {None}] /\ Kept
         /\ \A i \in Ids : Live(i)' <=> Live(i)
<1>1. PICK proofs \in SUBSET Proofs :
        LET ids == {i \in Ids : rows[i] # None /\ rows[i].proof \in proofs} IN
        rows' = [i \in Ids |-> IF i \in ids THEN [rows[i] EXCEPT !.revoked = TRUE]
                                            ELSE rows[i]]
  BY DEF RevokeList
<1> DEFINE ids == {i \in Ids : rows[i] # None /\ rows[i].proof \in proofs}
<1>2. ids \subseteq Ids /\ \A i \in ids : rows[i] \in Row
  BY DEF Types
<1>3. /\ \A i \in ids : rows'[i] = [rows[i] EXCEPT !.revoked = TRUE]
      /\ \A i \in Ids \ ids : rows'[i] = rows[i]
      /\ rows' = [i \in Ids |-> rows'[i]]
  BY <1>1
<1> HIDE DEF ids
<1>4. \A i \in ids : /\ rows'[i] \in Row
                     /\ rows'[i].proof = rows[i].proof
                     /\ rows'[i].deleted <=> rows[i].deleted
                     /\ rows'[i].revoked
  <2> TAKE i \in ids
  <2>1. rows[i] \in Row
    BY <1>2
  <2> QED
    BY <1>3, <2>1 DEF Row
<1>5. rows' \in [Ids -> Row \cup {None}]
  BY <1>3, <1>4 DEF Types
<1>6. Kept
  BY <1>3, <1>4 DEF Kept
<1>7. \A i \in Ids : Live(i)' <=> Live(i)
  BY <1>2, <1>3, <1>4 DEF Live
<1> QED
  BY <1>5, <1>6, <1>7

(* A row that bulk_create inserts is alive and holds the stamp's proof.    *)
LEMMA FreshRow ==
  ASSUME NEW s \in Proofs
  PROVE  /\ Fresh(s) \in Row /\ Fresh(s) # None
         /\ ~Fresh(s).deleted /\ Fresh(s).proof = s
<1>1. Fresh(s) \in Row
  BY DEF Fresh, Row
<1> QED
  BY <1>1 DEF Fresh

(* The insert of a request whose stamps are of different providers, none   *)
(* of which has a live row.                                                *)
LEMMA BulkCreateRows ==
  ASSUME Types, NEW r \in Requests, BulkCreate(r)
  PROVE  /\ rows' \in [Ids -> Row \cup {None}] /\ Kept
         /\ \A i \in Ids : rows[i] # None => rows'[i] = rows[i]
         /\ \A i \in Ids : rows[i] = None /\ rows'[i] # None =>
              /\ Live(i)' /\ rows'[i].proof \in stamps[r]
              /\ \A j \in Ids : rows[j] = None /\ rows'[j] # None
                                  /\ rows'[i].proof = rows'[j].proof => i = j
         /\ \A s \in stamps[r] : \E i \in Ids : Live(i)' /\ rows'[i].proof = s
<1> DEFINE new == stamps[r]
<1>1. PICK place \in [new -> Free] :
        /\ \A s, t \in new : s # t => place[s] # place[t]
        /\ rows' = [i \in Ids |-> IF \E s \in new : place[s] = i
                                  THEN Fresh(CHOOSE s \in new : place[s] = i)
                                  ELSE rows[i]]
  BY DEF BulkCreate, Insert
<1>2. new \subseteq Proofs
  BY DEF Types
<1>3. \A s \in new : place[s] \in Ids /\ rows[place[s]] = None
  BY DEF Free
<1>4. \A s \in new : /\ rows'[place[s]] = Fresh(s)
                     /\ Fresh(s) \in Row /\ Fresh(s) # None
                     /\ ~Fresh(s).deleted /\ Fresh(s).proof = s
  <2> TAKE s \in new
  <2>1. (CHOOSE t \in new : place[t] = place[s]) = s
    BY <1>1
  <2>2. rows'[place[s]] = Fresh(s)
    BY <1>1, <1>3, <2>1
  <2> QED
    BY <1>2, <2>2, FreshRow
<1>5. \A i \in Ids : (\A s \in new : place[s] # i) => rows'[i] = rows[i]
  BY <1>1
<1>6. rows' \in [Ids -> Row \cup {None}]
  <2>1. rows' = [i \in Ids |-> rows'[i]]
    BY <1>1
  <2>2. \A i \in Ids : rows'[i] \in Row \cup {None}
    BY <1>4, <1>5 DEF Types
  <2> QED
    BY <2>1, <2>2
<1>7. \A i \in Ids : rows[i] # None => rows'[i] = rows[i]
  BY <1>3, <1>5
<1>8. \A i \in Ids : rows[i] = None /\ rows'[i] # None =>
        \E s \in new : place[s] = i
  BY <1>5
<1>9. \A s \in new : Live(place[s])' /\ rows'[place[s]].proof = s
  BY <1>3, <1>4 DEF Live
<1>10. Kept
  BY <1>7 DEF Kept
<1>11. \A i \in Ids : rows[i] = None /\ rows'[i] # None =>
              /\ Live(i)' /\ rows'[i].proof \in stamps[r]
              /\ \A j \in Ids : rows[j] = None /\ rows'[j] # None
                                  /\ rows'[i].proof = rows'[j].proof => i = j
  BY <1>8, <1>9
<1>12. \A s \in stamps[r] : \E i \in Ids : Live(i)' /\ rows'[i].proof = s
  BY <1>3, <1>9
<1> QED
  BY <1>6, <1>7, <1>10, <1>11, <1>12

(* The table stays well formed, and keeps its rows.                        *)
LEMMA TableKept ==
  ASSUME CacheInv, [Next]_vars
  PROVE  rows' \in [Ids -> Row \cup {None}] /\ Kept
<1> USE DEF CacheInv
<1>1. CASE rows' = rows
  BY <1>1 DEF Types, Kept
<1>2. ASSUME NEW r \in Requests, SoftDelete(r) \/ BulkCreate(r) \/ WriteStatus(r)
      PROVE  rows' \in [Ids -> Row \cup {None}] /\ Kept
  BY <1>2, SoftDeleteRows, BulkCreateRows, WriteStatusRows
<1>3. ASSUME NEW v \in Revokers, CreateRevocation(v)
      PROVE  rows' \in [Ids -> Row \cup {None}] /\ Kept
  BY <1>3, CreateRevocationRows
<1>4. CASE RevokeList
  BY <1>4, RevokeListRows
<1> QED
  BY <1>1, <1>2, <1>3, <1>4, ElsewhereKeepsRows
     DEF Next, RequestStep, RevokerStep, Elsewhere, vars

-----------------------------------------------------------------------------
(***************************************************************************)
(* The invariant.                                                          *)
(***************************************************************************)
LEMMA Initially == Init => CacheInv
<1> SUFFICES ASSUME Init PROVE CacheInv
  OBVIOUS
<1>1. Types
  BY DEF Init, Types, Stages
<1> QED
  BY <1>1 DEF Init, CacheInv, OneLiveRow, Live, LoadedExist, DueInv, RecordedExist,
              RecordedRunsRevokedAll, OnlyFailedReplacementsLoseStamps

(* The types of the processes' own variables.                              *)
LEMMA RequestTypes ==
  ASSUME CacheInv, NEW r \in Requests, RequestStep(r)
  PROVE  Types'
<1> USE DEF Types, Goto, Stages
<1>1. rows' \in [Ids -> Row \cup {None}]
  BY TableKept DEF Next, CacheInv
<1>2. \A proofs \in SUBSET Proofs : ProvidersOf(proofs) \subseteq Providers
  BY DEF ProvidersOf
<1> USE DEF CacheInv
<1>3. CASE AddStamps(r)
  BY <1>1, <1>2, <1>3 DEF AddStamps, Request
<1>4. CASE PatchStamps(r)
  BY <1>1, <1>2, <1>4 DEF PatchStamps, Request
<1>5. CASE DeleteStamps(r) \/ UpdateStatus(r)
  BY <1>1, <1>5 DEF DeleteStamps, UpdateStatus, Request
<1>6. CASE CheckDelete(r)
  BY <1>1, <1>6 DEF CheckDelete, End
<1>7. CASE SoftDelete(r)
  BY <1>1, <1>7 DEF SoftDelete, End
<1>8. CASE BulkCreate(r)
  <2>1. ProvidersOf(stamps[r]) \subseteq Providers
    BY <1>2
  <2> QED
    BY <1>1, <1>8, <2>1 DEF BulkCreate, End
<1>9. CASE CreateFails(r)
  BY <1>1, <1>9 DEF CreateFails, End
<1>10. CASE ReadPending(r)
  BY <1>1, <1>10 DEF ReadPending
<1>11. CASE WriteStatus(r)
  BY <1>1, <1>11 DEF WriteStatus, WriteRows, End
<1> QED
  BY <1>3, <1>4, <1>5, <1>6, <1>7, <1>8, <1>9, <1>10, <1>11 DEF RequestStep

(* The steps of revokers, of the admin and a crash keep the types.         *)
LEMMA RevokerTypes ==
  ASSUME CacheInv,
         \/ \E v \in Revokers : RevokerStep(v)
         \/ RevokeList
         \/ \E q \in Processes : Crash(q)
  PROVE  Types'
<1> USE DEF Types, Goto, Stages
<1>1. rows' \in [Ids -> Row \cup {None}]
  BY TableKept DEF Next, CacheInv
<1> USE DEF CacheInv
<1>2. ASSUME NEW v \in Revokers, NEW ids \in SUBSET Ids, ToRevoke(v, ids) PROVE Types'
  BY <1>1, <1>2 DEF ToRevoke
<1>3. ASSUME NEW v \in Revokers, BanRevokes(v) PROVE Types'
  <2>1. Unrevoked \subseteq Ids
    BY DEF Unrevoked
  <2> QED
    BY <1>2, <1>3, <2>1 DEF BanRevokes
<1>4. ASSUME NEW v \in Revokers, CoinbaseRevokes(v) PROVE Types'
  BY <1>2, <1>4 DEF CoinbaseRevokes, Unrevoked
<1>5. ASSUME NEW v \in Revokers, CreateRevocation(v) PROVE Types'
  BY <1>1, <1>5 DEF CreateRevocation
<1>6. ASSUME NEW v \in Revokers, RevocationFails(v) \/ RecordRun(v) PROVE Types'
  BY <1>1, <1>6 DEF RevocationFails, RecordRun, End
<1>7. CASE RevokeList
  BY <1>1, <1>7 DEF RevokeList
<1>8. ASSUME NEW q \in Processes, Crash(q) PROVE Types'
  BY <1>1, <1>8 DEF Crash, End
<1> QED
  BY <1>3, <1>4, <1>5, <1>6, <1>7, <1>8 DEF RevokerStep

(* The rows that processes have read, have to revoke or have recorded.     *)
Held == LoadedExist /\ DueInv /\ RecordedExist /\ RecordedRunsRevokedAll

(* Held survives a step of one process that keeps what the others have     *)
(* loaded.                                                                 *)
LEMMA HeldByOthers ==
  ASSUME Types, Held, Kept, Types', NEW q \in Processes,
         \A p \in Processes \ {q} :
           pc'[p] = pc[p] /\ loaded'[p] = loaded[p] /\ due'[p] = due[p],
         \A i \in loaded'[q] : rows'[i] # None,
         pc'[q] # "revoke" => due'[q] = {},
         \A i \in due'[q] : rows'[i] # None /\ (i \in loaded'[q] \/ rows'[i].revoked),
         \A i \in recorded' : i \in recorded \/ (rows'[i] # None /\ rows'[i].revoked)
  PROVE  Held'
<1> USE DEF Types, Held, LoadedExist, DueInv, RecordedExist, RecordedRunsRevokedAll, Kept
<1>1. LoadedExist'
  OBVIOUS
<1>2. DueInv'
  OBVIOUS
<1>3. RecordedExist' /\ RecordedRunsRevokedAll'
  OBVIOUS
<1> QED
  BY <1>1, <1>2, <1>3

(* A step of a cache request keeps Held.                                   *)
LEMMA RequestHeld ==
  ASSUME CacheInv, NEW r \in Requests, RequestStep(r)
  PROVE  Held'
<1>1. Kept /\ Types'
  BY TableKept, RequestTypes DEF Next
<1>2. Types /\ Held
  BY DEF CacheInv, Held
<1> USE DEF Types, Held, LoadedExist, DueInv, Kept, Goto
<1>3. r \in Processes /\ recorded' = recorded
  BY DEF RequestStep, AddStamps, PatchStamps, DeleteStamps, UpdateStatus, CheckDelete,
         SoftDelete, BulkCreate, CreateFails, ReadPending, WriteStatus, WriteRows, Request
<1>4. \A p \in Processes \ {r} :
        pc'[p] = pc[p] /\ loaded'[p] = loaded[p] /\ due'[p] = due[p]
  BY <1>2 DEF RequestStep, AddStamps, PatchStamps, DeleteStamps, UpdateStatus,
     CheckDelete, SoftDelete, BulkCreate, CreateFails, ReadPending, WriteStatus,
     WriteRows, Request, End
<1>5. pc[r] # "revoke" /\ due'[r] = {}
  BY <1>2 DEF RequestStep, AddStamps, PatchStamps, DeleteStamps, UpdateStatus,
     CheckDelete, SoftDelete, BulkCreate, CreateFails, ReadPending, WriteStatus,
     WriteRows, Request, End
<1>6. \A i \in loaded'[r] : rows'[i] # None
  <2>1. CASE ReadPending(r)
    BY <1>2, <2>1 DEF ReadPending, Live
  <2>2. CASE ~ReadPending(r)
    <3>1. loaded'[r] \subseteq loaded[r]
      BY <1>2, <2>2 DEF RequestStep, AddStamps, PatchStamps, DeleteStamps,
         UpdateStatus, CheckDelete, SoftDelete, BulkCreate, CreateFails, WriteStatus,
         WriteRows, Request, End
    <3> QED
      BY <1>1, <1>2, <3>1
  <2> QED
    BY <2>1, <2>2
<1> QED
  BY <1>1, <1>2, <1>3, <1>4, <1>5, <1>6, HeldByOthers

(* A step of a ban or of the Coinbase command keeps Held.                  *)
LEMMA RevokerHeld ==
  ASSUME CacheInv, NEW v \in Revokers, RevokerStep(v)
  PROVE  Held'
<1>1. Kept /\ Types'
  BY TableKept, RevokerTypes DEF Next
<1>2. Types /\ Held
  BY DEF CacheInv, Held
<1> USE DEF Types, Held, LoadedExist, DueInv, Kept, Goto
<1>3. ASSUME NEW ids \in SUBSET {i \in Ids : rows[i] # None}, ToRevoke(v, ids)
      PROVE  Held'
  BY <1>1, <1>2, <1>3, HeldByOthers DEF ToRevoke
<1>4. CASE BanRevokes(v)
  BY <1>3, <1>4 DEF BanRevokes, Unrevoked
<1>5. CASE CoinbaseRevokes(v)
  BY <1>3, <1>5 DEF CoinbaseRevokes, Unrevoked
<1>6. CASE CreateRevocation(v)
  <2>1. \A i \in loaded[v] \ loaded'[v] : rows'[i].revoked
    BY <1>2, <1>6, CreateRevocationRows
  <2>2. loaded'[v] \subseteq loaded[v] /\ due'[v] = due[v] /\ pc' = pc
    BY <1>2, <1>6 DEF CreateRevocation
  <2>3. \A p \in Processes \ {v} : loaded'[p] = loaded[p] /\ due'[p] = due[p]
    BY <1>2, <1>6 DEF CreateRevocation
  <2>4. recorded' = recorded
    BY <1>6 DEF CreateRevocation
  <2> QED
    BY <1>1, <1>2, <2>1, <2>2, <2>3, <2>4, HeldByOthers
<1>7. CASE RevocationFails(v)
  BY <1>1, <1>2, <1>7, HeldByOthers DEF RevocationFails, End
<1>8. CASE RecordRun(v)
  <2>1. \A i \in recorded' : i \in recorded \/ (rows'[i] # None /\ rows'[i].revoked)
    BY <1>2, <1>8 DEF RecordRun
  <2> QED
    BY <1>1, <1>2, <1>8, <2>1, HeldByOthers DEF RecordRun, End
<1> QED
  BY <1>4, <1>5, <1>6, <1>7, <1>8 DEF RevokerStep

(* The admin's revocations and a crash keep Held.                          *)
LEMMA OtherHeld ==
  ASSUME CacheInv, RevokeList \/ \E q \in Processes : Crash(q)
  PROVE  Held'
<1>1. Kept /\ Types'
  BY TableKept, RevokerTypes DEF Next
<1>2. Types /\ Held
  BY DEF CacheInv, Held
<1>3. CASE RevokeList
  BY <1>1, <1>2, <1>3 DEF RevokeList, Types, Held, LoadedExist, DueInv, RecordedExist,
                          RecordedRunsRevokedAll, Kept
<1>4. ASSUME NEW q \in Processes, Crash(q) PROVE Held'
  BY <1>1, <1>2, <1>4, HeldByOthers DEF Crash, End, Goto, Types
<1> QED
  BY <1>3, <1>4

-----------------------------------------------------------------------------
(***************************************************************************)
(* One live row for each provider.                                         *)
(***************************************************************************)
LEMMA LiveRows ==
  ASSUME Kept, Types, OneLiveRow,
         \A i \in Ids : Live(i)' => Live(i)
  PROVE  OneLiveRow'
BY DEF Kept, OneLiveRow, Provider, Live

(* No step adds a second live row of an address and a provider: the unique *)
(* constraint.                                                             *)
LEMMA NextOneLiveRow ==
  ASSUME CacheInv, [Next]_vars
  PROVE  OneLiveRow'
<1>1. Kept /\ Types /\ OneLiveRow /\ LoadedExist
  BY TableKept DEF CacheInv
<1>2. CASE rows' = rows
  BY <1>1, <1>2 DEF OneLiveRow, Live, Provider
<1>3. ASSUME NEW r \in Requests, SoftDelete(r) \/ WriteStatus(r)
      PROVE  OneLiveRow'
  BY <1>1, <1>3, LiveRows, SoftDeleteRows, WriteStatusRows
<1>4. ASSUME NEW r \in Requests, BulkCreate(r) PROVE OneLiveRow'
  <2> SUFFICES ASSUME NEW i \in Ids, NEW j \in Ids, Live(i)', Live(j)',
                      Provider(i)' = Provider(j)'
               PROVE  i = j
    BY DEF OneLiveRow
  <2>1. /\ \A s, t \in stamps[r] : ProviderOf[s] = ProviderOf[t] => s = t
        /\ \A s \in stamps[r] : \A k \in Ids : Live(k) => Provider(k) # ProviderOf[s]
    BY <1>4 DEF BulkCreate, Conflicting, ProvidersOf, LiveOf
  <2>2. rows'[i] # None /\ rows'[j] # None
    BY DEF Live
  <2>3. CASE rows[i] # None /\ rows[j] # None
    BY <1>1, <1>4, <2>3, BulkCreateRows DEF OneLiveRow, Live, Provider
  <2>4. ASSUME NEW k \in Ids, NEW l \in Ids, rows[k] = None, rows[l] # None,
               Live(k)', Live(l)', Provider(k)' = Provider(l)'
        PROVE  FALSE
    <3>1. rows'[k].proof \in stamps[r] /\ rows'[l] = rows[l]
      BY <1>1, <1>4, <2>4, BulkCreateRows DEF Live
    <3> QED
      BY <2>1, <2>4, <3>1 DEF Live, Provider
  <2>5. CASE rows[i] = None /\ rows[j] = None
    <3>1. rows'[i].proof \in stamps[r] /\ rows'[j].proof \in stamps[r]
      BY <1>1, <1>4, <2>2, <2>5, BulkCreateRows
    <3>2. rows'[i].proof = rows'[j].proof
      BY <2>1, <3>1 DEF Provider
    <3> QED
      BY <1>1, <1>4, <2>2, <2>5, <3>2, BulkCreateRows
  <2> QED
    BY <2>3, <2>4, <2>5
<1>5. ASSUME NEW v \in Revokers, CreateRevocation(v) PROVE OneLiveRow'
  BY <1>1, <1>5, LiveRows, CreateRevocationRows
<1>6. CASE RevokeList
  BY <1>1, <1>6, LiveRows, RevokeListRows
<1> QED
  BY <1>2, <1>3, <1>4, <1>5, <1>6, ElsewhereKeepsRows
     DEF Next, RequestStep, RevokerStep, Elsewhere, vars

-----------------------------------------------------------------------------
(***************************************************************************)
(* What is expected is live, or is being replaced.                         *)
(***************************************************************************)
Replacing(p, r) == pc[r] = "create" /\ p \in ProvidersOf(stamps[r])

(* A step of one process, after which whatever it has stopped replacing    *)
(* and whatever row it has taken away is no longer expected.               *)
LEMMA ExpectedByOthers ==
  ASSUME Types, OnlyFailedReplacementsLoseStamps, NEW q \in Processes,
         \A r \in Requests \ {q} : pc'[r] = pc[r] /\ stamps'[r] = stamps[r],
         \A p \in expected' : p \notin expected =>
           LiveOf({p})' # {} \/ \E r \in Requests : Replacing(p, r)',
         \A p \in expected \cap expected' : LiveOf({p}) # {} =>
           LiveOf({p})' # {} \/ \E r \in Requests : Replacing(p, r)',
         \A p \in expected \cap expected' : q \in Requests /\ Replacing(p, q) =>
           LiveOf({p}) # {} \/ LiveOf({p})' # {} \/ Replacing(p, q)'
  PROVE  OnlyFailedReplacementsLoseStamps'
<1> SUFFICES ASSUME NEW p \in expected'
             PROVE  LiveOf({p})' # {} \/ \E r \in Requests : Replacing(p, r)'
  BY DEF OnlyFailedReplacementsLoseStamps, Replacing
<1>1. CASE p \notin expected
  BY <1>1
<1>2. CASE p \in expected /\ LiveOf({p}) # {}
  BY <1>2
<1>3. CASE p \in expected /\ LiveOf({p}) = {}
  <2>1. PICK r \in Requests : Replacing(p, r)
    BY <1>3 DEF OnlyFailedReplacementsLoseStamps, Replacing
  <2>2. CASE r = q
    BY <1>3, <2>1, <2>2
  <2>3. CASE r # q
    BY <2>1, <2>3 DEF Replacing, ProvidersOf
  <2> QED
    BY <2>2, <2>3
<1> QED
  BY <1>1, <1>2, <1>3

(* Where no row loses its life, every provider keeps its live rows.        *)
LEMMA LiveStay ==
  ASSUME Kept, \A i \in Ids : Live(i) => Live(i)', NEW p
  PROVE  LiveOf({p}) # {} => LiveOf({p})' # {}
BY DEF Kept, LiveOf, Provider, Live

(* A request loses a stamp only where its creation failed after its        *)
(* deletion.                                                               *)
LEMMA RequestExpected ==
  ASSUME CacheInv, NEW r \in Requests, RequestStep(r)
  PROVE  OnlyFailedReplacementsLoseStamps'
<1> DEFINE Goal == OnlyFailedReplacementsLoseStamps'
<1>1. /\ Types /\ OnlyFailedReplacementsLoseStamps /\ LoadedExist
      /\ Kept /\ r \in Processes
  BY TableKept DEF CacheInv, Next
<1>2. \A q \in Requests \ {r} : pc'[q] = pc[q] /\ stamps'[q] = stamps[q]
  BY <1>1 DEF RequestStep, AddStamps, PatchStamps, DeleteStamps, UpdateStatus,
     CheckDelete, SoftDelete, BulkCreate, CreateFails, ReadPending, WriteStatus,
     WriteRows, Request, End, Goto, Types
<1>3. CASE pc[r] # "create" /\ expected' = expected
           /\ \A i \in Ids : Live(i) => Live(i)'
  BY <1>1, <1>2, <1>3, LiveStay, ExpectedByOthers DEF Replacing
<1>4. CASE AddStamps(r) \/ PatchStamps(r) \/ DeleteStamps(r) \/ UpdateStatus(r)
           \/ CheckDelete(r) \/ ReadPending(r)
  <2>1. pc[r] # "create" /\ expected' = expected /\ rows' = rows
    BY <1>4 DEF AddStamps, PatchStamps, DeleteStamps, UpdateStatus, CheckDelete,
                ReadPending, Request
  <2> QED
    BY <1>3, <2>1 DEF Live
<1>5. CASE WriteStatus(r)
  <2>1. pc[r] # "create" /\ expected' = expected
    BY <1>5 DEF WriteStatus, WriteRows
  <2> QED
    BY <1>1, <1>3, <1>5, <2>1, WriteStatusRows
<1>6. CASE SoftDelete(r)
  <2>1. /\ pc[r] # "create"
        /\ expected' = expected \ (emptied[r] \ ProvidersOf(stamps[r]))
    BY <1>6 DEF SoftDelete, OnPurpose
  <2>2. stamps[r] # {} => pc'[r] = "create" /\ stamps'[r] = stamps[r]
    BY <1>1, <1>6 DEF SoftDelete, Goto, Types
  <2>3. ASSUME NEW p \in expected', LiveOf({p}) # {}
        PROVE  LiveOf({p})' # {} \/ \E q \in Requests : Replacing(p, q)'
    <3>1. CASE p \in emptied[r]
      <4>1. p \in ProvidersOf(stamps[r])
        BY <2>1, <2>3, <3>1
      <4>2. stamps[r] # {}
        BY <4>1 DEF ProvidersOf
      <4> QED
        BY <2>2, <4>1, <4>2 DEF Replacing, ProvidersOf
    <3>2. CASE p \notin emptied[r]
      <4>1. PICK i \in Ids : Live(i) /\ Provider(i) = p
        BY <2>3 DEF LiveOf
      <4>2. Live(i)' /\ Provider(i)' = p
        BY <1>1, <1>6, <3>2, <4>1, SoftDeleteRows DEF Kept, Live, Provider
      <4> QED
        BY <4>2 DEF LiveOf
    <3> QED
      BY <3>1, <3>2
  <2> QED
    BY <1>1, <1>2, <2>1, <2>3, ExpectedByOthers DEF Replacing
<1>7. CASE BulkCreate(r)
  <2>1. expected' = expected \cup ProvidersOf(stamps[r])
    BY <1>7 DEF BulkCreate
  <2>2. \A p \in ProvidersOf(stamps[r]) : LiveOf({p})' # {}
    <3> TAKE p \in ProvidersOf(stamps[r])
    <3>1. PICK s \in stamps[r] : ProviderOf[s] = p
      BY DEF ProvidersOf
    <3>2. PICK i \in Ids : Live(i)' /\ rows'[i].proof = s
      BY <1>1, <1>7, BulkCreateRows
    <3> QED
      BY <3>1, <3>2 DEF LiveOf, Provider
  <2>3. \A i \in Ids : Live(i) => Live(i)'
    BY <1>1, <1>7, BulkCreateRows DEF Live
  <2>4. \A p \in expected : LiveOf({p}) # {} => LiveOf({p})' # {}
    BY <1>1, <2>3, LiveStay
  <2> QED
    BY <1>1, <1>2, <2>1, <2>2, <2>4, ExpectedByOthers DEF Replacing
<1>8. CASE CreateFails(r)
  <2>1. rows' = rows /\ expected' = expected \ LostBy(r)
    BY <1>8 DEF CreateFails
  <2>2. \A p \in expected' : Replacing(p, r) => LiveOf({p}) # {}
    BY <2>1 DEF LostBy, Replacing
  <2>3. \A p : LiveOf({p}) # {} => LiveOf({p})' # {}
    BY <1>1, <2>1, LiveStay DEF Live
  <2> QED
    BY <1>1, <1>2, <2>1, <2>2, <2>3, ExpectedByOthers
<1> QED
  BY <1>4, <1>5, <1>6, <1>7, <1>8 DEF RequestStep

(* No step outside the requests loses a stamp.                             *)
LEMMA OtherExpected ==
  ASSUME CacheInv,
         \/ \E v \in Revokers : RevokerStep(v)
         \/ RevokeList
         \/ \E q \in Processes : Crash(q)
  PROVE  OnlyFailedReplacementsLoseStamps'
<1>1. /\ Types /\ OnlyFailedReplacementsLoseStamps /\ LoadedExist /\ Kept
  BY TableKept DEF CacheInv, Next
<1>2. ASSUME NEW v \in Revokers, RevokerStep(v)
      PROVE  OnlyFailedReplacementsLoseStamps'
  <2>1. v \in Processes \ Requests /\ expected' = expected
    BY <1>2 DEF RevokerStep, BanRevokes, CoinbaseRevokes, CreateRevocation,
                RevocationFails, RecordRun, ToRevoke
  <2>2. \A r \in Requests \ {v} : pc'[r] = pc[r] /\ stamps'[r] = stamps[r]
    BY <1>1, <1>2 DEF RevokerStep, BanRevokes, CoinbaseRevokes, CreateRevocation,
                RevocationFails, RecordRun, ToRevoke, End, Goto, Types
  <2>3. CreateRevocation(v) \/ rows' = rows
    BY <1>2 DEF RevokerStep, BanRevokes, CoinbaseRevokes, RevocationFails, RecordRun,
                ToRevoke
  <2>4. \A i \in Ids : Live(i) => Live(i)'
    BY <1>1, <2>3, CreateRevocationRows DEF Live
  <2>5. \A p : LiveOf({p}) # {} => LiveOf({p})' # {}
    BY <1>1, <2>4, LiveStay
  <2> QED
    BY <1>1, <2>1, <2>2, <2>5, ExpectedByOthers
<1>3. CASE RevokeList
  <2>1. \A i \in Ids : Live(i) => Live(i)'
    BY <1>1, <1>3, RevokeListRows
  <2>2. \A p : LiveOf({p}) # {} => LiveOf({p})' # {}
    BY <1>1, <2>1, LiveStay
  <2>3. UNCHANGED <<pc, stamps, expected>>
    BY <1>3 DEF RevokeList
  <2> QED
    BY <2>2, <2>3, <1>1 DEF OnlyFailedReplacementsLoseStamps, ProvidersOf
<1>4. ASSUME NEW q \in Processes, Crash(q)
      PROVE  OnlyFailedReplacementsLoseStamps'
  <2>1. rows' = rows /\ expected' = expected \ LostBy(q)
    BY <1>4 DEF Crash
  <2>2. \A r \in Requests \ {q} : pc'[r] = pc[r] /\ stamps'[r] = stamps[r]
    BY <1>1, <1>4 DEF Crash, End, Goto, Types
  <2>3. \A p \in expected' : Replacing(p, q) => LiveOf({p}) # {}
    BY <2>1 DEF LostBy, Replacing
  <2>4. \A p : LiveOf({p}) # {} => LiveOf({p})' # {}
    BY <1>1, <2>1, LiveStay DEF Live
  <2> QED
    BY <1>1, <2>1, <2>2, <2>3, <2>4, ExpectedByOthers
<1> QED
  BY <1>2, <1>3, <1>4

-----------------------------------------------------------------------------
(* Every step, and every stutter, keeps the invariant.                     *)
LEMMA Inductive == CacheInv /\ [Next]_vars => CacheInv'
<1> SUFFICES ASSUME CacheInv, [Next]_vars PROVE CacheInv'
  OBVIOUS
<1>1. CASE UNCHANGED vars
  BY <1>1 DEF vars, CacheInv, Types, OneLiveRow, LoadedExist, DueInv, RecordedExist,
     RecordedRunsRevokedAll, OnlyFailedReplacementsLoseStamps, LiveOf, Live, Provider,
     ProvidersOf
<1>2. ASSUME NEW r \in Requests, RequestStep(r) PROVE CacheInv'
  BY <1>2, RequestTypes, RequestHeld, NextOneLiveRow, RequestExpected
     DEF CacheInv, Held, Next
<1>3. ASSUME NEW v \in Revokers, RevokerStep(v) PROVE CacheInv'
  BY <1>3, RevokerTypes, RevokerHeld, NextOneLiveRow, OtherExpected
     DEF CacheInv, Held, Next
<1>4. CASE RevokeList \/ \E q \in Processes : Crash(q)
  BY <1>4, RevokerTypes, OtherHeld, NextOneLiveRow, OtherExpected
     DEF CacheInv, Held, Next
<1> QED
  BY <1>1, <1>2, <1>3, <1>4 DEF Next

(* The inductive invariant of the ceramic cache holds in every reachable   *)
(* state.                                                                  *)
THEOREM CacheInvariance == Spec => []CacheInv
  BY Initially, Inductive, PTL DEF Spec

(* The types, and at most one live row for each provider: what the unique  *)
(* constraint, the deletes and the inserts of any number of concurrent     *)
(* requests amount to.                                                     *)
THEOREM TypeCorrect == Spec => []TypeOK
<1>1. CacheInv => TypeOK
  <2> SUFFICES ASSUME CacheInv PROVE TypeOK
    OBVIOUS
  <2>1. ASSUME NEW p \in Providers PROVE Cardinality(LiveOf({p})) <= 1
    <3>1. CASE LiveOf({p}) = {}
      BY <3>1, FS_EmptySet
    <3>2. ASSUME NEW i \in LiveOf({p}) PROVE Cardinality(LiveOf({p})) <= 1
      <4>1. \A j \in LiveOf({p}) : j = i
        BY DEF CacheInv, OneLiveRow, LiveOf
      <4>2. LiveOf({p}) = {i}
        BY <4>1
      <4> QED
        BY <4>2, FS_Singleton
    <3> QED
      BY <3>1, <3>2
  <2> QED
    BY <2>1 DEF CacheInv, Types, Stages, TypeOK
<1> QED
  BY <1>1, CacheInvariance, PTL

(* A stamp disappears only when somebody asks for it, or when a request    *)
(* that replaces it fails or dies between its two statements.              *)
THEOREM LostStampsTheorem == Spec => []OnlyFailedReplacementsLoseStamps
<1>1. CacheInv => OnlyFailedReplacementsLoseStamps
  BY DEF CacheInv
<1> QED
  BY <1>1, CacheInvariance, PTL

(* What a ban or a Coinbase run has recorded as done is done.              *)
THEOREM RecordedTheorem == Spec => []RecordedRunsRevokedAll
<1>1. CacheInv => RecordedRunsRevokedAll
  BY DEF CacheInv
<1> QED
  BY <1>1, CacheInvariance, PTL

(* No step brings a deleted or a revoked stamp back.                       *)
THEOREM GoneTheorem == Spec => GoneStaysGone
<1>1. CacheInv /\ [Next]_vars => Kept
  BY TableKept
<1>2. CacheInv /\ [Next]_vars =>
        [\A i \in Ids : rows[i] # None =>
           /\ rows'[i] # None
           /\ rows'[i].proof = rows[i].proof
           /\ rows[i].deleted => rows'[i].deleted
           /\ rows[i].revoked => rows'[i].revoked]_vars
  BY <1>1 DEF Kept
<1> QED
  BY <1>2, CacheInvariance, PTL DEF Spec, GoneStaysGone
=============================================================================
