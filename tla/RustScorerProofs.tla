-------------------------- MODULE RustScorerProofs --------------------------
(***************************************************************************)
(* What the scorer in Rust promises, for every number of requests,         *)
(* addresses, stamps, nullifiers and connections: no score is older than   *)
(* the cache it is of, uploads lose no provider, and a nullifier that      *)
(* counts for an address is linked to it.                                  *)
(***************************************************************************)
EXTENDS RustScorer, FiniteSetTheorems, WellFoundedInduction, TLAPS

Writing == {"write", "aborted", "score"}
Locked == {"links"} \cup Writing

-----------------------------------------------------------------------------
(* What a request carries at each of its stages.                           *)
StageOf(r) ==
  /\ address[r] = None <=> pc[r] = "idle"
  /\ pc[r] # "store" => old[r] = {}
  /\ OnePerProvider(payload[r])
  /\ ProvidersOf(old[r]) \subseteq ProvidersOf(payload[r])
  /\ pc[r] \notin Writing => todo[r] = {} /\ mine[r] = NoLinks
  /\ r \in fresh => pc[r] \in Locked

Stages == \A r \in Requests : StageOf(r)

Types == TypeOK /\ Stages

(* TypeOK in three parts.                                                  *)
StoredTypes ==
  /\ pool \in PoolSizes
  /\ clock \in 0..MaxTime
  /\ cache \in [Addresses -> SUBSET Credentials]
  /\ \A a \in Addresses : OnePerProvider(cache[a])
  /\ links \in [Nullifiers -> Link \cup {None}]
  /\ credited \in [Addresses -> SUBSET Credentials]
  /\ shown \in [Addresses -> {"current", "owed", "excused"}]
  /\ overwritten \in SUBSET Nullifiers

RequestTypes ==
  /\ pc \in [Requests -> {"idle", "upload", "store", "begin", "community",
                          "passport", "stamps", "links", "write", "aborted",
                          "score"}]
  /\ address \in [Requests -> Addresses \cup {None}]
  /\ payload \in [Requests -> SUBSET Credentials]
  /\ old \in [Requests -> SUBSET Credentials]
  /\ loaded \in [Requests -> SUBSET Credentials]
  /\ todo \in [Requests -> SUBSET Row]
  /\ mine \in [Requests -> [Nullifiers -> Link \cup {None}]]
  /\ fresh \in SUBSET Requests

Exclusive ==
  \A r, q \in Requests, n \in Nullifiers :
    r # q => mine[r][n] = None \/ mine[q][n] = None

(* Whoever holds the lock on a passport holds it alone.                    *)
Alone ==
  \A r, q \in Requests :
    HoldsPassport(r) /\ HoldsPassport(q) /\ address[r] = address[q] => r = q

(* A score that the cache is owed is on its way.                           *)
Owed(a) ==
  \E r \in Requests :
    /\ address[r] = a
    /\ pc[r] \in {"begin", "community", "passport", "stamps"} \/ r \in fresh

Scores ==
  /\ Alone
  /\ \A a \in Addresses : shown[a] = "owed" => Owed(a)
  /\ \A r \in Requests :
       pc[r] \in Locked /\ r \notin fresh => shown[address[r]] # "current"

-----------------------------------------------------------------------------
(* The row of a link may be taken over by an address.                      *)
Free(a, link) ==
  link = None \/ link.owner = a \/ link.expires <= clock

(* A row to be written, and the stamp it comes from.                       *)
GoodRow(r, row) ==
  /\ Free(address[r], row.was)
  /\ row.link.owner = address[r] =>
       row.stamp \in loaded[r] /\ row.link.expires = ExpiresAt[row.stamp]

(* A link that a transaction has written.                                  *)
GoodLink(r, n) ==
  mine[r][n] # None =>
    /\ Free(address[r], links[n]) \/ n \in overwritten
    /\ mine[r][n].owner = address[r] =>
         \E c \in loaded[r] :
           n \in NullifiersOf(c) /\ mine[r][n].expires = ExpiresAt[c]

(* No nullifier of a valid stamp is left out.                              *)
Covered(r) ==
  \A c \in loaded[r] : \A n \in NullifiersOf(c) :
    mine[r][n] # None \/ \E row \in todo[r] : row.hash = n

OwnLink(a, c, link) == link = [owner |-> a, expires |-> ExpiresAt[c]]

(* What verify_hash_links has seen.                                        *)
Checked(r) ==
  \A c \in loaded[r] : \A n \in NullifiersOf(c) : OwnLink(address[r], c, mine[r][n])

LinksOf(r) ==
  /\ pc[r] = "write" => Covered(r) /\ \A row \in todo[r] : GoodRow(r, row)
  /\ pc[r] = "score" => Checked(r)
  /\ \A n \in Nullifiers : GoodLink(r, n)

(* The links of a passport's credits.                                      *)
Linked ==
  \A a \in Addresses : \A c \in credited[a] : \A n \in NullifiersOf(c) :
    ExpiresAt[c] > clock => OwnLink(a, c, links[n]) \/ n \in overwritten

LinksInv == Linked /\ \A r \in Requests : LinksOf(r)

RustInv == Types /\ Scores /\ LinksInv

-----------------------------------------------------------------------------
(* The steps of a request, with all that end it together.                  *)
Step(r) ==
  \/ Upload(r) \/ GetScore(r) \/ SoftDelete(r) \/ BulkInsert(r)
  \/ BeginTransaction(r) \/ LoadCommunity(r) \/ UpsertPassport(r)
  \/ LoadStamps(r) \/ ReadLinks(r) \/ WriteLink(r) \/ UniqueViolation(r)
  \/ VerifyLinks(r) \/ Commit(r)
  \/ pc[r] # "idle" /\ Rollback(r)

(* Every step of the system is one of these.                               *)
LEMMA NextSteps ==
  ASSUME [Next]_vars
  PROVE  \/ (\E r \in Requests : Step(r)) /\ UNCHANGED pool
         \/ DeleteStamps /\ UNCHANGED pool
         \/ Tick /\ UNCHANGED pool
         \/ UNCHANGED vars
  BY DEF Next, Arrive, Serve, Fail, Step, RetryFails, DeadlockDetected,
         VerificationFails, PoolTimeout

(* The steps that only move a request on.                                  *)
Advances(r) ==
  \/ Advance(r, "begin", "community") \/ Advance(r, "community", "passport")
  \/ Advance(r, "passport", "stamps") \/ Advance(r, "write", "aborted")
  \/ Advance(r, "write", "score")

(* The handlers of a request, one by one: what Step expands to.            *)
LEMMA StepCases ==
  ASSUME NEW r \in Requests, Step(r)
  PROVE  \/ Upload(r) \/ GetScore(r) \/ SoftDelete(r) \/ BulkInsert(r)
         \/ LoadStamps(r) \/ ReadLinks(r) \/ WriteLink(r) \/ Commit(r)
         \/ BeginTransaction(r) \/ LoadCommunity(r) \/ UpsertPassport(r)
         \/ UniqueViolation(r) \/ VerifyLinks(r)
         \/ pc[r] # "idle" /\ Rollback(r)
  BY DEF Step

(* A set of natural numbers has a least one.                               *)
LEMMA Least ==
  ASSUME NEW S \in SUBSET Nat, S # {}
  PROVE  \E m \in S : \A n \in S : m <= n
<1> DEFINE T == {1..m : m \in S}
<1>1. T \in SUBSET FiniteSubsetsOf(Nat) /\ T # {}
  <2>1. \A m \in S : 1..m \in SUBSET Nat /\ IsFiniteSet(1..m)
    BY FS_Interval
  <2> QED BY <2>1 DEF FiniteSubsetsOf
<1>2. PICK x \in T : \A y \in T : <<y, x>> \notin StrictSubsetOrdering(Nat)
  BY <1>1, FS_StrictSubsetOrderingWellFounded, WFMin
<1>3. PICK m \in S : x = 1..m
  OBVIOUS
<1>4. ASSUME NEW n \in S, n < m PROVE FALSE
  <2>1. 1..n \subseteq 1..m /\ m \in 1..m /\ m \notin 1..n
    BY <1>4
  <2>2. <<1..n, x>> \in StrictSubsetOrdering(Nat)
    BY <2>1, <1>3 DEF StrictSubsetOrdering
  <2> QED BY <2>2, <1>2
<1> QED BY <1>4

-----------------------------------------------------------------------------
(* Initially nothing is stored, nobody is served and nothing is owed.      *)
LEMMA InitTypes == Init => Types
  BY RustAssumption DEF Init, Types, TypeOK, Stages, StageOf, NoLinks, OnePerProvider,
     ProvidersOf

(* The first clashing link of a stamp is one of its clashing links.        *)
LEMMA FirstClashes ==
  ASSUME Types, NEW a \in Addresses, NEW c \in Credentials, Clashes(a, c) # {}
  PROVE  FirstClash(a, c) \in Link /\ FirstClash(a, c).owner # a
<1>1. Clashes(a, c) \subseteq NullifiersOf(c)
  BY DEF Clashes
<1> DEFINE places == {Place[c][m] : m \in Clashes(a, c)}
<1>2. places \in SUBSET Nat /\ places # {}
  BY <1>1, RustAssumption
<1>3. \E p \in places : \A q \in places : p <= q
  BY <1>2, Least
<1>4. \E n \in Clashes(a, c) : \A m \in Clashes(a, c) : Place[c][n] <= Place[c][m]
  BY <1>3
<1>5. PICK n \in Clashes(a, c) : FirstClash(a, c) = links[n]
  BY <1>4 DEF FirstClash
<1> QED BY <1>5, RustAssumption DEF Clashes, Clashing, Types, TypeOK

(* The rows that lifo_dedup_attempt makes of some stamps: those of the     *)
(* valid stamps, and the free nullifiers beside a clash.                   *)
LEMMA RowCases ==
  ASSUME NEW a \in Addresses, NEW stamps \in SUBSET Credentials,
         NEW row \in RowsToWrite(a, stamps)
  PROVE  \/ \E c \in Valid(a, stamps) : \E n \in NullifiersOf(c) :
              row = LinkRow(c, n, [owner |-> a, expires |-> ExpiresAt[c]])
         \/ \E c \in stamps \ Valid(a, stamps) : \E n \in NullifiersOf(c) :
              row = LinkRow(c, n, FirstClash(a, c)) /\ links[n] = None
  BY DEF RowsToWrite

(* bulk_insert_stamps and the links it needs are rows of the hash table.   *)
LEMMA RowsType ==
  ASSUME Types, NEW a \in Addresses, NEW stamps \in SUBSET Credentials
  PROVE  RowsToWrite(a, stamps) \in SUBSET Row
<1>1. ASSUME NEW c \in Valid(a, stamps), NEW n \in NullifiersOf(c)
      PROVE  LinkRow(c, n, [owner |-> a, expires |-> ExpiresAt[c]]) \in Row
  BY <1>1, RustAssumption DEF Types, TypeOK, Valid, LinkRow, Row, Link
<1>2. ASSUME NEW c \in stamps \ Valid(a, stamps), NEW n \in NullifiersOf(c)
      PROVE  LinkRow(c, n, FirstClash(a, c)) \in Row
  <2>1. FirstClash(a, c) \in Link
    BY FirstClashes DEF Valid
  <2> QED BY <2>1, RustAssumption DEF LinkRow, Row, Types, TypeOK
<1>3. ASSUME NEW row \in RowsToWrite(a, stamps) PROVE row \in Row
  <2>1. CASE \E c \in Valid(a, stamps) : \E n \in NullifiersOf(c) :
               row = LinkRow(c, n, [owner |-> a, expires |-> ExpiresAt[c]])
    BY <1>1, <2>1
  <2>2. CASE \E c \in stamps \ Valid(a, stamps) : \E n \in NullifiersOf(c) :
               row = LinkRow(c, n, FirstClash(a, c)) /\ links[n] = None
    BY <1>2, <2>2
  <2> QED BY <2>1, <2>2, RowCases
<1> QED BY <1>3

(* bulk_upsert_hash_links has a first row whenever it has one to write.    *)
LEMMA NextRowExists ==
  ASSUME NEW r \in Requests, Types, todo[r] # {}
  PROVE  NextRow(r) \in todo[r]
<1>1. todo[r] \in SUBSET Row BY DEF Types, TypeOK
<1>2. ASSUME NEW X \in SUBSET todo[r], X # {}
      PROVE  \E x \in X : \A y \in X :
               Place[x.stamp][x.hash] <= Place[y.stamp][y.hash]
  <2> DEFINE places == {Place[x.stamp][x.hash] : x \in X}
  <2>1. places \in SUBSET Nat /\ places # {}
    BY <1>1, <1>2, RustAssumption DEF Row
  <2>2. \E m \in places : \A n \in places : m <= n
    BY <2>1, Least
  <2> QED BY <2>2
<1> DEFINE new == {x \in todo[r] : x.was = None}
<1>3. \E x \in todo[r] : \A y \in todo[r] : Before(x, y)
  <2>1. CASE new # {}
    <3>1. PICK x \in new : \A y \in new :
            Place[x.stamp][x.hash] <= Place[y.stamp][y.hash]
      BY <1>2, <2>1
    <3> HIDE DEF TypeOK, StoredTypes, RequestTypes, Exclusive, Stages
    <3> QED BY <3>1 DEF Before, Position
  <2>2. CASE new = {}
    <3>1. PICK x \in todo[r] : \A y \in todo[r] :
            Place[x.stamp][x.hash] <= Place[y.stamp][y.hash]
      BY <1>2
    <3> HIDE DEF TypeOK, StoredTypes, RequestTypes, Exclusive, Stages
    <3> QED BY <3>1, <2>2 DEF Before, Position
  <2> QED BY <2>1, <2>2
<1> QED BY <1>3 DEF NextRow

(* A request that another one's step leaves alone.                         *)
Untouched(q) ==
  /\ pc'[q] = pc[q] /\ address'[q] = address[q] /\ payload'[q] = payload[q]
  /\ old'[q] = old[q] /\ loaded'[q] = loaded[q] /\ todo'[q] = todo[q]
  /\ mine'[q] = mine[q]
  /\ q \in fresh' => q \in fresh

(* A step is one request's.                                                *)
LEMMA OthersUntouched ==
  ASSUME NEW r \in Requests, NEW q \in Requests, q # r, Types, Step(r)
  PROVE  Untouched(q)
<1> USE DEF Types, TypeOK, Goto, Untouched
<1>1. CASE Upload(r) BY <1>1 DEF Upload
<1>2. CASE GetScore(r) BY <1>2 DEF GetScore
<1>3. CASE SoftDelete(r) BY <1>3 DEF SoftDelete
<1>4. CASE BulkInsert(r) BY <1>4 DEF BulkInsert, Store, Changed
<1>5. CASE LoadStamps(r) BY <1>5 DEF LoadStamps
<1>6. CASE ReadLinks(r) BY <1>6 DEF ReadLinks
<1>7. CASE WriteLink(r) BY <1>7 DEF WriteLink, Write
<1>8. CASE Commit(r) BY <1>8 DEF Commit, Forget
<1>9. CASE Rollback(r) BY <1>9 DEF Rollback, Forget
<1>10. CASE Advances(r) BY <1>10 DEF Advances, Advance
<1> QED BY <1>1, <1>2, <1>3, <1>4, <1>5, <1>6, <1>7, <1>8, <1>9, <1>10
        DEF Step, Advances, BeginTransaction, LoadCommunity, UpsertPassport,
            UniqueViolation, VerifyLinks

(* The end of a request.                                                   *)
LEMMA Forgotten ==
  ASSUME NEW r \in Requests, Types, Forget(r)
  PROVE  /\ pc'[r] = "idle" /\ address'[r] = None /\ payload'[r] = {}
         /\ old'[r] = {} /\ loaded'[r] = {} /\ todo'[r] = {}
         /\ mine'[r] = NoLinks /\ r \notin fresh'
  BY DEF Types, TypeOK, Forget, Goto

(* A request that has ended carries nothing.                               *)
LEMMA ForgottenStage ==
  ASSUME NEW r \in Requests, Types, Forget(r)
  PROVE  StageOf(r)'
<1>1. ProvidersOf(old'[r]) \subseteq ProvidersOf(payload'[r])
  BY Forgotten
<1>2. OnePerProvider(payload'[r])
  BY Forgotten DEF OnePerProvider
<1> QED BY <1>1, <1>2, Forgotten DEF StageOf, Writing, Locked

(* No step leaves the types, or what a request carries.                    *)
LEMMA TypesStep == Types /\ [Next]_vars => Types'
<1> SUFFICES ASSUME Types, [Next]_vars PROVE Types'
  OBVIOUS
<1> USE RustAssumption
<1>1. ASSUME NEW r \in Requests, Step(r), UNCHANGED pool PROVE Types'
  <2>1. ASSUME NEW q \in Requests, q # r PROVE StageOf(q)'
    BY <1>1, <2>1, OthersUntouched DEF Untouched, StageOf, Types, Stages
  <2>3. pc[r] # "idle" => address[r] \in Addresses
    BY DEF Types, TypeOK, Stages, StageOf
  <2>2. TypeOK' /\ StageOf(r)'
    <3> USE <1>1 DEF Types, TypeOK, Stages, Goto, StoredTypes, RequestTypes, Exclusive
    <3>1. CASE Advances(r)
      <4>1. StoredTypes' BY <3>1 DEF Advances, Advance, history
      <4>3. RequestTypes' BY <3>1 DEF Advances, Advance, history
      <4>5. Exclusive' BY <3>1 DEF Advances, Advance, history
      <4>2. StageOf(r)' BY <3>1 DEF Advances, Advance, history,
                         StageOf, Writing, Locked, NoLinks
      <4> QED BY <4>1, <4>2, <4>3, <4>5 DEF TypeOK, StoredTypes, RequestTypes,
                                            Exclusive
    <3>2. CASE Upload(r)
      <4>1. StoredTypes' BY <3>2 DEF Upload, history
      <4>3. RequestTypes' BY <3>2 DEF Upload, history
      <4>5. Exclusive' BY <3>2 DEF Upload, history
      <4>4. PICK stamps \in Uploads : payload'[r] = stamps
        BY <3>2 DEF Upload
      <4>6. /\ pc'[r] = "upload" /\ pc[r] = "idle" /\ address'[r] \in Addresses
            /\ old'[r] = old[r] /\ todo'[r] = todo[r] /\ mine'[r] = mine[r]
            /\ fresh' = fresh /\ OnePerProvider(payload'[r]) /\ old[r] = {}
        BY <3>2, <4>4 DEF Upload, StageOf
      <4>2. StageOf(r)' BY <4>6 DEF StageOf, Writing, Locked, ProvidersOf
      <4> QED BY <4>1, <4>2, <4>3, <4>5 DEF TypeOK, StoredTypes, RequestTypes,
                                            Exclusive
    <3>3. CASE GetScore(r)
      <4>1. StoredTypes' BY <3>3 DEF GetScore, history
      <4>3. RequestTypes' BY <3>3 DEF GetScore, history
      <4>5. Exclusive' BY <3>3 DEF GetScore, history
      <4>2. StageOf(r)' BY <3>3, ZenonT(60) DEF GetScore, history,
                         StageOf, Writing, Locked
      <4> QED BY <4>1, <4>2, <4>3, <4>5 DEF TypeOK, StoredTypes, RequestTypes,
                                            Exclusive
    <3>4. CASE SoftDelete(r)
      <4>1. StoredTypes' BY <3>4 DEF SoftDelete, history
      <4>4. old'[r] \in SUBSET Credentials
        BY <2>3, <3>4 DEF SoftDelete
      <4>3. RequestTypes' BY <3>4, <4>4 DEF SoftDelete, history
      <4>5. Exclusive' BY <3>4 DEF SoftDelete, history
      <4>6. /\ pc'[r] = "store" /\ pc[r] = "upload" /\ address'[r] = address[r]
            /\ payload'[r] = payload[r] /\ todo'[r] = todo[r]
            /\ mine'[r] = mine[r] /\ fresh' = fresh
            /\ ProvidersOf(old'[r]) \subseteq ProvidersOf(payload[r])
        BY <3>4 DEF SoftDelete, ProvidersOf
      <4>2. StageOf(r)' BY <4>6 DEF StageOf, Writing, Locked
      <4> QED BY <4>1, <4>2, <4>3, <4>5 DEF TypeOK, StoredTypes, RequestTypes,
                                            Exclusive
    <3>5. CASE BulkInsert(r)
      <4>1. StoredTypes' BY <3>5 DEF BulkInsert, Store, Changed, ProvidersOf, OnePerProvider, StageOf
      <4>3. RequestTypes' BY <3>5 DEF BulkInsert, Store, Changed, ProvidersOf, OnePerProvider, StageOf
      <4>5. Exclusive' BY <3>5 DEF BulkInsert, Store, Changed, ProvidersOf, OnePerProvider, StageOf
      <4>2. StageOf(r)' BY <3>5, ZenonT(60) DEF BulkInsert, Store, Changed,
                         StageOf, Writing, Locked, ProvidersOf, OnePerProvider
      <4> QED BY <4>1, <4>2, <4>3, <4>5 DEF TypeOK, StoredTypes, RequestTypes,
                                            Exclusive
    <3>6. CASE LoadStamps(r)
      <4>1. StoredTypes' BY <3>6 DEF LoadStamps, history
      <4>4. loaded'[r] \in SUBSET Credentials
        BY <2>3, <3>6 DEF LoadStamps
      <4>3. RequestTypes' BY <3>6, <4>4 DEF LoadStamps, history
      <4>5. Exclusive' BY <3>6 DEF LoadStamps, history
      <4>2. StageOf(r)' BY <3>6 DEF LoadStamps, history,
                         StageOf, Writing, Locked
      <4> QED BY <4>1, <4>2, <4>3, <4>5 DEF TypeOK, StoredTypes, RequestTypes,
                                            Exclusive
    <3>7. CASE ReadLinks(r)
      <4>1. StoredTypes' BY <3>7, RowsType DEF ReadLinks, history, Valid
      <4>4. todo'[r] \in SUBSET Row /\ loaded'[r] \in SUBSET Credentials
        BY <2>3, <3>7, RowsType, ZenonT(60) DEF ReadLinks, Valid
      <4>3. RequestTypes' BY <3>7, <4>4 DEF ReadLinks, history
      <4>5. Exclusive' BY <3>7, RowsType DEF ReadLinks, history, Valid
      <4>2. StageOf(r)' BY <3>7, RowsType DEF ReadLinks, history, Valid,
                         StageOf, Writing, Locked
      <4> QED BY <4>1, <4>2, <4>3, <4>5 DEF TypeOK, StoredTypes, RequestTypes,
                                            Exclusive
    <3>8. CASE WriteLink(r)
      <4> DEFINE row == NextRow(r)
      <4>1. row \in Row /\ row.hash \in Nullifiers /\ row.link \in Link
        <5>1. row \in todo[r]
          BY <3>8, NextRowExists DEF WriteLink, Write
        <5> HIDE DEF row
        <5> QED BY <5>1 DEF Row
      <4>2. /\ pc[r] = "write" /\ WaitsFor(r) = {} /\ todo[r] # {}
            /\ mine' = [mine EXCEPT ![r][row.hash] = row.link]
            /\ todo' = [todo EXCEPT ![r] = @ \ {row}]
            /\ overwritten' = overwritten \/ overwritten' = overwritten \cup {row.hash}
            /\ UNCHANGED <<clock, cache, links, credited, pc, address, payload, old,
                           loaded, fresh, shown>>
        BY <3>8 DEF WriteLink, Write
      <4>3. \A q \in Requests \ {r} : mine[q][row.hash] = None
        BY <4>2 DEF WaitsFor, Locks
      <4> HIDE DEF row
      <4>4. StoredTypes' BY <4>1, <4>2
      <4>5. RequestTypes' BY <4>1, <4>2
      <4>6. Exclusive' BY <4>1, <4>2, <4>3
      <4>7. StageOf(r)' BY <4>1, <4>2 DEF StageOf, Writing, Locked
      <4> QED BY <4>4, <4>5, <4>6, <4>7 DEF TypeOK, StoredTypes, RequestTypes,
                                            Exclusive
    <3>9. CASE Commit(r)
      <4>4. \A n \in Nullifiers : Visible(r, n) \in Link \cup {None}
        BY DEF Visible
      <4>6. \A a \in Addresses : shown'[a] \in {"current", "owed", "excused"}
        BY <3>9 DEF Commit
      <4>7. shown' = [a \in Addresses |-> shown'[a]]
        BY <3>9 DEF Commit
      <4>8. credited' \in [Addresses -> SUBSET Credentials]
        BY <3>9 DEF Commit
      <4>1. StoredTypes' BY <3>9, <4>4, <4>6, <4>7, <4>8 DEF Commit
      <4>3. RequestTypes' BY <3>9 DEF Commit, Forget, Visible, NoLinks, Link
      <4>5. Exclusive' BY <3>9 DEF Commit, Forget, Visible, NoLinks, Link
      <4>2. StageOf(r)' BY <3>9, ForgottenStage DEF Commit
      <4> QED BY <4>1, <4>2, <4>3, <4>5 DEF TypeOK, StoredTypes, RequestTypes,
                                            Exclusive
    <3>10. CASE Rollback(r)
      <4>1. StoredTypes' BY <3>10 DEF Rollback, Forget, NoLinks, Link
      <4>3. RequestTypes' BY <3>10 DEF Rollback, Forget, NoLinks, Link
      <4>5. Exclusive' BY <3>10 DEF Rollback, Forget, NoLinks, Link
      <4>2. StageOf(r)' BY <3>10, ForgottenStage DEF Rollback
      <4> QED BY <4>1, <4>2, <4>3, <4>5 DEF TypeOK, StoredTypes, RequestTypes,
                                            Exclusive
    <3> HIDE DEF TypeOK, StoredTypes, RequestTypes, Exclusive, Stages
    <3> QED BY <3>1, <3>2, <3>3, <3>4, <3>5, <3>6, <3>7, <3>8, <3>9, <3>10
            DEF Step, Advances, BeginTransaction, LoadCommunity, UpsertPassport,
                UniqueViolation, VerifyLinks
  <2> QED BY <2>1, <2>2 DEF Types, Stages
<1>2. CASE DeleteStamps /\ UNCHANGED pool
  BY <1>2 DEF DeleteStamps, Changed, OnePerProvider, Types, TypeOK, Stages, StageOf
<1>3. CASE Tick /\ UNCHANGED pool
  BY <1>3 DEF Tick, requests, history, Types, TypeOK, Stages, StageOf
<1>4. CASE UNCHANGED vars
  BY <1>4 DEF vars, requests, history, Types, TypeOK, Stages, StageOf
<1> QED BY <1>1, <1>2, <1>3, <1>4, NextSteps

(* The types hold, whatever the requests do.                               *)
THEOREM TypesInvariance == Spec => []Types
<1>1. Init => Types BY InitTypes
<1>2. Types /\ [Next]_vars => Types' BY TypesStep
<1> QED BY <1>1, <1>2, PTL DEF Spec

(* The types of the state (TypeOK).                                        *)
THEOREM TypeCorrect == Spec => []TypeOK
BY TypesInvariance, PTL DEF Types

-----------------------------------------------------------------------------
(* The lock of upsert_passport_record is held by one request at a time.    *)
LEMMA AloneStep == Types /\ Alone /\ [Next]_vars => Alone'
<1> SUFFICES ASSUME Types, Alone, [Next]_vars PROVE Alone'
  OBVIOUS
<1> USE DEF Types, TypeOK
<1>1. ASSUME NEW r \in Requests, Step(r) PROVE Alone'
  <2>1. ASSUME NEW q \in Requests, q # r
        PROVE  pc'[q] = pc[q] /\ address'[q] = address[q]
    BY <1>1, <2>1, OthersUntouched DEF Untouched
  <2>2. CASE UpsertPassport(r)
    <3>1. \A q \in Requests \ {r} : address[q] = address[r] => ~HoldsPassport(q)
      BY <2>2 DEF UpsertPassport
    <3>2. address' = address
      BY <2>2 DEF UpsertPassport, Advance
    <3> QED BY <2>1, <3>1, <3>2, ZenonT(60) DEF Alone, HoldsPassport
  <2>3. \/ HoldsPassport(r)' => HoldsPassport(r) /\ address'[r] = address[r]
        \/ UpsertPassport(r)
    <3> USE DEF HoldsPassport, Goto
    <3>1. CASE Upload(r) BY <3>1 DEF Upload
    <3>2. CASE GetScore(r) BY <3>2 DEF GetScore
    <3>3. CASE SoftDelete(r) BY <3>3 DEF SoftDelete
    <3>4. CASE BulkInsert(r) BY <3>4 DEF BulkInsert, Store
    <3>5. CASE LoadStamps(r) BY <3>5 DEF LoadStamps
    <3>6. CASE ReadLinks(r) BY <3>6 DEF ReadLinks
    <3>7. CASE WriteLink(r) BY <3>7 DEF WriteLink, Write
    <3>8. CASE Commit(r) BY <3>8 DEF Commit, Forget
    <3>9. CASE Rollback(r) BY <3>9 DEF Rollback, Forget
    <3>10. CASE BeginTransaction(r) BY <3>10 DEF BeginTransaction, Advance
    <3>11. CASE LoadCommunity(r) BY <3>11 DEF LoadCommunity, Advance
    <3>12. CASE UniqueViolation(r) BY <3>12 DEF UniqueViolation, Advance
    <3>13. CASE VerifyLinks(r) BY <3>13 DEF VerifyLinks, Advance
    <3> QED BY <1>1, StepCases, <3>1, <3>2, <3>3, <3>4, <3>5, <3>6, <3>7, <3>8,
               <3>9, <3>10, <3>11, <3>12, <3>13
  <2> QED BY <2>1, <2>2, <2>3 DEF Alone, HoldsPassport
<1>2. CASE DeleteStamps \/ Tick \/ UNCHANGED vars
  BY <1>2 DEF DeleteStamps, Tick, vars, requests, Alone, HoldsPassport
<1> QED BY <1>1, <1>2, NextSteps

(* The rest of Scores, of an address and of a request.                     *)
OwedIsDue(a) == shown[a] = "owed" => Owed(a)
OldIsKnown(r) ==
  pc[r] \in Locked /\ r \notin fresh => shown[address[r]] # "current"

(* A score is owed only while it is on its way.                            *)
LEMMA OwedStep ==
  ASSUME Types, Scores, [Next]_vars, NEW a \in Addresses
  PROVE  OwedIsDue(a)'
<1> USE DEF Types, TypeOK
<1>1. OwedIsDue(a) BY DEF Scores, OwedIsDue
<1>2. ASSUME NEW r \in Requests, Step(r) PROVE OwedIsDue(a)'
  <2>1. ASSUME NEW q \in Requests, q # r
        PROVE  pc'[q] = pc[q] /\ address'[q] = address[q]
    BY <1>2, <2>1, OthersUntouched DEF Untouched
  <2>2. StageOf(r) BY DEF Stages
  <2>3. ASSUME shown' = shown, fresh' = fresh \/ fresh' = fresh \cup {r},
               \/ address[r] # a
               \/ r \notin fresh /\ pc[r] \in {"idle", "upload"}
               \/ /\ address'[r] = a
                  /\ \/ r \in fresh'
                     \/ pc'[r] \in {"begin", "community", "passport", "stamps"}
        PROVE  OwedIsDue(a)'
    BY <1>1, <2>1, <2>3 DEF OwedIsDue, Owed
  <2> USE DEF StageOf, Locked, Writing, Goto
  <2>4. CASE Upload(r) BY <2>2, <2>3, <2>4 DEF Upload, history
  <2>5. CASE GetScore(r) BY <2>2, <2>3, <2>5 DEF GetScore, history
  <2>6. CASE SoftDelete(r) BY <2>2, <2>3, <2>6 DEF SoftDelete, history
  <2>7. CASE BulkInsert(r)
    <3>1. CASE address[r] = a
      BY <3>1, <2>7 DEF BulkInsert, Store, OwedIsDue, Owed
    <3>2. CASE address[r] # a
      <4>1. /\ shown'[a] = shown[a] /\ address' = address
            /\ pc[r] = "store" /\ pc'[r] = "begin"
            /\ \A q \in Requests : address[q] = a /\ q \in fresh => q \in fresh'
        BY <3>2, <2>7 DEF BulkInsert, Store, Changed
      <4> QED BY <4>1, <3>2, <1>1, <2>1 DEF OwedIsDue, Owed
    <3> QED BY <3>1, <3>2
  <2>8. CASE LoadStamps(r) BY <2>2, <2>3, <2>8 DEF LoadStamps, history
  <2>9. CASE ReadLinks(r)
    BY <1>1, <2>1, <2>9 DEF ReadLinks, history, OwedIsDue, Owed
  <2>10. CASE WriteLink(r)
    BY <1>1, <2>1, <2>10 DEF WriteLink, Write, history, OwedIsDue, Owed
  <2>11. CASE Commit(r)
    <3>1. CASE address[r] = a
      <4>1. shown'[a] = "owed" => r \notin fresh /\ shown[a] = "owed"
        BY <3>1, <2>11 DEF Commit, Scores
      <4>2. pc[r] = "score" /\ fresh' = fresh \ {r}
        BY <2>11 DEF Commit, Forget
      <4> QED BY <4>1, <4>2, <1>1, <2>1 DEF OwedIsDue, Owed
    <3>2. CASE address[r] # a
      <4>1. /\ shown'[a] = shown[a]
            /\ \A q \in Requests : address[q] = a /\ q \in fresh => q \in fresh'
        BY <3>2, <2>11 DEF Commit, Forget
      <4> QED BY <4>1, <3>2, <1>1, <2>1 DEF OwedIsDue, Owed
    <3> QED BY <3>1, <3>2
  <2>12. CASE pc[r] # "idle" /\ Rollback(r)
    <3>1. CASE address[r] = a
      BY <3>1, <2>12 DEF Rollback, OwedIsDue
    <3>2. CASE address[r] # a
      <4>1. /\ shown'[a] = shown[a]
            /\ \A q \in Requests : address[q] = a /\ q \in fresh => q \in fresh'
        BY <3>2, <2>12 DEF Rollback, Forget
      <4> QED BY <4>1, <3>2, <1>1, <2>1 DEF OwedIsDue, Owed
    <3> QED BY <3>1, <3>2
  <2>13. CASE Advances(r)
    BY <1>1, <2>1, <2>13 DEF Advances, Advance, history, OwedIsDue, Owed
  <2> QED BY <1>2, StepCases, <2>4, <2>5, <2>6, <2>7, <2>8, <2>9, <2>10, <2>11,
             <2>12, <2>13
          DEF Advances, BeginTransaction, LoadCommunity, UpsertPassport,
              UniqueViolation, VerifyLinks
<1>3. CASE DeleteStamps
  BY <1>1, <1>3 DEF DeleteStamps, Changed, OwedIsDue, Owed
<1>4. CASE Tick \/ UNCHANGED vars
  BY <1>1, <1>4 DEF Tick, vars, requests, history, OwedIsDue, Owed
<1> QED BY <1>2, <1>3, <1>4, NextSteps

(* Whoever is about to store an older reading finds it known.              *)
LEMMA OldStep ==
  ASSUME Types, Scores, [Next]_vars, NEW q \in Requests
  PROVE  OldIsKnown(q)'
<1> USE DEF Types, TypeOK
<1>1. OldIsKnown(q) /\ StageOf(q) BY DEF Scores, OldIsKnown, Stages
<1>2. ASSUME NEW r \in Requests, Step(r), q # r PROVE OldIsKnown(q)'
  <2>1. Untouched(q) BY <1>2, OthersUntouched
  <2>2. ASSUME address'[q] = address[q], pc'[q] = pc[q], q \in fresh' <=> q \in fresh,
               \/ shown'[address[q]] = shown[address[q]]
               \/ shown'[address[q]] # "current"
        PROVE  OldIsKnown(q)'
    BY <1>1, <2>2 DEF OldIsKnown
  <2> USE DEF Untouched, Goto
  <2>3. CASE BulkInsert(r)
    <3>1. CASE pc[q] \in Locked /\ address[r] = address[q]
      <4>1. address[q] \in Addresses
        BY <1>1, <3>1 DEF StageOf, Locked, Writing
      <4>2. shown'[address[q]] = "owed"
        BY <2>3, <3>1, <4>1 DEF BulkInsert, Store, Changed
      <4> QED BY <2>1, <4>2 DEF OldIsKnown
    <3>2. CASE pc[q] \in Locked /\ address[r] # address[q]
      <4>1. shown'[address[q]] = shown[address[q]] /\ (q \in fresh' <=> q \in fresh)
        BY <2>3, <3>2 DEF BulkInsert, Store, Changed
      <4> QED BY <2>1, <2>2, <4>1
    <3>3. CASE pc[q] \notin Locked
      BY <2>1, <3>3 DEF OldIsKnown
    <3> QED BY <3>1, <3>2, <3>3
  <2>4. CASE Commit(r)
    <3>1. CASE address[r] = address[q] /\ pc[q] \in Locked
      <4>1. HoldsPassport(r) /\ HoldsPassport(q)
        BY <2>4, <3>1 DEF Commit, HoldsPassport, Locked, Writing
      <4> QED BY <4>1, <3>1, <1>2 DEF Scores, Alone
    <3>2. CASE address[r] # address[q]
      BY <1>2, <2>1, <2>2, <2>4, <3>2 DEF Commit, Forget
    <3>3. CASE pc[q] \notin Locked
      BY <2>1, <3>3 DEF OldIsKnown
    <3> QED BY <3>1, <3>2, <3>3
  <2>5. CASE Rollback(r)
    BY <1>2, <2>1, <2>2, <2>5 DEF Rollback, Forget
  <2>6. CASE \/ Upload(r) \/ GetScore(r) \/ SoftDelete(r) \/ LoadStamps(r)
             \/ ReadLinks(r) \/ WriteLink(r) \/ Advances(r)
    BY <1>2, <2>1, <2>2, <2>6 DEF Upload, GetScore, SoftDelete, LoadStamps,
       ReadLinks, WriteLink, Write, Advances, Advance, history
  <2> QED BY <1>2, StepCases, <2>3, <2>4, <2>5, <2>6
          DEF Advances, BeginTransaction, LoadCommunity, UpsertPassport,
              UniqueViolation, VerifyLinks
<1>3. ASSUME Step(q) PROVE OldIsKnown(q)'
  <2> USE DEF OldIsKnown, Locked, Writing, Goto
  <2>1. CASE Upload(q) BY <2>1 DEF Upload
  <2>2. CASE GetScore(q) BY <2>2 DEF GetScore
  <2>3. CASE SoftDelete(q) BY <2>3 DEF SoftDelete
  <2>4. CASE BulkInsert(q) BY <2>4 DEF BulkInsert, Store
  <2>5. CASE LoadStamps(q) BY <2>5 DEF LoadStamps
  <2>6. CASE ReadLinks(q) BY <1>1, <2>6 DEF ReadLinks, history
  <2>7. CASE WriteLink(q) BY <1>1, <2>7 DEF WriteLink, Write
  <2>8. CASE Commit(q) BY <2>8 DEF Commit, Forget
  <2>9. CASE Rollback(q) BY <2>9 DEF Rollback, Forget
  <2>10. CASE Advances(q) BY <1>1, <2>10 DEF Advances, Advance, history
  <2> QED BY <1>3, StepCases, <2>1, <2>2, <2>3, <2>4, <2>5, <2>6, <2>7, <2>8,
             <2>9, <2>10
          DEF Advances, BeginTransaction, LoadCommunity, UpsertPassport,
              UniqueViolation, VerifyLinks
<1>4. CASE DeleteStamps
  BY <1>1, <1>4 DEF DeleteStamps, Changed, OldIsKnown
<1>5. CASE Tick \/ UNCHANGED vars
  BY <1>1, <1>5 DEF Tick, vars, requests, history, OldIsKnown
<1> QED BY <1>2, <1>3, <1>4, <1>5, NextSteps

(* What a score shows, whatever the requests do.                           *)
LEMMA ScoresInvariance == Spec => []Scores
<1>1. Init => Scores
  BY RustAssumption DEF Init, Scores, Alone, HoldsPassport, Locked, Writing
<1>2. Types /\ Scores /\ [Next]_vars => Scores'
  BY AloneStep, OwedStep, OldStep DEF Scores, OwedIsDue, OldIsKnown
<1> QED BY <1>1, <1>2, TypesInvariance, PTL DEF Spec

(* No two scorings of an address leave the older reading behind: a score   *)
(* shows the cache when all is quiet, unless the last one failed or stamps *)
(* were deleted (the lock of upsert_passport_record).                      *)
THEOREM NoStaleScoreTheorem == Spec => []NoStaleScore
<1>1. Scores => NoStaleScore BY DEF Scores, Owed, NoStaleScore
<1> QED BY <1>1, ScoresInvariance, PTL

(* An upload keeps every provider that the cache of an address has.        *)
THEOREM UploadsTheorem == Spec => UploadsLoseNothing
<1> DEFINE Kept ==
      \A a \in Addresses :
        ProvidersOf(cache[a]) \subseteq ProvidersOf(cache'[a]) \/ pc' = pc
<1>1. ASSUME Types, [Next]_vars PROVE Kept \/ UNCHANGED vars
  <2> USE DEF Types, TypeOK
  <2>1. ASSUME NEW r \in Requests, BulkInsert(r) PROVE Kept
    <3> DEFINE b == address[r]
               kept == cache[b] \ old[r]
               new == {c \in payload[r] : ProviderOf[c] \notin ProvidersOf(kept)}
    <3>1. b \in Addresses
      BY <1>1, <2>1 DEF BulkInsert, Store, Stages, StageOf
    <3>2. cache' = [cache EXCEPT ![b] = kept \cup new]
      BY <2>1 DEF BulkInsert, Store
    <3>3. ProvidersOf(old[r]) \subseteq ProvidersOf(payload[r])
      BY <1>1 DEF Stages, StageOf
    <3>4. ProvidersOf(cache[b]) \subseteq ProvidersOf(kept \cup new)
      <4>1. ASSUME NEW c \in cache[b] PROVE ProviderOf[c] \in ProvidersOf(kept \cup new)
        <5>1. CASE c \notin old[r] BY <5>1 DEF ProvidersOf
        <5>2. CASE c \in old[r]
          <6>1. PICK d \in payload[r] : ProviderOf[d] = ProviderOf[c]
            BY <3>3, <5>2 DEF ProvidersOf
          <6> QED BY <6>1 DEF ProvidersOf
        <5> QED BY <5>1, <5>2
      <4> QED BY <4>1 DEF ProvidersOf
    <3>5. cache'[b] = kept \cup new BY <1>1, <3>1, <3>2
    <3>6. \A a \in Addresses \ {b} : cache'[a] = cache[a] BY <1>1, <3>2
    <3> HIDE DEF b, kept, new
    <3> QED BY <3>4, <3>5, <3>6
  <2>2. ASSUME NEW r \in Requests, Step(r), ~BulkInsert(r) PROVE cache' = cache
    BY <2>2, StepCases DEF Upload, GetScore, SoftDelete, LoadStamps, ReadLinks,
       WriteLink, Write, Commit, BeginTransaction, LoadCommunity,
       UpsertPassport, UniqueViolation, VerifyLinks, Advance, Rollback
  <2>3. CASE DeleteStamps \/ Tick
    BY <2>3 DEF DeleteStamps, Tick, requests
  <2> QED BY <1>1, <2>1, <2>2, <2>3, NextSteps
<1> QED BY <1>1, TypesInvariance, PTL DEF Spec, UploadsLoseNothing, vars

-----------------------------------------------------------------------------
(* verify_hash_links compares two numbers.  As many links as pairs of a    *)
(* valid stamp and a nullifier: no two valid stamps share a nullifier, and *)
(* each of these is linked to the address.                                 *)
LEMMA VerifiedLinks ==
  ASSUME NEW r \in Requests, Types, Verified(r),
         NEW c \in loaded[r], NEW n \in NullifiersOf(c)
  PROVE  /\ Visible(r, n) # None /\ Visible(r, n).owner = address[r]
         /\ \A d \in loaded[r] : n \in NullifiersOf(d) => d = c
<1> DEFINE listed == ListedLinks(r)
           hashes == {x[2] : x \in listed}
           f == [x \in listed |-> x[2]]
<1>1. listed \in SUBSET (Credentials \X Nullifiers)
  BY DEF ListedLinks
<1>2. IsFiniteSet(listed)
  BY <1>1, RustAssumption, FS_Product, FS_Subset
<1>3. f \in Surjection(listed, hashes)
  BY DEF Surjection
<1>4. /\ IsFiniteSet(hashes) /\ Cardinality(hashes) <= Cardinality(listed)
      /\ Cardinality(hashes) = Cardinality(listed) => f \in Injection(listed, hashes)
  BY <1>2, <1>3, FS_Surjection
<1>5. OwnLinks(r) \in SUBSET hashes
  BY DEF OwnLinks
<1>6. /\ Cardinality(OwnLinks(r)) <= Cardinality(hashes)
      /\ Cardinality(hashes) = Cardinality(OwnLinks(r)) => hashes = OwnLinks(r)
  BY <1>4, <1>5, FS_Subset
<1>7. Cardinality(listed) \in Nat /\ Cardinality(hashes) \in Nat
  BY <1>2, <1>4, FS_CardinalityType
<1>8. Cardinality(listed) = Cardinality(OwnLinks(r))
  BY DEF Verified
<1>9. hashes = OwnLinks(r) /\ f \in Injection(listed, hashes)
  BY <1>4, <1>6, <1>7, <1>8
<1>10. \A d \in loaded[r] : n \in NullifiersOf(d) => <<d, n>> \in listed
  BY RustAssumption DEF ListedLinks, Types, TypeOK
<1>11. n \in hashes
  <2>1. <<c, n>> \in listed BY <1>10
  <2> HIDE DEF listed
  <2> QED BY <2>1
<1>12. Visible(r, n) # None /\ Visible(r, n).owner = address[r]
  BY <1>9, <1>11 DEF OwnLinks
<1>13. \A x, y \in listed : x[2] = y[2] => x = y
  BY <1>9 DEF Injection, IsInjective
<1>14. ASSUME NEW d \in loaded[r], n \in NullifiersOf(d) PROVE d = c
  <2>1. <<d, n>> \in listed /\ <<c, n>> \in listed
    BY <1>10, <1>14
  <2>2. <<d, n>> = <<c, n>>
    BY <2>1, <1>13
  <2> QED BY <2>2
<1> QED BY <1>12, <1>14

(* What it lets through is checked.                                        *)
LEMMA VerifiedIsChecked ==
  ASSUME NEW r \in Requests, Types, Verified(r), todo[r] = {}, Covered(r),
         \A n \in Nullifiers : GoodLink(r, n)
  PROVE  Checked(r)
<1> SUFFICES ASSUME NEW c \in loaded[r], NEW n \in NullifiersOf(c)
             PROVE  OwnLink(address[r], c, mine[r][n])
  BY DEF Checked
<1>1. n \in Nullifiers
  BY RustAssumption DEF Types, TypeOK
<1>2. mine[r][n] # None
  BY DEF Covered
<1>3. mine[r][n] \in Link
  BY <1>1, <1>2 DEF Types, TypeOK
<1>4. /\ mine[r][n].owner = address[r]
      /\ \A d \in loaded[r] : n \in NullifiersOf(d) => d = c
  BY <1>2, VerifiedLinks DEF Visible
<1>5. PICK d \in loaded[r] : n \in NullifiersOf(d) /\ mine[r][n].expires = ExpiresAt[d]
  BY <1>1, <1>2, <1>4 DEF GoodLink
<1> QED BY <1>3, <1>4, <1>5 DEF OwnLink, Link

(* The rows of lifo_dedup_attempt are good and leave out no nullifier.     *)
LEMMA RowsAreGood ==
  ASSUME Types, NEW r \in Requests, ReadLinks(r)
  PROVE  (\A row \in todo[r] : GoodRow(r, row))' /\ Covered(r)'
<1> DEFINE a == address[r]
           valid == Valid(a, loaded[r])
<1>1. /\ todo'[r] = RowsToWrite(a, loaded[r]) /\ loaded'[r] = valid
      /\ address'[r] = a /\ clock' = clock /\ mine' = mine
  BY DEF ReadLinks, Types, TypeOK
<1>2. a \in Addresses
  BY DEF ReadLinks, Types, TypeOK, Stages, StageOf
<1>3. loaded[r] \in SUBSET Credentials
  BY DEF Types, TypeOK
<1>4. ASSUME NEW row \in RowsToWrite(a, loaded[r]) PROVE GoodRow(r, row)'
  <2> USE DEF GoodRow, Free, LinkRow
  <2>1. ASSUME NEW c \in valid, NEW n \in NullifiersOf(c),
               row = LinkRow(c, n, [owner |-> a, expires |-> ExpiresAt[c]])
        PROVE  GoodRow(r, row)'
    <3>1. n \in Nullifiers /\ ~Clashing(a, n)
      BY <1>3, RustAssumption DEF Valid, Clashes
    <3>2. links[n] = None \/ links[n].owner = a \/ links[n].expires <= clock
      BY <3>1, RustAssumption DEF Clashing, Types, TypeOK, Link
    <3> HIDE DEF valid
    <3> QED BY <1>1, <2>1, <3>2
  <2>2. ASSUME NEW c \in loaded[r] \ valid, NEW n \in NullifiersOf(c),
               row = LinkRow(c, n, FirstClash(a, c)), links[n] = None
        PROVE  GoodRow(r, row)'
    <3>1. FirstClash(a, c).owner # a
      BY <1>2, <1>3, FirstClashes DEF Valid
    <3> QED BY <1>1, <2>2, <3>1
  <2> QED BY <1>2, <1>3, <2>1, <2>2, RowCases
<1>5. Covered(r)'
  <2> SUFFICES ASSUME NEW c \in valid, NEW n \in NullifiersOf(c)
               PROVE  \E row \in RowsToWrite(a, loaded[r]) : row.hash = n
    BY <1>1 DEF Covered
  <2>1. LinkRow(c, n, [owner |-> a, expires |-> ExpiresAt[c]])
          \in RowsToWrite(a, loaded[r])
    BY DEF RowsToWrite
  <2> QED BY <2>1 DEF LinkRow
<1> QED BY <1>1, <1>4, <1>5

(* A link that is written is free, its own, or counted as overwritten.     *)
LEMMA WriteStep ==
  ASSUME Types, NEW r \in Requests, LinksOf(r), WriteLink(r)
  PROVE  LinksOf(r)'
<1> DEFINE row == NextRow(r)
<1>1. row \in todo[r]
  BY NextRowExists DEF WriteLink, Write
<1>2. row \in Row
  BY <1>1 DEF Types, TypeOK
<1>3. /\ pc[r] = "write" /\ pc' = pc /\ links' = links /\ clock' = clock
      /\ address' = address /\ loaded' = loaded
      /\ ~Duplicate(r, row)
      /\ mine' = [mine EXCEPT ![r][row.hash] = row.link]
      /\ todo' = [todo EXCEPT ![r] = @ \ {row}]
      /\ overwritten' = IF row.was = None \/ links[row.hash] = row.was
                        THEN overwritten ELSE overwritten \cup {row.hash}
  BY DEF WriteLink, Write
<1>4. GoodRow(r, row) /\ Covered(r) /\ \A n \in Nullifiers : GoodLink(r, n)
  BY <1>1, <1>3 DEF LinksOf
<1> HIDE DEF row
<1>5. /\ todo'[r] = todo[r] \ {row} /\ mine'[r][row.hash] = row.link
      /\ \A n \in Nullifiers \ {row.hash} : mine'[r][n] = mine[r][n]
      /\ row.hash \in Nullifiers /\ row.link \in Link /\ row.stamp \in Credentials
  BY <1>2, <1>3 DEF Types, TypeOK, Row
<1>6. \A x \in todo'[r] : GoodRow(r, x)'
  BY <1>3, <1>5 DEF LinksOf, GoodRow, Free
<1>7. Covered(r)'
  <2> SUFFICES ASSUME NEW c \in loaded[r], NEW n \in NullifiersOf(c)
               PROVE  mine'[r][n] # None \/ \E x \in todo'[r] : x.hash = n
    BY <1>3 DEF Covered
  <2>1. n \in Nullifiers
    BY RustAssumption DEF Types, TypeOK
  <2>2. CASE n = row.hash
    BY <1>5, <2>2, RustAssumption
  <2>3. CASE n # row.hash
    BY <1>4, <1>5, <2>1, <2>3 DEF Covered
  <2> QED BY <2>2, <2>3
<1>8. ASSUME NEW n \in Nullifiers PROVE GoodLink(r, n)'
  <2>1. CASE n = row.hash
    <3>1. Free(address[r], links[n]) \/ n \in overwritten'
      BY <1>3, <1>4, <2>1 DEF GoodRow, Free, Duplicate
    <3>2. row.link.owner = address[r] =>
            row.stamp \in loaded[r] /\ row.link.expires = ExpiresAt[row.stamp]
      BY <1>4 DEF GoodRow
    <3> QED BY <1>2, <1>3, <1>5, <2>1, <3>1, <3>2 DEF GoodLink, Free, Row
  <2>2. CASE n # row.hash
    BY <1>3, <1>4, <1>5, <2>2 DEF GoodLink, Free
  <2> QED BY <2>1, <2>2
<1> QED BY <1>3, <1>6, <1>7, <1>8 DEF LinksOf

(* A request's own step keeps what its links promise.                      *)
LEMMA OwnStep ==
  ASSUME Types, Types', NEW r \in Requests, LinksOf(r), Step(r)
  PROVE  LinksOf(r)'
<1> USE DEF Goto
<1>1. ASSUME pc'[r] \notin Writing PROVE LinksOf(r)'
  <2>1. mine'[r] = NoLinks
    BY <1>1 DEF Types, Stages, StageOf
  <2> QED BY <1>1, <2>1 DEF LinksOf, GoodLink, NoLinks, Writing
<1>2. CASE ReadLinks(r)
  <2>1. pc'[r] = "write" /\ mine'[r] = NoLinks
    BY <1>2 DEF ReadLinks, Types, TypeOK, Stages, StageOf, Writing
  <2> QED BY <1>2, <2>1, RowsAreGood DEF LinksOf, GoodLink, NoLinks
<1>3. CASE WriteLink(r) BY <1>3, WriteStep
<1>4. ASSUME Advance(r, "write", "aborted") \/ Advance(r, "write", "score")
      PROVE  \A n \in Nullifiers : GoodLink(r, n)'
  BY <1>4 DEF Advance, history, LinksOf, GoodLink, Free
<1>5. CASE UniqueViolation(r)
  <2>1. pc'[r] = "aborted"
    BY <1>5 DEF UniqueViolation, Advance, Types, TypeOK
  <2> QED BY <1>4, <1>5, <2>1 DEF UniqueViolation, LinksOf
<1>6. CASE VerifyLinks(r)
  <2>1. pc'[r] = "score" /\ pc[r] = "write" /\ UNCHANGED <<address, loaded, mine>>
    BY <1>6 DEF VerifyLinks, Advance, Types, TypeOK
  <2>2. Checked(r)
    BY <1>6, <2>1, VerifiedIsChecked DEF VerifyLinks, LinksOf
  <2>3. Checked(r)'
    BY <2>1, <2>2 DEF Checked
  <2> QED BY <1>4, <1>6, <2>1, <2>3 DEF VerifyLinks, LinksOf
<1>7. CASE \/ Upload(r) \/ GetScore(r) \/ SoftDelete(r) \/ BulkInsert(r)
           \/ LoadStamps(r) \/ Commit(r) \/ BeginTransaction(r)
           \/ LoadCommunity(r) \/ UpsertPassport(r) \/ Rollback(r)
  <2>1. pc'[r] \in {"idle", "upload", "store", "begin", "community", "passport",
                    "stamps", "links"}
    BY <1>7 DEF Upload, GetScore, SoftDelete, BulkInsert, Store, LoadStamps,
       Commit, BeginTransaction, LoadCommunity, UpsertPassport, Rollback,
       Advance, Forget, Types, TypeOK
  <2> QED BY <1>1, <2>1 DEF Writing
<1> QED BY <1>2, <1>3, <1>5, <1>6, <1>7, StepCases

(* What a step does to the clock, the links and what overwrote them.       *)
LEMMA LinksMove ==
  ASSUME Types, NEW r \in Requests, Step(r)
  PROVE  /\ clock' = clock /\ overwritten \subseteq overwritten'
         /\ Commit(r) \/ UNCHANGED <<links, credited>>
<1>1. CASE Upload(r) BY <1>1 DEF Upload, history
<1>2. CASE GetScore(r) BY <1>2 DEF GetScore, history
<1>3. CASE SoftDelete(r) BY <1>3 DEF SoftDelete, history
<1>4. CASE BulkInsert(r) BY <1>4 DEF BulkInsert, Store
<1>5. CASE LoadStamps(r) BY <1>5 DEF LoadStamps, history
<1>6. CASE ReadLinks(r) BY <1>6 DEF ReadLinks, history
<1>7. CASE WriteLink(r) BY <1>7 DEF WriteLink, Write
<1>8. CASE Commit(r) BY <1>8 DEF Commit
<1>9. CASE Rollback(r) BY <1>9 DEF Rollback
<1>10. CASE Advances(r) BY <1>10 DEF Advances, Advance, history
<1> QED BY StepCases, <1>1, <1>2, <1>3, <1>4, <1>5, <1>6, <1>7, <1>8, <1>9, <1>10
        DEF Advances, BeginTransaction, LoadCommunity, UpsertPassport,
            UniqueViolation, VerifyLinks

(* A commit replaces the links that the transaction has written, which no  *)
(* other has.                                                              *)
LEMMA CommittedLinks ==
  ASSUME Types, NEW r \in Requests, Commit(r), NEW n \in Nullifiers
  PROVE  links'[n] = IF mine[r][n] # None THEN mine[r][n] ELSE links[n]
  BY DEF Commit, Visible

(* Another request's step keeps what a request's links promise.            *)
LEMMA OtherStep ==
  ASSUME Types, NEW r \in Requests, Step(r), NEW q \in Requests, q # r, LinksOf(q)
  PROVE  LinksOf(q)'
<1>1. Untouched(q) BY OthersUntouched
<1>2. clock' = clock /\ overwritten \subseteq overwritten'
  BY LinksMove
<1>3. ASSUME NEW n \in Nullifiers PROVE GoodLink(q, n)'
  <2>1. CASE mine[q][n] = None
    BY <1>1, <2>1 DEF Untouched, GoodLink
  <2>2. CASE mine[q][n] # None
    <3>1. mine[r][n] = None
      BY <2>2 DEF Types, TypeOK
    <3>2. links'[n] = links[n]
      BY <3>1, LinksMove, CommittedLinks
    <3>3. GoodLink(q, n)
      BY DEF LinksOf
    <3> QED BY <1>1, <1>2, <3>2, <3>3 DEF Untouched, GoodLink, Free
  <2> QED BY <2>1, <2>2
<1>4. pc'[q] = "write" => Covered(q)' /\ \A row \in todo'[q] : GoodRow(q, row)'
  BY <1>1, <1>2 DEF LinksOf, Untouched, Covered, GoodRow, Free
<1>5. pc'[q] = "score" => Checked(q)'
  BY <1>1 DEF LinksOf, Untouched, Checked
<1> QED BY <1>3, <1>4, <1>5 DEF LinksOf

(* What counts stays linked.                                               *)
LEMMA LinkedStep ==
  ASSUME Types, Linked, NEW r \in Requests, LinksOf(r), Step(r)
  PROVE  Linked'
<1>1. clock' = clock /\ overwritten \subseteq overwritten'
  BY LinksMove
<1>2. CASE UNCHANGED <<links, credited>>
  BY <1>1, <1>2 DEF Linked, OwnLink
<1>3. CASE Commit(r)
  <2> SUFFICES ASSUME NEW a \in Addresses, NEW c \in credited'[a],
                      NEW n \in NullifiersOf(c), ExpiresAt[c] > clock
               PROVE  OwnLink(a, c, links'[n]) \/ n \in overwritten'
    BY <1>1 DEF Linked
  <2>1. /\ pc[r] = "score" /\ address[r] \in Addresses
        /\ credited' = [credited EXCEPT ![address[r]] = loaded[r]]
    BY <1>3 DEF Commit, Types, TypeOK, Stages, StageOf
  <2>2. c \in Credentials /\ n \in Nullifiers
    BY <2>1, RustAssumption DEF Types, TypeOK
  <2>3. links'[n] = IF mine[r][n] # None THEN mine[r][n] ELSE links[n]
    BY <1>3, <2>2, CommittedLinks
  <2>4. CASE a = address[r]
    <3>1. c \in loaded[r]
      BY <2>1, <2>4 DEF Types, TypeOK
    <3>2. OwnLink(a, c, mine[r][n])
      BY <2>1, <2>4, <3>1 DEF LinksOf, Checked
    <3>3. mine[r][n] # None
      BY <2>2, <3>2, RustAssumption DEF OwnLink, Link
    <3> QED BY <2>3, <3>2, <3>3
  <2>5. CASE a # address[r]
    <3>1. c \in credited[a]
      BY <2>1, <2>5 DEF Types, TypeOK
    <3>2. OwnLink(a, c, links[n]) \/ n \in overwritten
      BY <3>1 DEF Linked
    <3>3. CASE n \in overwritten
      BY <1>1, <3>3
    <3>4. CASE OwnLink(a, c, links[n])
      <4>1. CASE mine[r][n] = None
        BY <2>3, <3>4, <4>1
      <4>2. CASE mine[r][n] # None
        <5>1. links[n] # None
          BY <2>2, <3>4, RustAssumption DEF OwnLink, Link
        <5>2. ~Free(address[r], links[n])
          BY <2>2, <2>5, <3>4, <5>1, RustAssumption
             DEF OwnLink, Free, Types, TypeOK
        <5>3. GoodLink(r, n)
          BY <2>2 DEF LinksOf
        <5> QED BY <1>1, <4>2, <5>2, <5>3 DEF GoodLink
      <4> QED BY <4>1, <4>2
    <3> QED BY <3>2, <3>3, <3>4
  <2> QED BY <2>4, <2>5
<1> QED BY <1>2, <1>3, LinksMove

(* The links of all requests and of all passports, whatever they do.       *)
LEMMA LinksStep == Types /\ Types' /\ LinksInv /\ [Next]_vars => LinksInv'
<1> SUFFICES ASSUME Types, Types', LinksInv, [Next]_vars PROVE LinksInv'
  OBVIOUS
<1>1. ASSUME NEW r \in Requests, Step(r) PROVE LinksInv'
  <2>1. Linked' BY <1>1, LinkedStep DEF LinksInv
  <2>2. LinksOf(r)' BY <1>1, OwnStep DEF LinksInv
  <2>3. ASSUME NEW q \in Requests, q # r PROVE LinksOf(q)'
    BY <1>1, <2>3, OtherStep DEF LinksInv
  <2> QED BY <2>1, <2>2, <2>3 DEF LinksInv
<1>2. CASE Tick
  <2>1. /\ clock' = clock + 1 /\ clock \in Nat
        /\ UNCHANGED <<links, credited, requests, overwritten>>
    BY <1>2 DEF Tick, history, Types, TypeOK
  <2>2. \A a : \A link \in Link \cup {None} : Free(a, link) => Free(a, link)'
    BY <2>1 DEF Free, Link
  <2>3. Linked'
    BY <2>1, RustAssumption DEF LinksInv, Linked, OwnLink, Types, TypeOK
  <2>4. ASSUME NEW r \in Requests PROVE LinksOf(r)'
    <3>1. LinksOf(r) BY DEF LinksInv
    <3>2. ASSUME NEW n \in Nullifiers PROVE GoodLink(r, n)'
      <4>1. links[n] \in Link \cup {None} /\ GoodLink(r, n)
        BY <3>1 DEF Types, TypeOK, LinksOf
      <4> QED BY <2>1, <2>2, <4>1 DEF GoodLink, requests
    <3>3. ASSUME pc[r] = "write", NEW row \in todo[r] PROVE GoodRow(r, row)'
      <4>1. row.was \in Link \cup {None} /\ GoodRow(r, row)
        BY <3>1, <3>3 DEF Types, TypeOK, LinksOf, Row
      <4> QED BY <2>1, <2>2, <4>1 DEF GoodRow, requests
    <3>4. pc[r] = "write" => Covered(r)'
      BY <2>1, <3>1 DEF LinksOf, Covered, requests
    <3>5. pc[r] = "score" => Checked(r)'
      BY <2>1, <3>1 DEF LinksOf, Checked, requests
    <3> QED BY <2>1, <3>2, <3>3, <3>4, <3>5 DEF LinksOf, requests
  <2> QED BY <2>3, <2>4 DEF LinksInv
<1>3. CASE DeleteStamps \/ UNCHANGED vars
  <2>1. UNCHANGED <<clock, links, credited, pc, address, loaded, todo, mine,
                    overwritten>>
    BY <1>3 DEF DeleteStamps, vars, requests, history
  <2> QED BY <2>1 DEF LinksInv, Linked, OwnLink, LinksOf, GoodLink, GoodRow, Free,
                      Covered, Checked
<1> QED BY <1>1, <1>2, <1>3, NextSteps

(* The inductive invariant of the Rust scorer holds in every reachable     *)
(* state.                                                                  *)
THEOREM Invariance == Spec => []RustInv
<1>1. Init => LinksInv
  BY RustAssumption DEF Init, LinksInv, Linked, LinksOf, GoodLink, NoLinks
<1>2. Types /\ Types' /\ LinksInv /\ [Next]_vars => LinksInv' BY LinksStep
<1> QED BY <1>1, <1>2, TypesInvariance, ScoresInvariance, PTL DEF Spec, RustInv

(* A nullifier that counts for an address is linked to it for as long as   *)
(* the stamp is valid, unless a transaction wrote over a link that another *)
(* had changed since it read it.                                           *)
THEOREM CreditsTheorem == Spec => []CreditsAreLinked
<1>1. RustInv => CreditsAreLinked
  <2> SUFFICES ASSUME RustInv, NEW a \in Addresses, NEW n \in Nullifiers,
                      LiveCredit(a, n), n \notin overwritten
               PROVE  links[n] # None /\ links[n].owner = a /\ links[n].expires > clock
    BY DEF CreditsAreLinked
  <2>1. PICK c \in credited[a] : n \in NullifiersOf(c) /\ ExpiresAt[c] > clock
    BY DEF LiveCredit
  <2>2. c \in Credentials
    BY DEF RustInv, Types, TypeOK
  <2>3. links[n] = [owner |-> a, expires |-> ExpiresAt[c]]
    BY <2>1 DEF RustInv, LinksInv, Linked, OwnLink
  <2>4. links[n] \in Link
    BY <2>2, <2>3, RustAssumption DEF Link
  <2> QED BY <2>1, <2>3, <2>4, RustAssumption
<1> QED BY <1>1, Invariance, PTL
=============================================================================
