-------------------------- MODULE LifoDedupProofs --------------------------
(***************************************************************************)
(* Proofs about LifoDedup, for any set of requests, addresses, nullifiers  *)
(* and passports, any number of tries and any clock.                       *)
(***************************************************************************)
EXTENDS LifoDedup, FiniteSetTheorems, TLAPS

USE DEF Time, shared, input, plan

-----------------------------------------------------------------------------
(* A stamp's nullifiers are nullifiers, with either setting of the flag    *)
(* (get_nullifiers).                                                       *)
LEMMA GetNullifiersType ==
  ASSUME NEW s \in Stamp
  PROVE  /\ get_nullifiers(s) \subseteq Nullifiers
         /\ get_nullifiers(s) \subseteq s.nullifiers
  BY ConstantsAssumption DEF Stamp, get_nullifiers

(* Hashes and the empty set of rows.                                       *)
LEMMA HashesOfNoRows == Hashes(NoRows) = {} /\ NoRows \in [Nullifiers -> LinkOrNone]
  BY DEF Hashes, NoRows, LinkOrNone

(* The row written for a nullifier of a kept stamp belongs to the address. *)
LEMMA RowForType ==
  ASSUME NEW stamps \in SUBSET Stamp, NEW n \in NullifiersOf(stamps),
         NEW a \in Addresses
  PROVE  /\ StampWith(stamps, n) \in stamps
         /\ n \in get_nullifiers(StampWith(stamps, n))
         /\ RowFor(stamps, n, a) \in Link
         /\ RowFor(stamps, n, a).address = a
         /\ RowFor(stamps, n, a) # None
<1>1. \E s \in stamps : n \in get_nullifiers(s)
  BY DEF NullifiersOf
<1>2. StampWith(stamps, n) \in stamps /\ n \in get_nullifiers(StampWith(stamps, n))
  BY <1>1 DEF StampWith
<1>3. StampWith(stamps, n).expires \in Nat
  BY <1>2 DEF Stamp
<1>4. RowFor(stamps, n, a) \in Link /\ RowFor(stamps, n, a).address = a
  BY <1>3 DEF RowFor, Link
<1> QED
  BY <1>2, <1>4, ConstantsAssumption

(* What an attempt updates: exactly the kept nullifiers that have a row.   *)
LEMMA RowsToUpdateLemma ==
  ASSUME NEW rows \in [Nullifiers -> LinkOrNone], NEW keeps \in SUBSET Stamp,
         NEW a \in Addresses
  PROVE  /\ RowsToUpdate(rows, keeps, a) \in [Nullifiers -> LinkOrNone]
         /\ Hashes(RowsToUpdate(rows, keeps, a)) = NullifiersOf(keeps) \cap Hashes(rows)
         /\ \A n \in Hashes(RowsToUpdate(rows, keeps, a)) :
              RowsToUpdate(rows, keeps, a)[n].address = a
<1> DEFINE u == RowsToUpdate(rows, keeps, a)
<1>1. \A n \in NullifiersOf(keeps) \cap Hashes(rows) :
        /\ RowFor(keeps, n, a) \in Link
        /\ RowFor(keeps, n, a).address = a
        /\ RowFor(keeps, n, a) # None
  BY RowForType
<1>2. u \in [Nullifiers -> LinkOrNone]
  BY <1>1 DEF RowsToUpdate, LinkOrNone
<1>3. \A n \in Nullifiers :
        /\ n \in NullifiersOf(keeps) \cap Hashes(rows) => u[n] = RowFor(keeps, n, a)
        /\ n \notin NullifiersOf(keeps) \cap Hashes(rows) => u[n] = None
  BY DEF RowsToUpdate
<1>4. Hashes(u) = NullifiersOf(keeps) \cap Hashes(rows)
  BY <1>1, <1>3 DEF Hashes
<1>5. \A n \in Hashes(u) : u[n].address = a
  BY <1>1, <1>3, <1>4 DEF Hashes
<1> QED
  BY <1>2, <1>4, <1>5

(* What an attempt inserts: the kept nullifiers without a row, and those   *)
(* of clashing stamps that do not clash themselves.                        *)
CreateInput(rows, keeps, clashes, clashingHashes, first, a) ==
  /\ rows \in [Nullifiers -> LinkOrNone]
  /\ keeps \in SUBSET Stamp
  /\ clashes \in SUBSET Stamp
  /\ clashingHashes \in SUBSET Hashes(rows)
  /\ \A s \in clashes : first[s] \in clashingHashes
  /\ a \in Addresses

(* bulk_create is given a link for each hash of the stamps that has none   *)
(* yet.                                                                    *)
LEMMA RowsToCreateLemma ==
  ASSUME NEW rows, NEW keeps, NEW clashes, NEW clashingHashes, NEW first, NEW a,
         CreateInput(rows, keeps, clashes, clashingHashes, first, a)
  PROVE  /\ RowsToCreate(rows, keeps, clashes, clashingHashes, first, a)
               \in [Nullifiers -> LinkOrNone]
         /\ Hashes(RowsToCreate(rows, keeps, clashes, clashingHashes, first, a)) =
               ((NullifiersOf(keeps) \ Hashes(rows))
                  \cup (NullifiersOf(clashes) \ clashingHashes)) \cap Nullifiers
<1> DEFINE c == RowsToCreate(rows, keeps, clashes, clashingHashes, first, a)
           Fresh == NullifiersOf(keeps) \ Hashes(rows)
           Copies == NullifiersOf(clashes) \ clashingHashes
<1> USE DEF CreateInput
<1>1. \A n \in Fresh : RowFor(keeps, n, a) \in Link /\ RowFor(keeps, n, a) # None
  BY RowForType
<1>2. \A n \in Copies : /\ rows[first[StampWith(clashes, n)]] \in LinkOrNone
                        /\ rows[first[StampWith(clashes, n)]] # None
  <2> SUFFICES ASSUME NEW n \in Copies
               PROVE  /\ rows[first[StampWith(clashes, n)]] \in LinkOrNone
                      /\ rows[first[StampWith(clashes, n)]] # None
    OBVIOUS
  <2>1. StampWith(clashes, n) \in clashes
    <3>1. \E s \in clashes : n \in get_nullifiers(s)
      BY DEF NullifiersOf
    <3> QED
      BY <3>1 DEF StampWith
  <2>2. first[StampWith(clashes, n)] \in Hashes(rows)
    BY <2>1
  <2> QED
    BY <2>2 DEF Hashes
<1>3. \A n \in Nullifiers :
        c[n] = IF n \in Fresh THEN RowFor(keeps, n, a)
               ELSE IF n \in Copies THEN rows[first[StampWith(clashes, n)]]
               ELSE None
  BY DEF RowsToCreate
<1>4. c \in [Nullifiers -> LinkOrNone]
  BY <1>1, <1>2 DEF RowsToCreate, LinkOrNone
<1>5. Hashes(c) = (Fresh \cup Copies) \cap Nullifiers
  BY <1>1, <1>2, <1>3 DEF Hashes
<1> QED
  BY <1>4, <1>5

(* The count that ends save_hash_links decides for every row at once: when *)
(* nothing is both inserted and updated, it comes out right only if each   *)
(* of the rows belongs to the address.                                     *)
LEMMA CountDecides ==
  ASSUME NEW A, NEW B, NEW C, IsFiniteSet(A), IsFiniteSet(B),
         A \cap B = {}, C \subseteq A \cup B,
         Cardinality(C) = Cardinality(A) + Cardinality(B)
  PROVE  C = A \cup B
<1>1. IsFiniteSet(A \cup B)
  BY FS_Union
<1>2. Cardinality(A \cup B) = Cardinality(A) + Cardinality(B)
  <2>1. Cardinality(A \cap B) = 0
    BY FS_EmptySet
  <2>2. Cardinality(A) \in Nat /\ Cardinality(B) \in Nat
    BY FS_CardinalityType
  <2>3. Cardinality(A \cup B) =
          Cardinality(A) + Cardinality(B) - Cardinality(A \cap B)
    BY FS_Union
  <2> QED
    BY <2>1, <2>2, <2>3
<1> QED
  BY <1>1, <1>2, FS_Subset

-----------------------------------------------------------------------------
(* What ReadLinks leaves in the local variables of the request: the facts  *)
(* about arun_lifo_dedup's decision that the invariants need.              *)
LEMMA ReadLinksPlan ==
  ASSUME TypeOK, ActiveInv, NEW r \in Requests, ReadLinks(r)
  PROVE  /\ creates' = [creates EXCEPT ![r] = creates'[r]]
         /\ creates'[r] \in [Nullifiers -> LinkOrNone]
         /\ updates'[r] \in [Nullifiers -> LinkOrNone]
         /\ kept'[r] \in SUBSET Stamp
         /\ clashing'[r] \in SUBSET Stamp
         /\ Hashes(updates'[r]) = NullifiersOf(kept'[r]) \cap Hashes(links)
         /\ \A n \in Hashes(updates'[r]) :
              /\ updates'[r][n].address = address[r]
              /\ n \notin ClashingHashes(links, address[r], nowAt[r])
         /\ NullifiersOf(kept'[r]) \subseteq
              Hashes(creates'[r]) \cup Hashes(updates'[r])
         /\ Hashes(creates'[r]) \cap Hashes(updates'[r]) = {}
         /\ \A s \in clashing'[r] : \E n \in get_nullifiers(s) :
              links[n] # None /\ links[n].address # address[r]
<1> DEFINE a == address[r]
           clashes == ClashingHashes(links, a, nowAt[r])
           deduped == ClashingStamps(passport[r], clashes)
           keeps == passport[r] \ deduped
<1>1. a \in Addresses
  BY DEF ActiveInv, ReadLinks
<1>2. /\ passport[r] \in SUBSET Stamp
      /\ \A s, t \in passport[r] : s # t => s.nullifiers \cap t.nullifiers = {}
  BY ConstantsAssumption DEF TypeOK
<1>3. deduped \in SUBSET Stamp /\ keeps \in SUBSET Stamp /\ deduped \cup keeps = passport[r]
  BY <1>2 DEF ClashingStamps
<1>4. clashes \in SUBSET Hashes(links)
  BY DEF ClashingHashes
<1>5. kept'[r] = keeps /\ clashing'[r] = deduped
      /\ updates'[r] = RowsToUpdate(links, keeps, a)
  BY DEF ReadLinks, TypeOK
<1>6. PICK first \in [deduped -> Nullifiers] :
        /\ \A s \in deduped : first[s] \in get_nullifiers(s) \cap clashes
        /\ creates' = [creates EXCEPT ![r] =
                         RowsToCreate(links, keeps, deduped, clashes, first, a)]
  BY DEF ReadLinks
<1>7. creates'[r] = RowsToCreate(links, keeps, deduped, clashes, first, a)
      /\ creates' = [creates EXCEPT ![r] = creates'[r]]
  BY <1>6 DEF TypeOK
<1>8. links \in [Nullifiers -> LinkOrNone]
  BY DEF TypeOK
<1>9. /\ updates'[r] \in [Nullifiers -> LinkOrNone]
      /\ Hashes(updates'[r]) = NullifiersOf(keeps) \cap Hashes(links)
      /\ \A n \in Hashes(updates'[r]) : updates'[r][n].address = a
  <2>1. /\ RowsToUpdate(links, keeps, a) \in [Nullifiers -> LinkOrNone]
        /\ Hashes(RowsToUpdate(links, keeps, a)) = NullifiersOf(keeps) \cap Hashes(links)
        /\ \A n \in Hashes(RowsToUpdate(links, keeps, a)) :
             RowsToUpdate(links, keeps, a)[n].address = a
    <3>1. keeps \in SUBSET Stamp
      BY <1>3
    <3> HIDE DEF a, keeps
    <3> QED
      BY <1>1, <1>8, <3>1, RowsToUpdateLemma, Zenon
  <2> QED
    BY <1>5, <2>1
<1>10. /\ creates'[r] \in [Nullifiers -> LinkOrNone]
       /\ Hashes(creates'[r]) =
             ((NullifiersOf(keeps) \ Hashes(links))
             \cup (NullifiersOf(deduped) \ clashes)) \cap Nullifiers
  <2>1. /\ RowsToCreate(links, keeps, deduped, clashes, first, a)
             \in [Nullifiers -> LinkOrNone]
        /\ Hashes(RowsToCreate(links, keeps, deduped, clashes, first, a)) =
             ((NullifiersOf(keeps) \ Hashes(links))
             \cup (NullifiersOf(deduped) \ clashes)) \cap Nullifiers
    <3>1. \A s \in deduped : first[s] \in clashes
      BY <1>6
    <3>2. keeps \in SUBSET Stamp /\ deduped \in SUBSET Stamp
      BY <1>3
    <3>3. CreateInput(links, keeps, deduped, clashes, first, a)
      BY <1>1, <1>4, <1>8, <3>1, <3>2 DEF CreateInput
    <3> HIDE DEF a, keeps, deduped, clashes
    <3> QED
      BY <3>3, RowsToCreateLemma
  <2> QED
    BY <1>7, <2>1
<1>11. NullifiersOf(keeps) \subseteq Nullifiers
  BY <1>3, GetNullifiersType DEF NullifiersOf
<1>12. NullifiersOf(keeps) \cap NullifiersOf(deduped) = {}
  <2> SUFFICES ASSUME NEW s \in keeps, NEW t \in deduped,
                      NEW n \in get_nullifiers(s) \cap get_nullifiers(t)
               PROVE  FALSE
    BY DEF NullifiersOf
  <2>1. s \in Stamp /\ t \in Stamp /\ s # t /\ s \in passport[r] /\ t \in passport[r]
    BY <1>3 DEF ClashingStamps
  <2>2. n \in s.nullifiers \cap t.nullifiers
    BY <2>1, GetNullifiersType
  <2> QED
    BY <1>2, <2>1, <2>2
<1>13. NullifiersOf(keeps) \cap clashes = {}
  BY DEF NullifiersOf, ClashingStamps
<1>14. \A s \in deduped : \E n \in get_nullifiers(s) :
         links[n] # None /\ links[n].address # a
  BY <1>6 DEF ClashingHashes, Hashes
<1> QED
  BY <1>3, <1>5, <1>7, <1>9, <1>10, <1>11, <1>12, <1>13, <1>14

-----------------------------------------------------------------------------
(* Init gives every variable a value of its type.                          *)
LEMMA InitType == Init => TypeOK /\ ActiveInv
  BY ConstantsAssumption, HashesOfNoRows DEF Init, TypeOK, ActiveInv, Stages, NoRows, LinkOrNone

(* A request that ends or starts an attempt anew has well-typed locals.    *)
LEMMA ForgetType ==
  ASSUME TypeOK, NEW r \in Requests, ForgetAttempt(r)
  PROVE  /\ nowAt' \in [Requests -> Time]
         /\ kept' \in [Requests -> SUBSET Stamp]
         /\ clashing' \in [Requests -> SUBSET Stamp]
         /\ creates' \in [Requests -> [Nullifiers -> LinkOrNone]]
         /\ updates' \in [Requests -> [Nullifiers -> LinkOrNone]]
  BY HashesOfNoRows DEF TypeOK, ForgetAttempt

(* The end of a request forgets its locals and keeps the types.            *)
LEMMA EndType ==
  ASSUME TypeOK, ActiveInv, NEW r \in Requests, EndRequest(r)
  PROVE  /\ pc' \in [Requests -> Stages]
         /\ address' \in [Requests -> Addresses \cup {None}]
         /\ passport' \in [Requests -> Passports \cup {{}}]
         /\ tries' \in [Requests -> 1..MaxTries]
         /\ ActiveInv'
  BY ConstantsAssumption DEF TypeOK, ActiveInv, EndRequest, Goto, Stages

(* Every step keeps the types.                                             *)
LEMMA NextType ==
  ASSUME TypeOK, ActiveInv, [Next]_vars
  PROVE  TypeOK' /\ ActiveInv'
<1>1. ASSUME NEW r \in Requests, NEW a \in Addresses, NEW P \in Passports,
             Arrive(r, a, P)
      PROVE  TypeOK' /\ ActiveInv'
  BY <1>1 DEF TypeOK, ActiveInv, Arrive, Goto, Stages
<1>2. ASSUME NEW r \in Requests, Start(r)
      PROVE  TypeOK' /\ ActiveInv'
  BY <1>2 DEF TypeOK, ActiveInv, Start, Goto, Stages
<1>3. ASSUME NEW r \in Requests, ReadLinks(r)
      PROVE  TypeOK' /\ ActiveInv'
  <2>1. /\ creates' = [creates EXCEPT ![r] = creates'[r]]
        /\ creates'[r] \in [Nullifiers -> LinkOrNone]
        /\ updates'[r] \in [Nullifiers -> LinkOrNone]
        /\ kept'[r] \in SUBSET Stamp
        /\ clashing'[r] \in SUBSET Stamp
    BY <1>3, ReadLinksPlan
  <2>2. /\ updates' = [updates EXCEPT ![r] = updates'[r]]
        /\ kept' = [kept EXCEPT ![r] = kept'[r]]
        /\ clashing' = [clashing EXCEPT ![r] = clashing'[r]]
        /\ \E stage \in {"finish", "create"} : pc' = [pc EXCEPT ![r] = stage]
        /\ pc[r] = "read"
        /\ UNCHANGED <<clock, links, credited, lapsed, address, passport, tries, nowAt>>
    BY <1>3 DEF TypeOK, ReadLinks, Goto
  <2>3. /\ creates' \in [Requests -> [Nullifiers -> LinkOrNone]]
        /\ updates' \in [Requests -> [Nullifiers -> LinkOrNone]]
    BY <2>1, <2>2 DEF TypeOK
  <2>4. /\ kept' \in [Requests -> SUBSET Stamp]
        /\ clashing' \in [Requests -> SUBSET Stamp]
    BY <2>1, <2>2 DEF TypeOK
  <2>5. pc' \in [Requests -> Stages] /\ ActiveInv'
    BY <2>2 DEF TypeOK, ActiveInv, Stages
  <2> QED
    BY <2>2, <2>3, <2>4, <2>5 DEF TypeOK
<1>4. ASSUME NEW r \in Requests, BulkCreate(r)
      PROVE  TypeOK' /\ ActiveInv'
  BY <1>4 DEF TypeOK, ActiveInv, BulkCreate, Expired, Hashes, Goto, Stages
<1>5. ASSUME NEW r \in Requests, BulkUpdate(r)
      PROVE  TypeOK' /\ ActiveInv'
  BY <1>5 DEF TypeOK, ActiveInv, BulkUpdate, Expired, Hashes, Goto, Stages
<1>6. ASSUME NEW r \in Requests, Verify(r)
      PROVE  TypeOK' /\ ActiveInv'
  BY <1>6 DEF TypeOK, ActiveInv, Verify, Goto, Stages
<1>7. ASSUME NEW r \in Requests, Retry(r)
      PROVE  TypeOK' /\ ActiveInv'
  <2>1. pc[r] # "idle"
    BY <1>7 DEF Retry, Conflict
  <2>2. tries' \in [Requests -> 1..MaxTries]
    BY <1>7, ConstantsAssumption DEF TypeOK, Retry
  <2> QED
    BY <1>7, <2>1, <2>2, ForgetType DEF TypeOK, ActiveInv, Retry, Goto, Stages
<1>8. ASSUME NEW r \in Requests, GiveUp(r)
      PROVE  TypeOK' /\ ActiveInv'
  <2>1. credited' \in [Addresses -> SUBSET Stamp]
    BY <1>8 DEF GiveUp, TypeOK
  <2>2. ForgetAttempt(r) /\ EndRequest(r) /\ UNCHANGED <<clock, links, lapsed>>
    BY <1>8 DEF GiveUp, EndRequest
  <2> QED
    BY <2>1, <2>2, ForgetType, EndType DEF TypeOK
<1>9. ASSUME NEW r \in Requests, Finish(r)
      PROVE  TypeOK' /\ ActiveInv'
  <2>1. credited' \in [Addresses -> SUBSET Stamp]
    BY <1>9 DEF Finish, TypeOK
  <2>2. ForgetAttempt(r) /\ EndRequest(r) /\ UNCHANGED <<clock, links, lapsed>>
    BY <1>9 DEF Finish, EndRequest
  <2> QED
    BY <2>1, <2>2, ForgetType, EndType DEF TypeOK
<1>10. ASSUME NEW r \in Requests, Crash(r)
       PROVE  TypeOK' /\ ActiveInv'
  <2>1. ForgetAttempt(r) /\ EndRequest(r)
        /\ UNCHANGED <<clock, links, credited, lapsed>>
    BY <1>10 DEF Crash, EndRequest
  <2> QED
    BY <2>1, ForgetType, EndType DEF TypeOK
<1>11. ASSUME Tick
       PROVE  TypeOK' /\ ActiveInv'
  BY <1>11 DEF TypeOK, ActiveInv, Tick, Expired, Hashes
<1>12. ASSUME UNCHANGED vars
       PROVE  TypeOK' /\ ActiveInv'
  BY <1>12 DEF TypeOK, ActiveInv, vars
<1> QED
  BY <1>1, <1>2, <1>3, <1>4, <1>5, <1>6, <1>7, <1>8, <1>9, <1>10, <1>11, <1>12
  DEF Next, Step

(* Every reachable state is well typed, and a running request scores an    *)
(* address.                                                                *)
THEOREM TypeCorrect == Spec => [](TypeOK /\ ActiveInv)
<1>1. Init => TypeOK /\ ActiveInv
  BY InitType
<1>2. (TypeOK /\ ActiveInv) /\ [Next]_vars => (TypeOK /\ ActiveInv)'
  BY NextType
<1> QED
  BY <1>1, <1>2, PTL DEF Spec

-----------------------------------------------------------------------------
(* Rows stay, and keep their owner until they lapse: what every other      *)
(* invariant rests on.                                                     *)
OwnersStay ==
  /\ lapsed \subseteq lapsed'
  /\ \A n \in Nullifiers : links[n] # None =>
       /\ links'[n] # None
       /\ n \notin lapsed => links'[n].address = links[n].address

(* No step of the inductive invariant takes an unexpired row from its      *)
(* owner.                                                                  *)
LEMMA StepsKeepOwners ==
  ASSUME IInv, [Next]_vars
  PROVE  OwnersStay
<1>1. CASE UNCHANGED <<links, lapsed>>
  BY <1>1 DEF OwnersStay
<1>2. ASSUME NEW r \in Requests, BulkCreate(r)
      PROVE  OwnersStay
  <2>1. \A n \in Nullifiers : links[n] # None => links'[n] = links[n]
    BY <1>2 DEF BulkCreate, Hashes
  <2>2. lapsed \subseteq lapsed'
    BY <1>2 DEF BulkCreate
  <2> QED
    BY <2>1, <2>2 DEF OwnersStay
<1>3. ASSUME NEW r \in Requests, BulkUpdate(r)
      PROVE  OwnersStay
  <2>1. \A n \in Nullifiers :
          links'[n] = IF updates[r][n] # None /\ links[n] # None
                      THEN updates[r][n] ELSE links[n]
    BY <1>3 DEF BulkUpdate
  <2>2. \A n \in Nullifiers : updates[r][n] # None =>
          /\ updates[r][n].address = address[r]
          /\ n \notin lapsed => links[n].address = address[r]
    BY DEF IInv, UpdatesInv, Hashes
  <2>3. lapsed \subseteq lapsed'
    BY <1>3 DEF BulkUpdate
  <2> QED
    BY <2>1, <2>2, <2>3 DEF OwnersStay
<1>4. CASE Tick
  BY <1>4 DEF Tick, OwnersStay
<1>5. ASSUME NEW r \in Requests, NEW a \in Addresses, NEW P \in Passports,
             Arrive(r, a, P)
      PROVE  UNCHANGED <<links, lapsed>>
  BY <1>5 DEF Arrive
<1>6. ASSUME NEW r \in Requests,
             \/ Start(r) \/ ReadLinks(r) \/ Verify(r) \/ Retry(r)
             \/ GiveUp(r) \/ Finish(r) \/ Crash(r)
      PROVE  UNCHANGED <<links, lapsed>>
  BY <1>6 DEF Start, ReadLinks, Verify, Retry, GiveUp, Finish, Crash
<1>7. CASE UNCHANGED vars
  BY <1>1, <1>7 DEF vars
<1> QED
  BY <1>1, <1>2, <1>3, <1>4, <1>5, <1>6, <1>7 DEF Next, Step

(* No attempt is ahead of the clock, and every expired row is noted.       *)
LEMMA NextTime ==
  ASSUME IInv, [Next]_vars
  PROVE  TimeInv'
<1> USE DEF TimeInv
<1>1. OwnersStay
  BY StepsKeepOwners
<1>2. /\ clock \in Nat /\ nowAt \in [Requests -> Nat]
      /\ \A q \in Requests : nowAt[q] <= clock
      /\ Expired(links, clock) \subseteq lapsed
      /\ lapsed \subseteq Hashes(links)
      /\ lapsed \subseteq Nullifiers
  BY DEF IInv, TypeOK
<1>3. lapsed \subseteq Hashes(links')
  BY <1>1, <1>2 DEF OwnersStay, Hashes
<1>4. ASSUME NEW r \in Requests, BulkCreate(r) \/ BulkUpdate(r)
      PROVE  TimeInv'
  <2>1. lapsed' = lapsed \cup Expired(links', clock) /\ UNCHANGED <<clock, nowAt>>
    BY <1>4 DEF BulkCreate, BulkUpdate
  <2>2. Expired(links', clock) \subseteq Hashes(links')
    BY DEF Expired
  <2> QED
    BY <1>2, <1>3, <2>1, <2>2 DEF Hashes, Expired
<1>5. CASE Tick
  <2>1. /\ lapsed' = lapsed \cup Expired(links, clock')
        /\ clock' = clock + 1 /\ UNCHANGED <<links, nowAt>>
    BY <1>5 DEF Tick
  <2>2. \A q \in Requests : nowAt'[q] <= clock'
    BY <1>2, <2>1
  <2>3. Expired(links, clock') \subseteq Hashes(links)
    BY DEF Expired
  <2> QED
    BY <1>2, <2>1, <2>2, <2>3 DEF Hashes, Expired
<1>6. ASSUME UNCHANGED <<clock, links, lapsed>>,
             \A q \in Requests : nowAt'[q] \in {nowAt[q], clock, 0}
      PROVE  TimeInv'
  BY <1>2, <1>6 DEF Hashes, Expired
<1>7. ASSUME NEW r \in Requests, NEW a \in Addresses, NEW P \in Passports,
             Arrive(r, a, P)
      PROVE  TimeInv'
  BY <1>6, <1>7 DEF Arrive
<1>8. ASSUME NEW r \in Requests, Start(r)
      PROVE  TimeInv'
  <2>1. \A q \in Requests : nowAt'[q] \in {nowAt[q], clock, 0}
    BY <1>2, <1>8 DEF Start
  <2> QED
    BY <1>6, <1>8, <2>1 DEF Start
<1>9. ASSUME NEW r \in Requests, ReadLinks(r) \/ Verify(r)
      PROVE  TimeInv'
  BY <1>6, <1>9 DEF ReadLinks, Verify
<1>10. ASSUME NEW r \in Requests, Retry(r) \/ GiveUp(r) \/ Finish(r) \/ Crash(r)
       PROVE  TimeInv'
  <2>1. ForgetAttempt(r) /\ UNCHANGED <<clock, links, lapsed>>
    BY <1>10 DEF Retry, GiveUp, Finish, Crash, EndRequest
  <2>2. \A q \in Requests : nowAt'[q] \in {nowAt[q], clock, 0}
    BY <1>2, <2>1 DEF ForgetAttempt
  <2> QED
    BY <1>6, <2>1, <2>2
<1>11. CASE UNCHANGED vars
  BY <1>6, <1>11 DEF vars
<1> QED
  BY <1>4, <1>5, <1>7, <1>8, <1>9, <1>10, <1>11 DEF Next, Step

(* The local variables of an attempt that has been forgotten.              *)
LEMMA Forgotten ==
  ASSUME TypeOK, NEW r \in Requests, ForgetAttempt(r)
  PROVE  /\ kept'[r] = {} /\ clashing'[r] = {} /\ updates'[r] = NoRows
         /\ \A q \in Requests \ {r} :
              /\ kept'[q] = kept[q] /\ clashing'[q] = clashing[q]
              /\ creates'[q] = creates[q] /\ updates'[q] = updates[q]
  BY DEF TypeOK, ForgetAttempt

(* A step of r changes only r's local variables: those of another request  *)
(* q stay, and so do r's own unless it reads the rows or forgets them.     *)
SameLocals(q) ==
  /\ pc'[q] = pc[q] /\ address'[q] = address[q]
  /\ kept'[q] = kept[q] /\ clashing'[q] = clashing[q]
  /\ creates'[q] = creates[q] /\ updates'[q] = updates[q]

(* A step of one request leaves the locals of the others alone.            *)
LEMMA OthersKeepLocals ==
  ASSUME TypeOK, NEW r \in Requests,
         (\E a \in Addresses, P \in Passports : Arrive(r, a, P)) \/ Step(r) \/ Crash(r)
  PROVE  \A q \in Requests \ {r} : SameLocals(q)
<1>1. ASSUME NEW a \in Addresses, NEW P \in Passports, Arrive(r, a, P)
      PROVE  \A q \in Requests \ {r} : SameLocals(q)
  BY <1>1 DEF TypeOK, SameLocals, Arrive, Goto
<1>2. CASE Start(r) \/ BulkCreate(r) \/ BulkUpdate(r) \/ Verify(r)
  BY <1>2 DEF TypeOK, SameLocals, Start, BulkCreate, BulkUpdate, Verify, Goto
<1>3. CASE ReadLinks(r)
  BY <1>3 DEF TypeOK, SameLocals, ReadLinks, Goto
<1>4. CASE Retry(r)
  BY <1>4 DEF TypeOK, SameLocals, Retry, ForgetAttempt, Goto
<1>5. CASE GiveUp(r) \/ Finish(r) \/ Crash(r)
  BY <1>5 DEF TypeOK, SameLocals, GiveUp, Finish, Crash, EndRequest, ForgetAttempt, Goto
<1> QED
  BY <1>1, <1>2, <1>3, <1>4, <1>5 DEF Step

(* One invariant of one request: UpdatesInv, CoverInv, KeptInv and ClashInv*)
(* say it of every request.                                                *)
UpdatesOf(q) ==
  /\ pc[q] \in {"idle", "start", "read"} => updates[q] = NoRows
  /\ \A n \in Hashes(updates[q]) :
       /\ links[n] # None
       /\ updates[q][n].address = address[q]
       /\ n \notin lapsed => links[n].address = address[q]

CoverOf(q) ==
  pc[q] \in Deciding =>
    /\ NullifiersOf(kept[q]) \subseteq Hashes(creates[q]) \cup Hashes(updates[q])
    /\ Hashes(creates[q]) \cap Hashes(updates[q]) = {}

KeptOf(q) ==
  pc[q] = "finish" =>
    \A n \in NullifiersOf(kept[q]) :
      n \notin lapsed => links[n] # None /\ links[n].address = address[q]

ClashOf(q) ==
  pc[q] \in Deciding \cup {"finish"} =>
    \A s \in clashing[q] : \E n \in get_nullifiers(s) :
      n \in lapsed \/ (links[n] # None /\ links[n].address # address[q])

RequestInv(q) == UpdatesOf(q) /\ CoverOf(q) /\ KeptOf(q) /\ ClashOf(q)

(* The invariants of the plans, request by request.                        *)
LEMMA RequestInvs ==
  (UpdatesInv /\ CoverInv /\ KeptInv /\ ClashInv)
    <=> \A q \in Requests : RequestInv(q)
  BY DEF UpdatesInv, CoverInv, KeptInv, ClashInv,
         RequestInv, UpdatesOf, CoverOf, KeptOf, ClashOf

(* The nullifiers of well-typed stamps.                                    *)
LEMMA NullifiersOfType ==
  ASSUME NEW stamps \in SUBSET Stamp
  PROVE  NullifiersOf(stamps) \subseteq Nullifiers
  BY GetNullifiersType DEF NullifiersOf

(* What is true of a request stays true while its locals stay.             *)
LEMMA RequestInvStays ==
  ASSUME IInv, OwnersStay, NEW q \in Requests, SameLocals(q)
  PROVE  RequestInv(q)'
<1>1. RequestInv(q)
  BY RequestInvs DEF IInv
<1>2. kept[q] \in SUBSET Stamp /\ clashing[q] \in SUBSET Stamp
  BY DEF IInv, TypeOK
<1>3. UpdatesOf(q)'
  <2>1. ASSUME NEW n \in Nullifiers, updates[q][n] # None
        PROVE  /\ links'[n] # None
               /\ updates[q][n].address = address[q]
               /\ n \notin lapsed' => links'[n].address = address[q]
    BY <1>1, <2>1 DEF RequestInv, UpdatesOf, OwnersStay, Hashes
  <2> QED
    BY <1>1, <2>1 DEF RequestInv, UpdatesOf, SameLocals, Hashes
<1>4. CoverOf(q)'
  BY <1>1 DEF RequestInv, CoverOf, SameLocals, Hashes
<1>5. KeptOf(q)'
  <2> SUFFICES ASSUME pc[q] = "finish", NEW n \in NullifiersOf(kept[q]), n \notin lapsed'
               PROVE  links'[n] # None /\ links'[n].address = address[q]
    BY DEF KeptOf, SameLocals
  <2>1. n \in Nullifiers
    BY <1>2, NullifiersOfType
  <2> QED
    BY <1>1, <2>1 DEF RequestInv, KeptOf, OwnersStay
<1>6. ClashOf(q)'
  <2> SUFFICES ASSUME pc[q] \in Deciding \cup {"finish"}, NEW s \in clashing[q]
               PROVE  \E n \in get_nullifiers(s) :
                        n \in lapsed' \/ (links'[n] # None /\ links'[n].address # address[q])
    BY DEF ClashOf, SameLocals
  <2>1. PICK n \in get_nullifiers(s) :
          n \in lapsed \/ (links[n] # None /\ links[n].address # address[q])
    BY <1>1 DEF RequestInv, ClashOf
  <2>2. n \in Nullifiers
    BY <1>2, GetNullifiersType
  <2> QED
    BY <2>1, <2>2 DEF OwnersStay
<1> QED
  BY <1>3, <1>4, <1>5, <1>6 DEF RequestInv

-----------------------------------------------------------------------------
(* The acting request keeps its invariant, one lemma for each kind of step.*)

(* A request whose attempt ends, or has not read any row, has no plan.     *)
LEMMA NoPlanInv ==
  ASSUME NEW q \in Requests, pc'[q] \in {"idle", "start", "read"},
         updates'[q] = NoRows
  PROVE  RequestInv(q)'
  BY HashesOfNoRows
  DEF RequestInv, UpdatesOf, CoverOf, KeptOf, ClashOf, Deciding, Hashes, NoRows

(* The plan that lifo() makes from the rows it has read satisfies the      *)
(* invariant.                                                              *)
LEMMA ReadLinksKeepsInv ==
  ASSUME IInv, NEW r \in Requests, ReadLinks(r)
  PROVE  RequestInv(r)'
<1>1. TypeOK /\ ActiveInv
  BY DEF IInv
<1>2. /\ kept'[r] \in SUBSET Stamp
      /\ clashing'[r] \in SUBSET Stamp
      /\ Hashes(updates'[r]) = NullifiersOf(kept'[r]) \cap Hashes(links)
      /\ \A n \in Hashes(updates'[r]) :
           /\ updates'[r][n].address = address[r]
           /\ n \notin ClashingHashes(links, address[r], nowAt[r])
      /\ NullifiersOf(kept'[r]) \subseteq Hashes(creates'[r]) \cup Hashes(updates'[r])
      /\ Hashes(creates'[r]) \cap Hashes(updates'[r]) = {}
      /\ \A s \in clashing'[r] : \E n \in get_nullifiers(s) :
           links[n] # None /\ links[n].address # address[r]
  BY <1>1, ReadLinksPlan
<1>3. /\ UNCHANGED <<links, lapsed, address>>
      /\ pc'[r] = IF creates'[r] = NoRows /\ updates'[r] = NoRows
                  THEN "finish" ELSE "create"
  BY <1>1 DEF ReadLinks, Goto, TypeOK
<1>4. UpdatesOf(r)'
  <2> SUFFICES ASSUME NEW n \in Hashes(updates'[r])
               PROVE  /\ links[n] # None
                      /\ updates'[r][n].address = address[r]
                      /\ n \notin lapsed => links[n].address = address[r]
    BY <1>3 DEF UpdatesOf, Hashes
  <2>1. n \in Hashes(links) /\ n \in Nullifiers
    BY <1>2 DEF Hashes
  <2>2. updates'[r][n].address = address[r]
    BY <1>2
  <2>3. ASSUME n \notin lapsed
        PROVE  links[n].address = address[r]
    <3>1. links[n] \in Link /\ clock \in Nat /\ nowAt[r] \in Nat /\ nowAt[r] <= clock
      BY <2>1 DEF IInv, TypeOK, TimeInv, Hashes, LinkOrNone
    <3>2. links[n].expires_at \in Nat /\ ~(links[n].expires_at <= clock)
      BY <2>1, <2>3, <3>1 DEF IInv, TimeInv, Expired, Link
    <3>3. links[n].expires_at > nowAt[r]
      BY <3>1, <3>2
    <3> QED
      BY <1>2, <2>1, <3>3 DEF ClashingHashes
  <2> QED
    BY <2>1, <2>2, <2>3 DEF Hashes
<1>5. CoverOf(r)'
  BY <1>2 DEF CoverOf, Hashes
<1>6. KeptOf(r)'
  <2> SUFFICES ASSUME creates'[r] = NoRows, updates'[r] = NoRows
               PROVE  NullifiersOf(kept'[r]) = {}
    BY <1>3 DEF KeptOf
  <2> QED
    BY <1>2, HashesOfNoRows
<1>7. ClashOf(r)'
  BY <1>2, <1>3 DEF ClashOf
<1> QED
  BY <1>4, <1>5, <1>6, <1>7 DEF RequestInv

(* Inserting and updating move on with the same plan.                      *)
LEMMA WritesKeepInv ==
  ASSUME IInv, OwnersStay, NEW r \in Requests, BulkCreate(r) \/ BulkUpdate(r)
  PROVE  RequestInv(r)'
<1>1. RequestInv(r)
  BY RequestInvs DEF IInv
<1>2. kept[r] \in SUBSET Stamp /\ clashing[r] \in SUBSET Stamp
  BY DEF IInv, TypeOK
<1>3. /\ pc[r] \in Deciding /\ pc'[r] \in Deciding
      /\ UNCHANGED <<address, kept, clashing, creates, updates>>
  BY DEF IInv, TypeOK, BulkCreate, BulkUpdate, Goto, Deciding
<1>4. UpdatesOf(r)'
  <2>1. ASSUME NEW n \in Nullifiers, updates[r][n] # None
        PROVE  /\ links'[n] # None
               /\ updates[r][n].address = address[r]
               /\ n \notin lapsed' => links'[n].address = address[r]
    BY <1>1, <2>1 DEF RequestInv, UpdatesOf, OwnersStay, Hashes
  <2> QED
    BY <1>3, <2>1 DEF UpdatesOf, Hashes, Deciding
<1>5. CoverOf(r)'
  BY <1>1, <1>3 DEF RequestInv, CoverOf, Hashes
<1>6. KeptOf(r)'
  BY <1>3 DEF KeptOf, Deciding
<1>7. ClashOf(r)'
  <2> SUFFICES ASSUME NEW s \in clashing[r]
               PROVE  \E n \in get_nullifiers(s) :
                        n \in lapsed' \/ (links'[n] # None /\ links'[n].address # address[r])
    BY <1>3 DEF ClashOf
  <2>1. PICK n \in get_nullifiers(s) :
          n \in lapsed \/ (links[n] # None /\ links[n].address # address[r])
    BY <1>1, <1>3 DEF RequestInv, ClashOf
  <2>2. n \in Nullifiers
    BY <1>2, GetNullifiersType
  <2> QED
    BY <2>1, <2>2 DEF OwnersStay
<1> QED
  BY <1>4, <1>5, <1>6, <1>7 DEF RequestInv

(* The count comes out right: every row of the plan is the request's own.  *)
LEMMA VerifyKeepsInv ==
  ASSUME IInv, NEW r \in Requests, Verify(r)
  PROVE  RequestInv(r)'
<1>1. RequestInv(r)
  BY RequestInvs DEF IInv
<1>2. /\ pc[r] = "verify" /\ pc'[r] = "finish"
      /\ Cardinality(OwnRows(r)) = ExpectedRows(r)
      /\ UNCHANGED <<links, lapsed, address, kept, clashing, creates, updates>>
  BY DEF IInv, TypeOK, Verify, Goto
<1>3. OwnRows(r) = Hashes(creates[r]) \cup Hashes(updates[r])
  <2>1. IsFiniteSet(Hashes(creates[r])) /\ IsFiniteSet(Hashes(updates[r]))
    BY ConstantsAssumption, FS_Subset DEF Hashes
  <2>2. Hashes(creates[r]) \cap Hashes(updates[r]) = {}
    BY <1>1, <1>2 DEF RequestInv, CoverOf, Deciding
  <2>3. OwnRows(r) \subseteq Hashes(creates[r]) \cup Hashes(updates[r])
    BY DEF OwnRows
  <2>4. Cardinality(OwnRows(r)) =
          Cardinality(Hashes(creates[r])) + Cardinality(Hashes(updates[r]))
    BY <1>2 DEF ExpectedRows
  <2> QED
    BY <2>1, <2>2, <2>3, <2>4, CountDecides
<1>4. \A n \in NullifiersOf(kept[r]) :
        links[n] # None /\ links[n].address = address[r]
  BY <1>1, <1>2, <1>3 DEF RequestInv, CoverOf, Deciding, OwnRows
<1>5. UpdatesOf(r)'
  BY <1>1, <1>2 DEF RequestInv, UpdatesOf, Hashes
<1>6. CoverOf(r)'
  BY <1>2 DEF CoverOf, Deciding
<1>7. KeptOf(r)'
  BY <1>2, <1>4 DEF KeptOf
<1>8. ClashOf(r)'
  BY <1>1, <1>2 DEF RequestInv, ClashOf, Deciding
<1> QED
  BY <1>5, <1>6, <1>7, <1>8 DEF RequestInv

(* Every request keeps its invariant in every step.                        *)
LEMMA NextRequestInv ==
  ASSUME IInv, [Next]_vars
  PROVE  \A q \in Requests : RequestInv(q)'
<1> USE DEF IInv
<1>1. OwnersStay
  BY StepsKeepOwners
<1>2. \A q \in Requests : RequestInv(q)
  BY RequestInvs
<1>3. ASSUME NEW r \in Requests,
             (\E a \in Addresses, P \in Passports : Arrive(r, a, P)) \/ Step(r) \/ Crash(r),
             RequestInv(r)'
      PROVE  \A q \in Requests : RequestInv(q)'
  <2> SUFFICES ASSUME NEW q \in Requests, q # r
               PROVE  RequestInv(q)'
    BY <1>3
  <2>1. SameLocals(q)
    BY <1>3, OthersKeepLocals
  <2> QED
    BY <1>1, <2>1, RequestInvStays
<1>4. ASSUME NEW r \in Requests, NEW a \in Addresses, NEW P \in Passports,
             Arrive(r, a, P)
      PROVE  RequestInv(r)'
  <2>1. pc'[r] = "start" /\ updates'[r] = updates[r] /\ pc[r] = "idle"
    BY <1>4 DEF TypeOK, Arrive, Goto
  <2>2. updates[r] = NoRows
    BY <1>2, <2>1 DEF RequestInv, UpdatesOf
  <2> QED
    BY <2>1, <2>2, NoPlanInv
<1>5. ASSUME NEW r \in Requests, Start(r)
      PROVE  RequestInv(r)'
  <2>1. pc'[r] = "read" /\ updates'[r] = updates[r] /\ pc[r] = "start"
    BY <1>5 DEF TypeOK, Start, Goto
  <2>2. updates[r] = NoRows
    BY <1>2, <2>1 DEF RequestInv, UpdatesOf
  <2> QED
    BY <2>1, <2>2, NoPlanInv
<1>6. ASSUME NEW r \in Requests, Retry(r) \/ GiveUp(r) \/ Finish(r) \/ Crash(r)
      PROVE  RequestInv(r)'
  <2>1. ForgetAttempt(r) /\ pc'[r] \in {"idle", "start"}
    BY <1>6 DEF TypeOK, Retry, GiveUp, Finish, Crash, EndRequest, Goto
  <2>2. updates'[r] = NoRows
    BY <2>1, Forgotten
  <2> QED
    BY <2>1, <2>2, NoPlanInv
<1>7. ASSUME NEW r \in Requests, Step(r) \/ Crash(r)
      PROVE  RequestInv(r)'
  BY <1>1, <1>5, <1>6, <1>7, ReadLinksKeepsInv, WritesKeepInv, VerifyKeepsInv DEF Step
<1>8. ASSUME Tick \/ UNCHANGED vars, NEW q \in Requests
      PROVE  RequestInv(q)'
  <2>1. SameLocals(q)
    BY <1>8 DEF Tick, vars, SameLocals
  <2> QED
    BY <1>1, <2>1, RequestInvStays
<1> QED
  BY <1>3, <1>4, <1>7, <1>8 DEF Next

(* What an address is credited for stays backed: a request credits only    *)
(* what it has counted, and the others take nothing that has not lapsed.   *)
LEMMA NextCredit ==
  ASSUME IInv, [Next]_vars
  PROVE  CreditIsBacked'
<1> USE DEF IInv
<1>1. OwnersStay
  BY StepsKeepOwners
<1>2. \A a \in Addresses : \A s \in credited[a] : get_nullifiers(s) \subseteq Nullifiers
  BY GetNullifiersType DEF TypeOK
<1>3. ASSUME NEW a \in Addresses, credited'[a] \in {credited[a], {}},
             NEW s \in credited'[a], NEW n \in get_nullifiers(s), n \notin lapsed'
      PROVE  links'[n] # None /\ links'[n].address = a
  <2>1. s \in credited[a] /\ n \in Nullifiers
    BY <1>2, <1>3
  <2> QED
    BY <1>1, <1>3, <2>1 DEF CreditIsBacked, OwnersStay
<1>4. ASSUME \A a \in Addresses : credited'[a] \in {credited[a], {}}
      PROVE  CreditIsBacked'
  BY <1>3, <1>4 DEF CreditIsBacked
<1>5. ASSUME NEW r \in Requests, Finish(r)
      PROVE  CreditIsBacked'
  <2>1. /\ pc[r] = "finish" /\ UNCHANGED <<links, lapsed>>
        /\ credited' = [credited EXCEPT ![address[r]] = kept[r]]
    BY <1>5 DEF Finish
  <2>2. \A s \in kept[r] : \A n \in get_nullifiers(s) :
          n \notin lapsed => links[n] # None /\ links[n].address = address[r]
    BY <2>1, RequestInvs DEF RequestInv, KeptOf, NullifiersOf
  <2>3. \A a \in Addresses : credited'[a] = IF a = address[r] THEN kept[r] ELSE credited[a]
    BY <2>1 DEF TypeOK
  <2> QED
    BY <2>1, <2>2, <2>3 DEF CreditIsBacked
<1>6. ASSUME NEW r \in Requests, GiveUp(r)
      PROVE  \A a \in Addresses : credited'[a] \in {credited[a], {}}
  BY <1>6 DEF GiveUp, TypeOK
<1>7. ASSUME NEW r \in Requests, NEW a \in Addresses, NEW P \in Passports,
             Arrive(r, a, P)
      PROVE  UNCHANGED credited
  BY <1>7 DEF Arrive
<1>8. ASSUME NEW r \in Requests,
             \/ Start(r) \/ ReadLinks(r) \/ BulkCreate(r) \/ BulkUpdate(r)
             \/ Verify(r) \/ Retry(r) \/ Crash(r)
      PROVE  UNCHANGED credited
  BY <1>8 DEF Start, ReadLinks, BulkCreate, BulkUpdate, Verify, Retry, Crash
<1>9. CASE Tick \/ UNCHANGED vars
  BY <1>4, <1>9 DEF Tick, vars
<1> QED
  BY <1>4, <1>5, <1>6, <1>7, <1>8, <1>9 DEF Next, Step

(* The inductive invariant holds in every reachable state.                 *)
THEOREM Invariance == Spec => []IInv
<1>1. Init => IInv
  <2> SUFFICES ASSUME Init
               PROVE  IInv
    OBVIOUS
  <2>1. TypeOK /\ ActiveInv
    BY InitType
  <2>2. TimeInv
    BY HashesOfNoRows DEF Init, TimeInv, Expired
  <2>3. \A q \in Requests : RequestInv(q)
    BY HashesOfNoRows
    DEF Init, RequestInv, UpdatesOf, CoverOf, KeptOf, ClashOf, Deciding
  <2>4. CreditIsBacked
    BY DEF Init, CreditIsBacked
  <2> QED
    BY <2>1, <2>2, <2>3, <2>4, RequestInvs DEF IInv
<1>2. IInv /\ [Next]_vars => IInv'
  <2> SUFFICES ASSUME IInv, [Next]_vars
               PROVE  IInv'
    OBVIOUS
  <2>1. TypeOK' /\ ActiveInv'
    BY NextType DEF IInv
  <2>2. \A q \in Requests : RequestInv(q)'
    BY NextRequestInv
  <2>3. UpdatesInv' /\ CoverInv' /\ KeptInv' /\ ClashInv'
    BY <2>2 DEF UpdatesInv, CoverInv, KeptInv, ClashInv,
                RequestInv, UpdatesOf, CoverOf, KeptOf, ClashOf
  <2> QED
    BY <2>1, <2>3, NextTime, NextCredit DEF IInv
<1> QED
  BY <1>1, <1>2, PTL DEF Spec

-----------------------------------------------------------------------------
(* An address is credited only for nullifiers whose rows it owns, unless   *)
(* they have lapsed.                                                       *)
THEOREM CreditTheorem == Spec => []CreditIsBacked
<1>1. IInv => CreditIsBacked
  BY DEF IInv
<1> QED
  BY <1>1, Invariance, PTL

(* Two addresses are credited for the same nullifier only if its row has   *)
(* expired at some moment, whatever the interleaving of their requests.    *)
THEOREM ExclusivityTheorem == Spec => []ExclusiveUnlessLapsed
<1>1. IInv => ExclusiveUnlessLapsed
  <2> SUFFICES ASSUME IInv, NEW a \in Addresses, NEW b \in Addresses, a # b,
                      NEW n \in NullifiersOf(credited[a]) \cap NullifiersOf(credited[b]),
                      n \notin lapsed
               PROVE  FALSE
    BY DEF ExclusiveUnlessLapsed
  <2>1. links[n].address = a /\ links[n].address = b
    BY DEF IInv, CreditIsBacked, NullifiersOf
  <2> QED
    BY <2>1
<1> QED
  BY <1>1, Invariance, PTL

(* A stamp is reported as deduplicated only if it clashes with another     *)
(* address's nullifier, or one that has expired.                           *)
THEOREM ReportsTheorem == Spec => []ReportsAreJustified
<1>1. IInv => ReportsAreJustified
  BY DEF IInv, ClashInv, ReportsAreJustified
<1> QED
  BY <1>1, Invariance, PTL

(* No statement of a request removes a row or takes it from an owner that  *)
(* kept it alive all the time.                                             *)
THEOREM OwnersTheorem == Spec => OwnersKeepUnexpiredRows
<1>1. IInv /\ [Next]_vars =>
        [\A n \in Hashes(links) :
           /\ links'[n] # None
           /\ links'[n].address # links[n].address => n \in lapsed]_links
  BY StepsKeepOwners DEF OwnersStay, Hashes
<1> QED
  BY <1>1, Invariance, PTL DEF Spec, OwnersKeepUnexpiredRows

(* The rows, statements and retries of lifo.py implement the registry.     *)
THEOREM RefinementTheorem == Spec => ImplementsRegistry
<1> DEFINE own == [n \in Nullifiers |->
                     IF links[n] = None THEN None ELSE links[n].address]
           hold == [a \in Addresses |-> NullifiersOf(credited[a])]
<1>1. Init => Registry!RegInit
  BY DEF Init, Registry!RegInit, NoRows, NullifiersOf
<1>2. IInv /\ IInv' /\ [Next]_vars => [Registry!RegNext]_(Registry!regVars)
  <2> SUFFICES ASSUME IInv, IInv', [Next]_vars
               PROVE  [Registry!RegNext]_(Registry!regVars)
    OBVIOUS
  <2> USE DEF IInv
  <2>1. OwnersStay
    BY StepsKeepOwners
  <2>2. ASSUME UNCHANGED credited
        PROVE  Registry!Register
    <3>1. \A n \in Nullifiers : links[n] # None =>
            links[n] \in Link /\ links[n].address \in Addresses /\ links[n].address # None
      BY ConstantsAssumption DEF TypeOK, LinkOrNone, Link
    <3>2. \A n \in Nullifiers : links'[n] # None =>
            links'[n] \in Link /\ links'[n].address \in Addresses /\ links'[n].address # None
      BY ConstantsAssumption DEF TypeOK, LinkOrNone, Link
    <3>3. own' \in [Nullifiers -> Addresses \cup {None}]
      BY <3>2
    <3>4. \A n \in Nullifiers : own'[n] # own[n] =>
            own'[n] # None /\ (own[n] = None \/ n \in lapsed)
      BY <2>1, <3>1, <3>2 DEF OwnersStay
    <3>5. lapsed' \in SUBSET {n \in Nullifiers : own'[n] # None}
      BY <3>2 DEF TimeInv, Hashes
    <3>6. lapsed \subseteq lapsed'
      BY <2>1 DEF OwnersStay
    <3>7. hold' = hold
      BY <2>2
    <3> QED
      BY <3>3, <3>4, <3>5, <3>6, <3>7 DEF Registry!Register
  <2>3. ASSUME NEW r \in Requests, Finish(r) \/ GiveUp(r)
        PROVE  Registry!RegNext
    <3>1. PICK S \in {kept[r], {}} :
            /\ credited' = [credited EXCEPT ![address[r]] = S]
            /\ S = kept[r] => pc[r] = "finish" \/ S = {}
      BY <2>3 DEF Finish, GiveUp
    <3>2. address[r] \in Addresses /\ UNCHANGED <<links, lapsed>>
      BY <2>3 DEF Finish, GiveUp, Conflict, ActiveInv
    <3>3. S \in SUBSET Stamp
      BY <3>1 DEF TypeOK
    <3>4. NullifiersOf(S) \in SUBSET Nullifiers
      BY <3>3, NullifiersOfType
    <3>5. \A n \in NullifiersOf(S) : own[n] = address[r] \/ n \in lapsed
      <4>1. CASE S = {}
        BY <4>1 DEF NullifiersOf
      <4>2. CASE S # {}
        BY <3>1, <3>4, <4>2 DEF KeptInv
      <4> QED
        BY <4>1, <4>2
    <3>6. hold' = [hold EXCEPT ![address[r]] = NullifiersOf(S)]
      BY <3>1, <3>2 DEF TypeOK
    <3>7. own' = own
      BY <3>2
    <3>8. Registry!Credit(address[r], NullifiersOf(S))
      BY <3>2, <3>5, <3>6, <3>7 DEF Registry!Credit
    <3> QED
      BY <3>2, <3>4, <3>8 DEF Registry!RegNext
  <2>4. ASSUME NEW r \in Requests, NEW a \in Addresses, NEW P \in Passports,
               Arrive(r, a, P)
        PROVE  UNCHANGED credited
    BY <2>4 DEF Arrive
  <2>5. ASSUME NEW r \in Requests,
               \/ Start(r) \/ ReadLinks(r) \/ BulkCreate(r) \/ BulkUpdate(r)
               \/ Verify(r) \/ Retry(r) \/ Crash(r)
        PROVE  UNCHANGED credited
    BY <2>5 DEF Start, ReadLinks, BulkCreate, BulkUpdate, Verify, Retry, Crash
  <2>6. CASE Tick
    BY <2>2, <2>6 DEF Tick, Registry!RegNext
  <2>7. CASE UNCHANGED vars
    BY <2>2, <2>7 DEF vars, Registry!RegNext
  <2> QED
    BY <2>2, <2>3, <2>4, <2>5, <2>6, <2>7 DEF Next, Step, Registry!RegNext
<1> QED
  BY <1>1, <1>2, Invariance, PTL DEF Spec, ImplementsRegistry, Registry!RegSpec
-----------------------------------------------------------------------------
(***************************************************************************)
(* One request at a time, and no crash in the middle of one: the rows are  *)
(* exact, and no nullifier counts twice at a time.                         *)
(***************************************************************************)
RowOf(r, s) == [address |-> address[r], expires_at |-> s.expires]
Busy(a) == \E r \in Requests : pc[r] # "idle" /\ address[r] = a

(* What a request is about to write, and then has written, are the rows of *)
(* the stamps it keeps.                                                    *)
ExactPlan(r) ==
  pc[r] \in Deciding =>
    \A s \in kept[r] : \A n \in get_nullifiers(s) :
      creates[r][n] = RowOf(r, s) \/ updates[r][n] = RowOf(r, s)

(* What it is about to overwrite is its own or has expired.                *)
OwnOrExpired(r) ==
  pc[r] \in {"create", "update"} =>
    \A n \in Hashes(updates[r]) :
      links[n].address = address[r] \/ links[n].expires_at <= clock

Created(r) ==
  pc[r] \in {"update", "verify"} =>
    \A n \in Hashes(creates[r]) : links[n] = creates[r][n]

Updated(r) ==
  pc[r] = "verify" => \A n \in Hashes(updates[r]) : links[n] = updates[r][n]

ExactLinks(r) ==
  pc[r] = "finish" =>
    \A s \in kept[r] : \A n \in get_nullifiers(s) : links[n] = RowOf(r, s)

Exact(r) ==
  ExactPlan(r) /\ OwnOrExpired(r) /\ Created(r) /\ Updated(r) /\ ExactLinks(r)

(* A live stamp's nullifiers are linked to the address that counts it, and *)
(* for as long, unless a request is serving that address.                  *)
LiveLinks ==
  \A a \in Addresses : \A s \in credited[a] : \A n \in get_nullifiers(s) :
    s.expires > clock =>
      /\ links[n] # None /\ links[n].address = a
      /\ links[n].expires_at = s.expires \/ Busy(a)

SerialInv == LiveLinks /\ \A r \in Requests : Exact(r)

(* What an attempt writes for a kept stamp is the row of that stamp.       *)
LEMMA ReadLinksRows ==
  ASSUME IInv, NEW r \in Requests, ReadLinks(r),
         NEW s \in kept'[r], NEW n \in get_nullifiers(s)
  PROVE  creates'[r][n] = RowOf(r, s) \/ updates'[r][n] = RowOf(r, s)
<1> DEFINE a == address[r]
           clashes == ClashingHashes(links, a, nowAt[r])
           deduped == ClashingStamps(passport[r], clashes)
           keeps == passport[r] \ deduped
<1>1. /\ kept'[r] = keeps /\ updates'[r] = RowsToUpdate(links, keeps, a)
      /\ \E first : creates'[r] = RowsToCreate(links, keeps, deduped, clashes, first, a)
  BY DEF IInv, TypeOK, ReadLinks
<1>2. /\ passport[r] \in SUBSET Stamp
      /\ \A t, u \in passport[r] : t # u => t.nullifiers \cap u.nullifiers = {}
  BY ConstantsAssumption DEF IInv, TypeOK
<1>3. s \in keeps /\ keeps \in SUBSET Stamp
  BY <1>1, <1>2
<1>4. n \in Nullifiers /\ n \in NullifiersOf(keeps)
  BY <1>3, GetNullifiersType DEF NullifiersOf
<1>5. StampWith(keeps, n) = s
  <2>1. StampWith(keeps, n) \in keeps /\ n \in get_nullifiers(StampWith(keeps, n))
    BY <1>3 DEF StampWith
  <2>2. StampWith(keeps, n) \in Stamp /\ StampWith(keeps, n) \in passport[r]
        /\ s \in Stamp /\ s \in passport[r]
    BY <1>3, <2>1
  <2>3. n \in StampWith(keeps, n).nullifiers /\ n \in s.nullifiers
    BY <2>1, <2>2, GetNullifiersType
  <2> QED BY <1>2, <2>2, <2>3
<1>6. RowFor(keeps, n, a) = RowOf(r, s)
  BY <1>5 DEF RowFor, RowOf
<1> HIDE DEF a, keeps, deduped, clashes
<1>7. CASE n \in Hashes(links)
  BY <1>1, <1>4, <1>6, <1>7 DEF RowsToUpdate
<1>8. CASE n \notin Hashes(links)
  BY <1>1, <1>4, <1>6, <1>8 DEF RowsToCreate
<1> QED BY <1>7, <1>8

(* The row of a stamp is a row.                                            *)
LEMMA RowOfType ==
  ASSUME TypeOK, NEW r \in Requests, address[r] \in Addresses, NEW s \in Stamp
  PROVE  RowOf(r, s) \in Link /\ RowOf(r, s) # None
         /\ RowOf(r, s).address = address[r] /\ RowOf(r, s).expires_at = s.expires
<1>1. s.expires \in Nat BY DEF Stamp
<1> QED BY <1>1, ConstantsAssumption DEF RowOf, Link

(* A request keeps what it says of its rows, where no other one runs.      *)
LEMMA ExactStep ==
  ASSUME IInv, NEW r \in Requests, Exact(r), Step(r)
  PROVE  Exact(r)'
<1> USE DEF Goto
<1>1. TypeOK /\ ActiveInv /\ TimeInv /\ UpdatesInv /\ CoverInv BY DEF IInv
<1>2. ASSUME pc'[r] \in {"idle", "start", "read"} PROVE Exact(r)'
  BY <1>2 DEF Exact, ExactPlan, OwnOrExpired, Created, Updated, ExactLinks, Deciding
<1>3. CASE Start(r) \/ Retry(r) \/ GiveUp(r) \/ Finish(r)
  <2>1. pc'[r] \in {"idle", "start", "read"}
    BY <1>1, <1>3 DEF Start, Retry, GiveUp, Finish, EndRequest, TypeOK
  <2> QED BY <1>2, <2>1
<1>4. CASE ReadLinks(r)
  <2>1. /\ pc'[r] = IF creates'[r] = NoRows /\ updates'[r] = NoRows
                    THEN "finish" ELSE "create"
        /\ UNCHANGED <<clock, links, address, nowAt>> /\ kept'[r] \in SUBSET Stamp
        /\ address[r] \in Addresses
    BY <1>1, <1>4, ReadLinksPlan, ZenonT(60) DEF ReadLinks, TypeOK, ActiveInv
  <2>2. \A n \in Hashes(updates'[r]) :
          n \in Hashes(links) /\ n \notin ClashingHashes(links, address[r], nowAt[r])
    BY <1>1, <1>4, ReadLinksPlan
  <2>3. \A s \in kept'[r] : \A n \in get_nullifiers(s) :
          creates'[r][n] = RowOf(r, s) \/ updates'[r][n] = RowOf(r, s)
    BY <1>4, ReadLinksRows
  <2>4. \A s \in kept'[r] : RowOf(r, s)' = RowOf(r, s) /\ RowOf(r, s) # None
    BY <1>1, <2>1, RowOfType DEF RowOf
  <2>5. ExactPlan(r)'
    BY <2>1, <2>3, <2>4 DEF ExactPlan
  <2>6. OwnOrExpired(r)'
    <3> SUFFICES ASSUME NEW n \in Hashes(updates'[r])
                 PROVE  links[n].address = address[r] \/ links[n].expires_at <= clock
      BY <2>1 DEF OwnOrExpired
    <3>1. links[n] \in Link /\ ~(links[n].address # address[r] /\ links[n].expires_at > nowAt[r])
      BY <1>1, <2>2 DEF ClashingHashes, Hashes, TypeOK, LinkOrNone
    <3>2. nowAt[r] <= clock /\ nowAt[r] \in Nat /\ clock \in Nat
      BY <1>1 DEF TimeInv, TypeOK
    <3>3. links[n].expires_at \in Nat
      BY <3>1 DEF Link
    <3> QED BY <3>1, <3>2, <3>3
  <2>7. ExactLinks(r)'
    <3> SUFFICES ASSUME creates'[r] = NoRows, updates'[r] = NoRows,
                        NEW s \in kept'[r], NEW n \in get_nullifiers(s)
                 PROVE  FALSE
      BY <2>1 DEF ExactLinks
    <3>1. n \in Nullifiers
      BY <2>1, GetNullifiersType
    <3> QED BY <2>3, <2>4, <3>1 DEF NoRows
  <2> QED BY <2>1, <2>5, <2>6, <2>7 DEF Exact, Created, Updated
<1>5. CASE BulkCreate(r)
  <2>1. /\ pc[r] = "create" /\ pc'[r] = "update"
        /\ UNCHANGED <<clock, address, kept, creates, updates>>
        /\ Hashes(creates[r]) \cap Hashes(links) = {}
        /\ \A n \in Nullifiers :
             links'[n] = IF creates[r][n] # None THEN creates[r][n] ELSE links[n]
    BY <1>1, <1>5 DEF BulkCreate, TypeOK
  <2>2. \A n \in Hashes(updates[r]) : links'[n] = links[n]
    BY <1>1, <2>1 DEF CoverInv, Deciding, Hashes
  <2>3. OwnOrExpired(r)'
    BY <2>1, <2>2 DEF Exact, OwnOrExpired
  <2>4. Created(r)'
    BY <2>1 DEF Created, Hashes
  <2>5. ExactPlan(r)'
    BY <2>1 DEF Exact, ExactPlan, RowOf, Deciding
  <2> QED BY <2>1, <2>3, <2>4, <2>5 DEF Exact, Updated, ExactLinks
<1>6. CASE BulkUpdate(r)
  <2>1. /\ pc[r] = "update" /\ pc'[r] = "verify"
        /\ UNCHANGED <<clock, address, kept, creates, updates>>
        /\ \A n \in Nullifiers :
             links'[n] = IF updates[r][n] # None /\ links[n] # None
                         THEN updates[r][n] ELSE links[n]
    BY <1>1, <1>6 DEF BulkUpdate, TypeOK
  <2>2. \A n \in Hashes(creates[r]) : links'[n] = links[n]
    BY <1>1, <2>1 DEF CoverInv, Deciding, Hashes
  <2>3. Created(r)'
    BY <2>1, <2>2 DEF Exact, Created
  <2>4. Updated(r)'
    BY <1>1, <2>1 DEF UpdatesInv, Updated, Hashes
  <2>5. ExactPlan(r)'
    BY <2>1 DEF Exact, ExactPlan, RowOf, Deciding
  <2> QED BY <2>1, <2>3, <2>4, <2>5 DEF Exact, OwnOrExpired, ExactLinks
<1>7. CASE Verify(r)
  <2>1. /\ pc[r] = "verify" /\ pc'[r] = "finish"
        /\ UNCHANGED <<links, address, kept>> /\ kept[r] \in SUBSET Stamp
        /\ address[r] \in Addresses
    BY <1>1, <1>7 DEF Verify, TypeOK, ActiveInv
  <2>2. ASSUME NEW s \in kept[r], NEW n \in get_nullifiers(s)
        PROVE  links[n] = RowOf(r, s)
    <3>1. RowOf(r, s) # None /\ n \in Nullifiers
      BY <1>1, <2>1, RowOfType, GetNullifiersType
    <3>2. creates[r][n] = RowOf(r, s) \/ updates[r][n] = RowOf(r, s)
      BY <2>1 DEF Exact, ExactPlan, Deciding
    <3> QED BY <2>1, <3>1, <3>2 DEF Exact, Created, Updated, Hashes
  <2>3. ExactLinks(r)'
    BY <2>1, <2>2 DEF ExactLinks, RowOf
  <2> QED BY <2>1, <2>3 DEF Exact, ExactPlan, OwnOrExpired, Created, Updated, Deciding
<1> QED BY <1>3, <1>4, <1>5, <1>6, <1>7 DEF Step

(* The stamps that count stay linked, where no other request runs.         *)
LEMMA LiveLinksStep ==
  ASSUME IInv, LiveLinks, NEW r \in Requests, \A q \in Requests : q = r,
         Exact(r), Step(r)
  PROVE  LiveLinks'
<1> USE DEF Goto
<1>1. TypeOK /\ ActiveInv /\ TimeInv /\ UpdatesInv /\ CoverInv BY DEF IInv
<1>2. \A a \in Addresses : \A s \in credited[a] :
        s \in Stamp /\ get_nullifiers(s) \subseteq Nullifiers
  BY <1>1, GetNullifiersType DEF TypeOK
<1>3. CASE Start(r) \/ ReadLinks(r) \/ Verify(r) \/ Retry(r)
  <2>1. UNCHANGED <<clock, links, credited, address>> /\ pc'[r] # "idle"
    BY <1>1, <1>3 DEF Start, ReadLinks, Verify, Retry, TypeOK
  <2>2. \A a \in Addresses : Busy(a) => Busy(a)'
    BY <2>1 DEF Busy
  <2> QED BY <2>1, <2>2 DEF LiveLinks
<1>4. CASE BulkCreate(r)
  <2>1. /\ UNCHANGED <<clock, credited, address>> /\ pc'[r] # "idle"
        /\ \A n \in Nullifiers : links[n] # None => links'[n] = links[n]
    BY <1>1, <1>4 DEF BulkCreate, TypeOK, Hashes
  <2>2. \A a \in Addresses : Busy(a) => Busy(a)'
    BY <2>1 DEF Busy
  <2> QED BY <1>2, <2>1, <2>2 DEF LiveLinks
<1>5. CASE BulkUpdate(r)
  <2>1. /\ UNCHANGED <<clock, credited, address>> /\ pc[r] = "update" /\ pc'[r] # "idle"
        /\ \A n \in Nullifiers :
             links'[n] = IF updates[r][n] # None /\ links[n] # None
                         THEN updates[r][n] ELSE links[n]
    BY <1>1, <1>5 DEF BulkUpdate, TypeOK
  <2>2. \A a \in Addresses : Busy(a) <=> address[r] = a
    BY <2>1 DEF Busy
  <2>3. \A a \in Addresses : Busy(a)' <=> address[r] = a
    BY <2>1 DEF Busy
  <2> SUFFICES ASSUME NEW a \in Addresses, NEW s \in credited[a],
                      NEW n \in get_nullifiers(s), s.expires > clock
               PROVE  /\ links'[n] # None /\ links'[n].address = a
                      /\ links'[n].expires_at = s.expires \/ Busy(a)'
    BY <2>1 DEF LiveLinks
  <2>4. /\ n \in Nullifiers /\ links[n] # None /\ links[n].address = a
        /\ links[n].expires_at = s.expires \/ address[r] = a
    BY <1>2, <2>2 DEF LiveLinks
  <2>5. CASE updates[r][n] = None
    BY <2>1, <2>3, <2>4, <2>5
  <2>6. CASE updates[r][n] # None
    <3>1. /\ updates[r][n].address = address[r]
          /\ links[n].address = address[r] \/ links[n].expires_at <= clock
      BY <1>1, <2>1, <2>4, <2>6 DEF UpdatesInv, Hashes, Exact, OwnOrExpired
    <3>2. s.expires \in Nat /\ clock \in Nat
      BY <1>1, <1>2 DEF TypeOK, Stamp
    <3>3. address[r] = a
      BY <2>4, <3>1, <3>2
    <3> QED BY <2>1, <2>3, <2>4, <2>6, <3>1, <3>3
  <2> QED BY <2>5, <2>6
<1>6. CASE GiveUp(r) \/ Finish(r)
  <2>1. PICK S \in {kept[r], {}} :
          /\ credited' = [credited EXCEPT ![address[r]] = S]
          /\ S = kept[r] => pc[r] = "finish" \/ S = {}
    BY <1>6 DEF Finish, GiveUp
  <2>2. UNCHANGED <<clock, links>> /\ address[r] \in Addresses /\ kept[r] \in SUBSET Stamp
    BY <1>1, <1>6 DEF Finish, GiveUp, Conflict, ActiveInv, TypeOK
  <2> SUFFICES ASSUME NEW a \in Addresses, NEW s \in credited'[a],
                      NEW n \in get_nullifiers(s), s.expires > clock
               PROVE  /\ links[n] # None /\ links[n].address = a
                      /\ links[n].expires_at = s.expires
    BY <2>2 DEF LiveLinks
  <2>3. CASE a = address[r]
    <3>1. s \in S BY <1>1, <2>1, <2>2, <2>3 DEF TypeOK
    <3>2. pc[r] = "finish" /\ s \in kept[r] /\ s \in Stamp
      BY <2>1, <2>2, <3>1
    <3>3. links[n] = RowOf(r, s)
      BY <3>2 DEF Exact, ExactLinks
    <3> QED BY <1>1, <2>2, <2>3, <3>2, <3>3, RowOfType
  <2>4. CASE a # address[r]
    <3>1. s \in credited[a] BY <1>1, <2>1, <2>4 DEF TypeOK
    <3>2. ~Busy(a) BY <2>4 DEF Busy
    <3> QED BY <3>1, <3>2 DEF LiveLinks
  <2> QED BY <2>3, <2>4
<1> QED BY <1>3, <1>4, <1>5, <1>6 DEF Step

(* No nullifier counts for two addresses at a time, where one request runs *)
(* at a time and none dies.                                                *)
THEOREM SerialTheorem ==
  ASSUME \A r, q \in Requests : r = q, ~MayCrash
  PROVE  Spec => []NoLiveDoubleCredit
<1>1. Init => SerialInv
  <2> SUFFICES ASSUME Init PROVE SerialInv OBVIOUS
  <2>1. \A r \in Requests : pc[r] = "idle" BY DEF Init
  <2>2. \A a \in Addresses : credited[a] = {} BY DEF Init
  <2> QED BY <2>1, <2>2 DEF SerialInv, LiveLinks, Exact, ExactPlan, OwnOrExpired,
                            Created, Updated, ExactLinks, Deciding
<1>2. IInv /\ SerialInv /\ [Next]_vars => SerialInv'
  <2> SUFFICES ASSUME IInv, SerialInv, [Next]_vars PROVE SerialInv'
    OBVIOUS
  <2>1. ASSUME NEW r \in Requests, Step(r) PROVE SerialInv'
    BY <2>1, ExactStep, LiveLinksStep DEF SerialInv
  <2>2. ASSUME NEW r \in Requests, NEW a \in Addresses, NEW P \in Passports,
               Arrive(r, a, P)
        PROVE  SerialInv'
    <3>1. /\ UNCHANGED <<clock, links, credited, kept, creates, updates>>
          /\ pc[r] = "idle" /\ pc'[r] = "start"
      BY <2>2 DEF Arrive, Goto, IInv, TypeOK
    <3>2. \A b \in Addresses : ~Busy(b)
      BY <3>1 DEF Busy
    <3>3. LiveLinks'
      BY <3>1, <3>2 DEF SerialInv, LiveLinks
    <3>4. \A q \in Requests : pc'[q] = "start"
      BY <3>1
    <3> QED BY <3>3, <3>4 DEF SerialInv, Exact, ExactPlan, OwnOrExpired, Created,
                              Updated, ExactLinks, Deciding
  <2>3. ASSUME Tick PROVE SerialInv'
    <3>1. /\ clock' = clock + 1 /\ clock \in Nat
          /\ UNCHANGED <<links, credited, pc, address, kept, creates, updates>>
      BY <2>3 DEF Tick, IInv, TypeOK
    <3>2. \A a \in Addresses : \A s \in credited[a] : s.expires \in Nat
      BY DEF IInv, TypeOK, Stamp
    <3>3. LiveLinks'
      BY <3>1, <3>2 DEF SerialInv, LiveLinks, Busy
    <3>4. ASSUME NEW r \in Requests PROVE OwnOrExpired(r)'
      <4>1. \A n \in Hashes(updates[r]) : links[n] \in Link
        BY DEF IInv, TypeOK, UpdatesInv, LinkOrNone, Hashes
      <4>2. \A n \in Hashes(updates[r]) : links[n].expires_at \in Nat
        BY <4>1 DEF Link
      <4> QED BY <3>1, <4>2 DEF SerialInv, Exact, OwnOrExpired
    <3> QED BY <3>1, <3>3, <3>4 DEF SerialInv, Exact, ExactPlan, Created, Updated,
                                    ExactLinks, RowOf
  <2>4. CASE UNCHANGED vars
    BY <2>4 DEF vars, SerialInv, LiveLinks, Busy, Exact, ExactPlan, OwnOrExpired,
                Created, Updated, ExactLinks, RowOf
  <2> QED BY <2>1, <2>2, <2>3, <2>4 DEF Next, Crash
<1>3. SerialInv => NoLiveDoubleCredit
  BY DEF SerialInv, LiveLinks, NoLiveDoubleCredit
<1> QED BY <1>1, <1>2, <1>3, Invariance, PTL DEF Spec
-----------------------------------------------------------------------------
(***************************************************************************)
(* What every implementation of the registry inherits, with owners and     *)
(* credits of its own: none of the variables below is one of LifoDedup's   *)
(* but lapsed, of which nothing is known here.                             *)
(***************************************************************************)
VARIABLES owner, held

Any == INSTANCE NullifierRegistry WITH Nobody <- None

(* What an address is credited for is its own, or has lapsed.              *)
Backed ==
  \A a \in Addresses : \A n \in held[a] :
    n \in Nullifiers /\ (owner[n] = a \/ n \in lapsed)

RegInv == Any!RegTypeOK /\ Backed

(* The inductive invariant of the registry: who is credited held the       *)
(* nullifier, or it lapsed.                                                *)
LEMMA RegInvariance ==
  ASSUME None \notin Addresses
  PROVE  Any!RegSpec => []RegInv
<1> USE DEF RegInv, Any!RegTypeOK, Backed
<1>1. Any!RegInit => RegInv
  BY DEF Any!RegInit
<1>2. RegInv /\ [Any!RegNext]_(Any!regVars) => RegInv'
  <2> SUFFICES ASSUME RegInv, [Any!RegNext]_(Any!regVars)
               PROVE  RegInv'
    OBVIOUS
  <2>1. CASE Any!Register
    BY <2>1 DEF Any!Register
  <2>2. ASSUME NEW a \in Addresses, NEW N \in SUBSET Nullifiers, Any!Credit(a, N)
        PROVE  RegInv'
    BY <2>2 DEF Any!Credit
  <2>3. CASE UNCHANGED Any!regVars
    BY <2>3 DEF Any!regVars
  <2> QED
    BY <2>1, <2>2, <2>3 DEF Any!RegNext
<1> QED
  BY <1>1, <1>2, PTL DEF Any!RegSpec

(* A nullifier that never lapsed is credited to one address at most.       *)
THEOREM RegistryExclusive ==
  ASSUME None \notin Addresses
  PROVE  Any!RegSpec => []Any!Exclusive
<1>1. RegInv => Any!Exclusive
  BY DEF RegInv, Backed, Any!Exclusive
<1> QED
  BY <1>1, RegInvariance, PTL
=============================================================================
