---------------------------- MODULE Communities ----------------------------
(***************************************************************************)
(* The communities and API keys of an account (src/api/account/api.py).    *)
(* A request reads a row, checks, and saves; every ORM call commits by     *)
(* itself.  save() writes all columns of the row as it was read, and       *)
(* inserts a row that is gone.  Community.scorer cascades: who deletes a   *)
(* scorer deletes the communities that refer to it, with their scores.     *)
(***************************************************************************)
EXTENDS Integers, FiniteSets

CONSTANTS
  Editors,          \* the requests that are served at a time
  Names,
  CommunityLimit,   \* USER_ or GENERIC_COMMUNITY_CREATION_LIMIT
  KeyLimit,         \* five API keys
  MaxSerial,        \* bound on the ids of rows
  NoRow

VARIABLES
  communities,  \* Community: [name, deleted, scorer] of each id, or NoRow
  scorers,      \* the ids of the Scorer rows
  keys,         \* AccountAPIKey: [id, name]
  serial,       \* the last id that was given out
  edit,         \* the operation of each request, its step, and what it read
  removed,      \* history: the ids of keys that were deleted
  stale,        \* history: ids of rows that were saved as they had been before
  crowded       \* history: kinds of rows that two requests counted at a time

communityVars == <<communities, scorers, keys, serial, edit, removed, stale,
                   crowded>>

Ids == 1..MaxSerial
Community == [name: Names, deleted: BOOLEAN, scorer: Ids]
Key == [id: Ids, name: Names]
Idle == [op |-> "none", step |-> "idle", id |-> 0, name |-> NoRow,
         copy |-> NoRow, scorer |-> 0]

CommunityTypeOK ==
  /\ communities \in [Ids -> Community \cup {NoRow}]
  /\ \A i \in Ids :
       communities[i] # NoRow => communities[i].scorer \in scorers
  /\ scorers \subseteq Ids
  /\ keys \subseteq Key
  /\ serial \in 0..MaxSerial
  /\ \A e \in Editors :
       edit[e].step \in {"idle", "count", "name", "scorer", "save", "drop"}

CommunityInit ==
  /\ communities = [i \in Ids |-> NoRow]
  /\ scorers = {}
  /\ keys = {}
  /\ serial = 0
  /\ edit = [e \in Editors |-> Idle]
  /\ removed = {}
  /\ stale = {}
  /\ crowded = {}

-----------------------------------------------------------------------------
IsLive(i) == communities[i] # NoRow /\ ~communities[i].deleted
Live == {i \in Ids : IsLive(i)}
Taken(name, but) == \E i \in Live \ {but} : communities[i].name = name

Begin(e, op, step, id, name, copy) ==
  /\ edit[e].step = "idle"
  /\ edit' = [edit EXCEPT ![e] =
                [Idle EXCEPT !.op = op, !.step = step, !.id = id, !.name = name,
                             !.copy = copy]]
  /\ UNCHANGED <<communities, scorers, keys, serial, removed, stale, crowded>>

GoOn(e, step) == edit' = [edit EXCEPT ![e].step = step]
End(e) == edit' = [edit EXCEPT ![e] = Idle]

(* create_community_for_account; PUT and PATCH of a name; PATCH of the     *)
(* threshold; DELETE; PUT of the type of the scorer.  All but the first    *)
(* begin with get_object_or_404(deleted_at=None).                          *)
StartCreate(e) ==
  \E n \in Names : Begin(e, "create", "count", 0, n, NoRow)
StartChange(e) ==
  \E i \in Live :
    \/ \E n \in Names : Begin(e, "rename", "name", i, n, communities[i])
    \/ Begin(e, "threshold", "scorer", i, NoRow, communities[i])
    \/ Begin(e, "delete", "save", i, NoRow, communities[i])
    \/ Begin(e, "retype", "scorer", i, NoRow, communities[i])

(* Another request has counted and has still to insert.                    *)
Creating(e, op) ==
  \E d \in Editors \ {e} :
    edit[d].op = op /\ edit[d].step \in {"name", "scorer", "save"}

CountOf(e, op, n, limit) ==
  /\ edit[e].op = op
  /\ edit[e].step = "count"
  /\ IF n >= limit THEN End(e) ELSE GoOn(e, "name")
  /\ crowded' = IF Creating(e, op) THEN crowded \cup {op} ELSE crowded
  /\ UNCHANGED <<communities, scorers, keys, serial, removed, stale>>

(* Plausible bug: > for >=.                                                *)
CountCommunitiesLate(e) ==
  CountOf(e, "create", Cardinality(Live), CommunityLimit + 1)

CountCommunities(e) == CountOf(e, "create", Cardinality(Live), CommunityLimit)

CheckName(e) ==
  /\ edit[e].op \in {"create", "rename"}
  /\ edit[e].step = "name"
  /\ IF Taken(edit[e].name, edit[e].id) THEN End(e)
     ELSE GoOn(e, IF edit[e].op = "create" THEN "scorer" ELSE "save")
  /\ UNCHANGED <<communities, scorers, keys, serial, removed, stale, crowded>>

(* What Scorer.delete() leaves of the communities.                         *)
Cascade(s) ==
  [i \in Ids |-> IF communities[i] # NoRow /\ communities[i].scorer = s
                 THEN NoRow ELSE communities[i]]

NewScorer(e) ==
  /\ edit[e].op \in {"create", "retype"}
  /\ edit[e].step = "scorer"
  /\ serial < MaxSerial
  /\ serial' = serial + 1
  /\ edit' = [edit EXCEPT ![e].step = "save", ![e].scorer = serial + 1]
  /\ UNCHANGED <<keys, removed, stale, crowded>>

(* Plausible bug: the old scorer goes before the community has the new one. *)
SaveScorerAndDrop(e) ==
  /\ NewScorer(e)
  /\ LET old == IF edit[e].op = "retype" THEN edit[e].copy.scorer ELSE 0 IN
     /\ scorers' = (scorers \ {old}) \cup {serial + 1}
     /\ communities' = Cascade(old)

SaveScorer(e) ==
  /\ NewScorer(e)
  /\ scorers' = scorers \cup {serial + 1}
  /\ UNCHANGED communities

(* scorer.save() of a threshold inserts a scorer that was deleted again.   *)
SaveThreshold(e) ==
  /\ edit[e].op = "threshold"
  /\ edit[e].step = "scorer"
  /\ scorers' = scorers \cup {edit[e].copy.scorer}
  /\ GoOn(e, "save")
  /\ UNCHANGED <<communities, keys, serial, removed, stale, crowded>>

InsertCommunity(e) ==
  LET x == edit[e] IN
  /\ x.op = "create"
  /\ x.step = "save"
  /\ End(e)
  /\ IF Taken(x.name, 0) THEN UNCHANGED <<communities, serial>>
     ELSE /\ serial < MaxSerial
          /\ serial' = serial + 1
          /\ communities' = [communities EXCEPT ![serial + 1] =
               [name |-> x.name, deleted |-> FALSE, scorer |-> x.scorer]]
  /\ UNCHANGED <<scorers, keys, removed, stale, crowded>>

Edited(x) ==
  CASE x.op = "rename" -> [x.copy EXCEPT !.name = x.name]
    [] x.op = "delete" -> [x.copy EXCEPT !.deleted = TRUE]
    [] x.op = "retype" -> [x.copy EXCEPT !.scorer = x.scorer]
    [] x.op = "threshold" -> x.copy

(* The constraints of the table: a name, and a scorer that exists.         *)
SaveCommunity(e) ==
  LET x == edit[e]
      row == Edited(x)
      valid == /\ row.scorer \in scorers
               /\ row.deleted \/ ~Taken(row.name, x.id) IN
  /\ x.op \in {"rename", "delete", "retype", "threshold"}
  /\ x.step = "save"
  /\ IF valid
     THEN /\ communities' = [communities EXCEPT ![x.id] = row]
          /\ stale' = IF communities[x.id] = x.copy THEN stale
                      ELSE stale \cup {x.id}
          /\ IF x.op = "retype" THEN GoOn(e, "drop") ELSE End(e)
     ELSE End(e) /\ UNCHANGED <<communities, stale>>
  /\ UNCHANGED <<scorers, keys, serial, removed, crowded>>

DropScorer(e) ==
  /\ edit[e].step = "drop"
  /\ communities' = Cascade(edit[e].copy.scorer)
  /\ scorers' = scorers \ {edit[e].copy.scorer}
  /\ End(e)
  /\ UNCHANGED <<keys, serial, removed, stale, crowded>>

-----------------------------------------------------------------------------
(***************************************************************************)
(* API keys.                                                               *)
(***************************************************************************)
StartKey(e) == \E n \in Names : Begin(e, "key", "count", 0, n, NoRow)

CountKeys(e) == CountOf(e, "key", Cardinality(keys), KeyLimit)

(* The name is refused where exactly one key has it.                       *)
CheckKeyName(e) ==
  /\ edit[e].op = "key"
  /\ edit[e].step = "name"
  /\ IF Cardinality({k \in keys : k.name = edit[e].name}) = 1 THEN End(e)
     ELSE GoOn(e, "save")
  /\ UNCHANGED <<communities, scorers, keys, serial, removed, stale, crowded>>

InsertKey(e) ==
  /\ edit[e].op = "key"
  /\ edit[e].step = "save"
  /\ serial < MaxSerial
  /\ serial' = serial + 1
  /\ keys' = keys \cup {[id |-> serial + 1, name |-> edit[e].name]}
  /\ End(e)
  /\ UNCHANGED <<communities, scorers, removed, stale, crowded>>

(* Plausible bug: the key to rename is taken from the request, unread.     *)
StartRenameAny(e) ==
  \E i \in {k.id : k \in keys} \cup removed, n \in Names :
    Begin(e, "renamekey", "save", i, n, NoRow)

StartRenameKey(e) ==
  \E k \in keys, n \in Names :
    Begin(e, "renamekey", "save", k.id, n, NoRow)

SaveKey(e) ==
  LET x == edit[e] IN
  /\ x.op = "renamekey"
  /\ x.step = "save"
  /\ keys' = {k \in keys : k.id # x.id} \cup {[id |-> x.id, name |-> x.name]}
  /\ End(e)
  /\ UNCHANGED <<communities, scorers, serial, removed, stale, crowded>>

(* A rename that has read the key saves it again.                          *)
DeleteKey ==
  /\ \E k \in keys :
       /\ keys' = keys \ {k}
       /\ removed' = removed \cup {k.id}
       /\ stale' = stale \cup
            {i \in {k.id} : \E e \in Editors :
                              edit[e].op = "renamekey" /\ edit[e].id = i}
  /\ UNCHANGED <<communities, scorers, serial, edit, crowded>>

CommunityNext ==
  \E e \in Editors :
    \/ StartCreate(e) \/ StartChange(e) \/ CountCommunities(e) \/ CheckName(e)
    \/ SaveScorer(e) \/ SaveThreshold(e) \/ InsertCommunity(e)
    \/ SaveCommunity(e) \/ DropScorer(e)

KeyNext ==
  \/ \E e \in Editors :
       \/ StartKey(e) \/ CountKeys(e) \/ CheckKeyName(e) \/ InsertKey(e)
       \/ StartRenameKey(e) \/ SaveKey(e)
  \/ DeleteKey

-----------------------------------------------------------------------------
(* No community vanishes with its scores, and none that was deleted comes  *)
(* back, but after a save that put an older reading over a newer row: the  *)
(* type of a scorer can be changed while others create, rename and delete. *)
CommunitiesStay ==
  \A i \in Ids :
    communities[i] # NoRow =>
      \/ communities'[i] # NoRow
         /\ (communities[i].deleted => communities'[i].deleted)
      \/ i \in stale'

(* The limits are passed only by requests that count before another one    *)
(* that has counted inserts, or by rows that come back.                    *)
LimitsHold ==
  /\ Cardinality(Live) > CommunityLimit => "create" \in crowded \/ stale # {}
  /\ Cardinality(keys) > KeyLimit => "key" \in crowded \/ stale # {}

(* A deleted API key stays deleted, but for a rename that read it before.  *)
DeletedKeysAreGone == \A k \in keys : k.id \in removed => k.id \in stale
=============================================================================
