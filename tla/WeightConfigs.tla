---------------------------- MODULE WeightConfigs ----------------------------
(***************************************************************************)
(* The configurations of weights as the admins keep them                   *)
(* (src/api/registry/admin.py: WeightConfigurationAdmin): a configuration  *)
(* is saved with its items in the transaction of the page, cloned row by   *)
(* row without one, edited, deleted, and activated in a transaction of two *)
(* updates, for which the database locks the rows that they write.  What   *)
(* becomes of the active one is in Rescoring.                              *)
(***************************************************************************)
EXTENDS Integers, FiniteSets

CONSTANTS
  Admins,
  Providers,
  Weights,   \* what admins enter for a provider
  Typed,     \* the versions that they enter, 0 for none
  LastId,    \* bound on the ids of configurations
  None       \* no row

VARIABLES
  configs,   \* the WeightConfiguration rows: [version, active]
  items,     \* the WeightConfigurationItem rows: a weight or 0 by provider
  acts,      \* what each admin is doing
  activated, \* history: one was activated, and no active one was deleted
  cloned,    \* history: what a clone that is complete was to have
  touched    \* history: the configurations that were edited after that

configVars == <<configs, items, acts, activated, cloned, touched>>

Ids == 1..LastId
Existing == {i \in Ids : configs[i] # None}
ActiveIds == {i \in Existing : configs[i].active}
Lines == [Providers -> Weights \cup {0}]
NoLines == [p \in Providers |-> 0]
Resting == [step |-> "idle", id |-> 0, version |-> 0, todo |-> NoLines,
            of |-> NoLines, found |-> {}, off |-> {}]

ConfigTypeOK ==
  /\ \A i \in Ids : \/ configs[i] = None
                    \/ configs[i].version \in Nat /\ configs[i].active \in BOOLEAN
  /\ items \in [Ids -> Lines]
  /\ \A a \in Admins :
       /\ acts[a].step \in {"idle", "upload", "clone", "copy", "item", "deactivate",
                            "wait", "activate", "commit"}
       /\ acts[a].id \in 0..LastId /\ acts[a].found \cup acts[a].off \subseteq Ids
       /\ acts[a].todo \in Lines /\ acts[a].of \in Lines
  /\ activated \in BOOLEAN
  /\ \A i \in Ids : cloned[i] \in Lines \cup {None}
  /\ touched \subseteq Ids

ConfigInit ==
  /\ configs = [i \in Ids |-> IF i = 1 THEN [version |-> 0, active |-> FALSE]
                              ELSE None]
  /\ items \in [Ids -> Lines]
  /\ \A i \in Ids : i # 1 => items[i] = NoLines
  /\ \A p \in Providers : items[1][p] # 0
  /\ acts = [a \in Admins |-> Resting]
  /\ activated = FALSE
  /\ cloned = [i \in Ids |-> None]
  /\ touched = {}

-----------------------------------------------------------------------------
Do(a, from, to) ==
  acts[a].step = from /\ acts' = [acts EXCEPT ![a] = to]

(* The latest by creation, and the id of the next one, which has not been  *)
(* used before.                                                            *)
Latest == CHOOSE i \in Existing : \A j \in Existing : j <= i
NextVersion == IF Existing = {} THEN 0 ELSE configs[Latest].version + 1
NextId == CHOOSE i \in Ids : /\ configs[i] = None /\ i \notin touched
                             /\ \A j \in Ids : j < i => configs[j] # None \/ j \in touched
HasRoom == \E i \in Ids : configs[i] = None /\ i \notin touched

Taken(version) == \E i \in Existing : configs[i].version = version

(* A lock on a row is held until its transaction ends.                     *)
LockedBy(b) ==
  acts[b].off \cup (IF acts[b].step = "commit" THEN {acts[b].id} ELSE {})
Locked(a, ids) == \E b \in Admins \ {a} : LockedBy(b) \cap ids # {}

-----------------------------------------------------------------------------
(***************************************************************************)
(* save_model: the version is typed, or taken before the insert.           *)
(***************************************************************************)
BeginUpload(a) ==
  \E typed \in Typed :
    /\ Do(a, "idle", [Resting EXCEPT !.step = "upload",
           !.version = IF typed = 0 THEN NextVersion ELSE typed])
    /\ UNCHANGED <<configs, items, activated, cloned, touched>>

(* A version that is taken, or a provider that comes twice among the lines *)
(* of the page and those of a CSV, takes everything back.                  *)
FinishUpload(a) ==
  /\ HasRoom
  /\ Do(a, "upload", Resting)
  /\ \/ UNCHANGED <<configs, items>>
     \/ /\ ~Taken(acts[a].version)
        /\ configs' = [configs EXCEPT ![NextId] =
                        [version |-> acts[a].version, active |-> FALSE]]
        /\ \E csv \in Lines : items' = [items EXCEPT ![NextId] = csv]
  /\ UNCHANGED <<activated, cloned, touched>>

-----------------------------------------------------------------------------
(***************************************************************************)
(* clone_configuration.                                                    *)
(***************************************************************************)
PickSource(a) ==
  \E i \in Existing :
    /\ Do(a, "idle", [Resting EXCEPT !.step = "clone", !.id = i,
                                     !.version = NextVersion])
    /\ UNCHANGED <<configs, items, activated, cloned, touched>>

CreateClone(a) ==
  /\ HasRoom
  /\ IF Taken(acts[a].version) THEN Do(a, "clone", Resting) /\ UNCHANGED configs
     ELSE /\ Do(a, "clone", [acts[a] EXCEPT !.step = "copy", !.found = {NextId}])
          /\ configs' = [configs EXCEPT ![NextId] =
                          [version |-> acts[a].version, active |-> FALSE]]
  /\ UNCHANGED <<items, activated, cloned, touched>>

ReadItems(a) ==
  LET read == items[acts[a].id] IN
  /\ Do(a, "copy", [acts[a] EXCEPT !.step = "item", !.todo = read,
                                   !.of = read])
  /\ UNCHANGED <<configs, items, activated, cloned, touched>>

(* A clone that is deleted, or has an item of the provider already, ends   *)
(* it with what there is.                                                  *)
CopyItemFrom(a, weightOf) ==
  LET todo == acts[a].todo IN
  \E i \in acts[a].found, p \in Providers :
    /\ todo[p] # 0
    /\ IF i \in Existing /\ items[i][p] = 0
       THEN /\ Do(a, "item", [acts[a] EXCEPT !.todo[p] = 0])
            /\ items' = [items EXCEPT ![i][p] = weightOf[p]]
       ELSE Do(a, "item", Resting) /\ UNCHANGED items
    /\ UNCHANGED <<configs, activated, cloned, touched>>

CopyItem(a) == CopyItemFrom(a, acts[a].todo)

(* Plausible bug: each item is read when its turn comes.                   *)
CopyItemLate(a) == CopyItemFrom(a, items[acts[a].id])

ReportClone(a) ==
  /\ Do(a, "item", Resting)
  /\ acts[a].todo = NoLines
  /\ cloned' = [i \in Ids |-> IF i \in acts[a].found THEN acts[a].of ELSE cloned[i]]
  /\ UNCHANGED <<configs, items, activated, touched>>

-----------------------------------------------------------------------------
(***************************************************************************)
(* activate_configuration.                                                 *)
(***************************************************************************)
BeginActivate(a) ==
  \E i \in Existing \ ActiveIds :
    /\ Do(a, "idle", [Resting EXCEPT !.step = "deactivate", !.id = i])
    /\ UNCHANGED <<configs, items, activated, cloned, touched>>

(* The update finds the rows that are active, waits for the locks of other *)
(* transactions, and then leaves out what is no longer active; what became *)
(* active meanwhile it does not find.                                      *)
FindActive(a) ==
  /\ Do(a, "deactivate", [acts[a] EXCEPT !.step = "wait", !.found = ActiveIds])
  /\ UNCHANGED <<configs, items, activated, cloned, touched>>

Deactivate(a) ==
  /\ ~Locked(a, acts[a].found)
  /\ Do(a, "wait", [acts[a] EXCEPT !.step = "activate", !.found = {},
                                   !.off = acts[a].found \cap ActiveIds])
  /\ UNCHANGED <<configs, items, activated, cloned, touched>>

(* Plausible bug: the update commits by itself.                            *)
DeactivateAndCommit(a) ==
  /\ ~Locked(a, acts[a].found)
  /\ Do(a, "wait", [acts[a] EXCEPT !.step = "activate", !.found = {}])
  /\ configs' = [i \in Ids |-> IF i \in acts[a].found \cap Existing
                               THEN [configs[i] EXCEPT !.active = FALSE]
                               ELSE configs[i]]
  /\ UNCHANGED <<items, activated, cloned, touched>>

(* The constraint lets one active row in: another one that is committed    *)
(* ends the transaction, one that is not is waited for.  So does a row     *)
(* that is gone.                                                           *)
SetActive(a) ==
  LET i == acts[a].id
      others == ActiveIds \ (acts[a].off \cup {i}) IN
  /\ ~Locked(a, {i})
  /\ \A b \in Admins \ {a} : acts[b].step # "commit"
  /\ Do(a, "activate", IF i \in Existing /\ others = {}
                       THEN [acts[a] EXCEPT !.step = "commit"] ELSE Resting)
  /\ UNCHANGED <<configs, items, activated, cloned, touched>>

CommitActive(a) ==
  LET new == acts[a].id IN
  /\ Do(a, "commit", Resting)
  /\ configs' = [i \in Ids |->
       IF i = new THEN [configs[i] EXCEPT !.active = TRUE]
       ELSE IF i \in acts[a].off THEN [configs[i] EXCEPT !.active = FALSE]
       ELSE configs[i]]
  /\ activated' = TRUE
  /\ UNCHANGED <<items, cloned, touched>>

(* The request dies, or the database ends a wait of two for each other.    *)
BreakOff(a) ==
  /\ acts[a].step # "idle"
  /\ Do(a, acts[a].step, Resting)
  /\ UNCHANGED <<configs, items, activated, cloned, touched>>

-----------------------------------------------------------------------------
Free(i) == \A b \in Admins : i \notin LockedBy(b)

EditItem ==
  \E i \in Existing, p \in Providers, w \in Weights \cup {0} :
    /\ items[i][p] # w
    /\ items' = [items EXCEPT ![i][p] = w]
    /\ touched' = touched \cup {i}
    /\ UNCHANGED <<configs, acts, activated, cloned>>

(* The items go with their configuration.                                  *)
DeleteConfig ==
  \E i \in Existing :
    /\ Free(i)
    /\ configs' = [configs EXCEPT ![i] = None]
    /\ items' = [items EXCEPT ![i] = NoLines]
    /\ activated' = (activated /\ ~configs[i].active)
    /\ touched' = touched \cup {i}
    /\ UNCHANGED <<acts, cloned>>

ConfigNext ==
  \/ EditItem \/ DeleteConfig
  \/ \E a \in Admins :
       \/ BeginUpload(a) \/ FinishUpload(a)
       \/ PickSource(a) \/ CreateClone(a) \/ ReadItems(a) \/ CopyItem(a)
       \/ ReportClone(a)
       \/ BeginActivate(a) \/ FindActive(a) \/ Deactivate(a) \/ SetActive(a)
       \/ CommitActive(a) \/ BreakOff(a)

-----------------------------------------------------------------------------
(* Whatever is activated, cloned, uploaded and deleted at a time: no two   *)
(* configurations are active, and from the first activation on there is    *)
(* one whenever a scorer asks, unless the active one was deleted.          *)
OneIsActive ==
  /\ Cardinality(ActiveIds) <= 1
  /\ activated => ActiveIds # {}

(* A clone that was reported has the items that its source had when they   *)
(* were read, though its items and its source are edited meanwhile.  One   *)
(* that was not may have some of them, and may be activated.               *)
ClonesAreWhole ==
  \A i \in Existing \ touched : cloned[i] # None => items[i] = cloned[i]
=============================================================================
