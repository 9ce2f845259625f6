---------------------------- MODULE MetadataSync ----------------------------
(***************************************************************************)
(* The rows that link stamps to platforms, as an admin syncs them from the *)
(* metadata (src/api/registry/admin.py: sync_from_metadata_view): each     *)
(* platform is updated or created, and then its stamps, a statement each.  *)
(* The metadata is as old as the cache (CachedReads) made it.              *)
(***************************************************************************)
EXTENDS FiniteSets

CONSTANTS
  Syncs,      \* the syncs that run at a time
  Stamps, Platforms,
  Metadata,   \* what the cache may hold: the platform of some of the stamps
  Nowhere     \* no platform

VARIABLES
  platforms,  \* the PlatformMetadata rows
  homes,      \* the StampMetadata rows: the platform of each
  syncing,    \* the syncs
  relinked    \* history: stamps that others linked since a sync began

syncVars == <<platforms, homes, syncing, relinked>>

Nothing == [s \in {} |-> Nowhere]
NoSync == [step |-> "idle", by |-> Nothing, left |-> {}, todo |-> {}]

SyncTypeOK ==
  /\ platforms \subseteq Platforms
  /\ homes \in [Stamps -> Platforms \cup {Nowhere}]
  /\ \A m \in Syncs :
       /\ syncing[m].step \in {"idle", "platforms", "stamps", "synced"}
       /\ syncing[m].by \in Metadata \cup {Nothing}
       /\ syncing[m].left \subseteq Platforms /\ syncing[m].todo \subseteq Stamps
  /\ relinked \in [Syncs -> SUBSET Stamps]

SyncInit ==
  /\ platforms = {}
  /\ homes = [s \in Stamps |-> Nowhere]
  /\ syncing = [m \in Syncs |-> NoSync]
  /\ relinked = [m \in Syncs |-> {}]

-----------------------------------------------------------------------------
Sync(m, from, to) ==
  syncing[m].step = from /\ syncing' = [syncing EXCEPT ![m] = to]

StampsOf(by, p) == {s \in DOMAIN by : by[s] = p}

(* Another sync changes what those that run have linked.                   *)
Relink(m, stamps) ==
  relinked' = [q \in Syncs |->
    IF q = m \/ syncing[q].step = "idle" THEN relinked[q]
    ELSE relinked[q] \cup stamps]

BeginSync(m) ==
  \E by \in Metadata :
    /\ Sync(m, "idle", [NoSync EXCEPT !.step = "platforms", !.by = by,
                          !.left = {by[s] : s \in DOMAIN by}])
    /\ relinked' = [relinked EXCEPT ![m] = {}]
    /\ UNCHANGED <<platforms, homes>>

SyncPlatform(m) ==
  \E p \in syncing[m].left :
    /\ Sync(m, "platforms",
            [syncing[m] EXCEPT !.step = "stamps", !.left = @ \ {p},
                               !.todo = StampsOf(syncing[m].by, p)])
    /\ platforms' = platforms \cup {p}
    /\ UNCHANGED <<homes, relinked>>

(* others: the stamps that the loop goes on with.                          *)
LinkStampThen(m, others) ==
  \E s \in syncing[m].todo :
    LET p == syncing[m].by[s]
        rest == others \ {s} IN
    /\ IF p \in platforms
       THEN /\ Sync(m, "stamps", [syncing[m] EXCEPT !.todo = rest,
                 !.step = IF rest = {} THEN "platforms" ELSE "stamps"])
            /\ homes' = [homes EXCEPT ![s] = p]
            /\ Relink(m, {s})
       ELSE Sync(m, "stamps", NoSync) /\ UNCHANGED <<homes, relinked>>
    /\ UNCHANGED platforms

(* A platform that is deleted meanwhile ends the sync, with an error.      *)
LinkStamp(m) == LinkStampThen(m, syncing[m].todo)

(* Plausible bug: the loop ends with the first stamp of a platform.        *)
LinkOneStamp(m) == LinkStampThen(m, {})

ReportSync(m) ==
  /\ syncing[m].left = {}
  /\ Sync(m, "platforms", [syncing[m] EXCEPT !.step = "synced"])
  /\ UNCHANGED <<platforms, homes, relinked>>

SyncEnds(m) ==
  /\ syncing[m].step # "idle"
  /\ Sync(m, syncing[m].step, NoSync)
  /\ UNCHANGED <<platforms, homes, relinked>>

(* Its stamps stay, without a platform.                                    *)
DeletePlatform ==
  \E p \in platforms :
    LET lose == {s \in Stamps : homes[s] = p} IN
    /\ platforms' = platforms \ {p}
    /\ homes' = [s \in Stamps |-> IF s \in lose THEN Nowhere ELSE homes[s]]
    /\ relinked' = [q \in Syncs |->
                     IF syncing[q].step = "idle" THEN relinked[q]
                     ELSE relinked[q] \cup lose]
    /\ UNCHANGED syncing

SyncNext ==
  \/ DeletePlatform
  \/ \E m \in Syncs :
       \/ BeginSync(m) \/ SyncPlatform(m) \/ LinkStamp(m) \/ ReportSync(m)
       \/ SyncEnds(m)

-----------------------------------------------------------------------------
(* A sync that reports its success has linked every stamp as its metadata  *)
(* says, but where another sync, which may have had older metadata, or the *)
(* end of a platform came over it.                                         *)
SyncsAreWhole ==
  \A m \in Syncs : syncing[m].step = "synced" =>
    \A s \in DOMAIN syncing[m].by \ relinked[m] : homes[s] = syncing[m].by[s]

(* No stamp is linked to a platform that is gone.                          *)
HomesExist == \A s \in Stamps : homes[s] \in platforms \cup {Nowhere}
=============================================================================
