----------------------------- MODULE CachedReads -----------------------------
(***************************************************************************)
(* What is read through the cache: the metadata of the stamps              *)
(* (src/api/registry/api/v1.py: fetch_all_stamp_metadata), the metadata by *)
(* provider, which is derived from it and cached again                     *)
(* (src/api/v2/api/api_stamps.py), and likewise, in one step, the weights  *)
(* (src/api/ceramic_cache/api/v1.py) and the state of the server           *)
(* (src/api/passport_admin/api.py).  Whoever misses fetches and stores     *)
(* what was fetched, in the order the answers come.                        *)
(***************************************************************************)
EXTENDS Integers

CONSTANTS
  Readers,     \* the requests at a time
  Life,        \* how long a value is kept
  Limit,       \* how long a request may take
  LastTime,    \* bound on the clock
  LastSource   \* bound on the changes of the source

VARIABLES
  clock,
  source,     \* the state of what is cached
  until,      \* history: when each state of it was last seen
  caches,     \* the two levels: the value, and when it goes
  reads       \* the requests

readVars == <<clock, source, until, caches, reads>>

Levels == 1..2
NotCached == [value |-> 0, expires |-> 0]
NoRead == [step |-> "idle", level |-> 1, value |-> 0, begun |-> 0]
Cached(level) == clock < caches[level].expires

ReadTypeOK ==
  /\ clock \in 0..LastTime /\ source \in 1..LastSource
  /\ until \in [1..LastSource -> 0..LastTime]
  /\ caches \in [Levels -> [value: 0..LastSource, expires: 0..LastTime + Life]]
  /\ reads \in [Readers -> [step: {"idle", "look", "fetch", "store", "derive",
                                   "answered", "failed"},
                            level: Levels, value: 0..LastSource, begun: 0..LastTime]]

ReadInit ==
  /\ clock = 0
  /\ source = 1
  /\ until = [v \in 1..LastSource |-> 0]
  /\ caches = [l \in Levels |-> NotCached]
  /\ reads = [r \in Readers |-> NoRead]

-----------------------------------------------------------------------------
(* A request that takes longer is ended by the server.                     *)
ReadTick ==
  /\ clock < LastTime
  /\ \A r \in Readers : reads[r].step # "idle" => clock - reads[r].begun < Limit
  /\ clock' = clock + 1
  /\ until' = [until EXCEPT ![source] = clock + 1]
  /\ UNCHANGED <<source, caches, reads>>

ChangeSource ==
  /\ source < LastSource
  /\ source' = source + 1
  /\ until' = [until EXCEPT ![source + 1] = clock]
  /\ UNCHANGED <<clock, caches, reads>>

On(r, from, to) ==
  /\ reads[r].step = from
  /\ reads' = [reads EXCEPT ![r] = to]
  /\ UNCHANGED <<clock, source, until>>
Then(r, step) == [reads[r] EXCEPT !.step = step]

(* All of the metadata is asked for, with level 1, or that of a provider.  *)
(* A value that is there is taken.                                         *)
BeginRead(r) ==
  \E level \in Levels :
    /\ On(r, "idle", [NoRead EXCEPT !.level = level, !.begun = clock,
           !.step = IF level = 2 /\ Cached(2) THEN "answered" ELSE "look",
           !.value = IF level = 2 /\ Cached(2) THEN caches[2].value ELSE 0])
    /\ UNCHANGED caches

(* What is to be done with all of the metadata.                            *)
Got(r) == IF reads[r].level = 1 THEN "answered" ELSE "derive"

LookInCache(r) ==
  /\ On(r, "look", IF ~Cached(1) THEN Then(r, "fetch")
                   ELSE [Then(r, Got(r)) EXCEPT !.value = caches[1].value])
  /\ UNCHANGED caches

(* An error is logged, and then raised as the lack of an answer.           *)
Fetch(r) ==
  /\ \/ On(r, "fetch", [Then(r, "store") EXCEPT !.value = source])
     \/ On(r, "fetch", Then(r, "failed"))
  /\ UNCHANGED caches

Store(r, level, expires) ==
  caches' = [caches EXCEPT ![level] = [value |-> reads[r].value, expires |-> expires]]

StoreFetched(r) ==
  On(r, "store", Then(r, Got(r))) /\ Store(r, 1, clock + Life)

StoreDerived(r) ==
  On(r, "derive", Then(r, "answered")) /\ Store(r, 2, clock + Life)

(* Plausible bug: what is read from the cache is stored there again.       *)
LookAndStore(r) ==
  /\ On(r, "look", IF ~Cached(1) THEN Then(r, "fetch")
                   ELSE [Then(r, "store") EXCEPT !.value = caches[1].value])
  /\ UNCHANGED caches

EndRead(r) ==
  /\ reads[r].step \in {"answered", "failed"}
  /\ On(r, reads[r].step, NoRead)
  /\ UNCHANGED caches

(* The cache drops what it likes.                                          *)
Evict ==
  \E l \in Levels :
    /\ Cached(l)
    /\ caches' = [caches EXCEPT ![l] = NotCached]
    /\ UNCHANGED <<clock, source, until, reads>>

ReadNext ==
  \/ ReadTick \/ ChangeSource \/ Evict
  \/ \E r \in Readers :
       \/ BeginRead(r) \/ LookInCache(r) \/ Fetch(r)
       \/ StoreFetched(r) \/ StoreDerived(r) \/ EndRead(r)

-----------------------------------------------------------------------------
(* However requests miss, fetch and overwrite each other: an answer is no  *)
(* older than a life in each cache makes it, and a slow request that asks, *)
(* with one more for each that fetched or derived it.                      *)
AnswersAreFresh ==
  \A r \in Readers : reads[r].step = "answered" =>
    until[reads[r].value] >=
      clock - (reads[r].level * (Life - 1) + (reads[r].level + 1) * Limit)
=============================================================================
