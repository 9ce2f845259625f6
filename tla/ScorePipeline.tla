--------------------------- MODULE ScorePipeline ---------------------------
(***************************************************************************)
(* The scoring of one passport by the Python API                           *)
(* (src/api/v2/api/api_stamps.py: ahandle_scoring, with ascore_passport and *)
(* what it calls in src/api/registry/atasks.py), and the command that      *)
(* scores a whole community again                                          *)
(* (src/api/registry/management/commands/recalculate_scores.py).           *)
(*                                                                         *)
(* A request reads the user's credentials from the ceramic cache, keeps    *)
(* the valid ones that no other passport holds, replaces the passport's    *)
(* Stamp rows by them, adds up the rows and saves the Score.  Every        *)
(* statement commits by itself and nothing is locked, so requests for the  *)
(* same passport and the batch interleave, and a request that dies leaves  *)
(* what it wrote.  The weight of a stamp depends on its provider alone, so *)
(* a score is represented by the credentials it counts.                    *)
(***************************************************************************)
EXTENDS Integers, FiniteSets

CONSTANTS
  Workers,      \* the API workers that score the passport
  Batches,      \* the runs of recalculate_scores
  Providers,    \* the stamp providers
  Credentials,  \* the credentials the user may have
  ProviderOf,   \* credentialSubject.provider of each
  ExpiresAt,    \* expirationDate of each
  Genuine,      \* those with a trusted issuer and a valid proof
  MaxTime,      \* bound on the clock
  MayCrash,     \* whether workers die in the middle of a request
  MayFail,      \* whether a step of a request may raise
  None

Processes == Workers \cup Batches

VARIABLES
  clock,
  cache,     \* the newest live, unrevoked CeramicCache row of each provider
  passport,  \* whether the Passport row exists
  rows,      \* how many Stamp rows of the passport hold each credential
  score,     \* the Score row of the passport, or None
  recorded,  \* whether a SCORE_UPDATE event holds what the row says
  pc,        \* where each worker and batch is
  loaded,    \* passport_data
  kept,      \* deduped_passport_data
  clashing,  \* clashing_stamps
  todo,      \* kept stamps that have no row yet
  result,    \* the Score object in memory
  logged,    \* whether a SCORE_UPDATE event holds it
  accepted,  \* history: credentials some request has kept
  solo       \* history: the process that has run alone since it began

tables == <<cache, passport, rows, score, recorded>>
locals == <<loaded, kept, clashing, todo, result, logged>>
vars   == <<clock, tables, pc, locals, accepted, solo>>

ExpiryDates == {ExpiresAt[c] : c \in Credentials} \cup {None}

(* What a Score row says.  counted is the sum in evidence and score;       *)
(* zeroed are the providers stamp_scores gives 0; listed, blank and        *)
(* deduped describe the field stamps: the providers in it, those with      *)
(* 0 points though they have a weight and those with the dedup flag.       *)
ScoreRow ==
  [status: {"PROCESSING", "DONE", "ERROR"},
   counted: SUBSET Credentials, zeroed: SUBSET Providers,
   listed: SUBSET Providers, blank: SUBSET Providers,
   deduped: SUBSET Providers,
   expires: ExpiryDates]

ASSUME PipelineAssumption ==
  /\ Workers \cap Batches = {}
  /\ IsFiniteSet(Credentials)
  /\ ProviderOf \in [Credentials -> Providers]
  /\ ExpiresAt \in [Credentials -> Nat]
  /\ Genuine \subseteq Credentials
  /\ MaxTime \in Nat
  /\ MayCrash \in BOOLEAN
  /\ MayFail \in BOOLEAN
  /\ None \notin Credentials \cup Nat \cup ScoreRow

Cleared(status) ==
  [status |-> status, counted |-> {}, zeroed |-> {}, listed |-> {},
   blank |-> {}, deduped |-> {}, expires |-> None]

Stages == {"idle", "score", "load", "decide", "delete", "create", "compute",
           "award", "log", "save", "read", "find", "insert", "update"}

TypeOK ==
  /\ clock \in Nat
  /\ cache \in [Providers -> Credentials \cup {None}]
  /\ passport \in BOOLEAN
  /\ rows \in [Credentials -> Nat]
  /\ score \in ScoreRow \cup {None}
  /\ recorded \in BOOLEAN
  /\ pc \in [Processes -> Stages]
  /\ loaded \in [Workers -> SUBSET Credentials]
  /\ kept \in [Workers -> SUBSET Credentials]
  /\ clashing \in [Workers -> SUBSET Credentials]
  /\ todo \in [Workers -> SUBSET Credentials]
  /\ result \in [Processes -> ScoreRow]
  /\ logged \in [Workers -> BOOLEAN]
  /\ accepted \in SUBSET Credentials
  /\ solo \in SUBSET Processes

Nothing == [w \in Workers |-> {}]

Init ==
  /\ clock = 0
  /\ cache = [p \in Providers |-> None]
  /\ passport = FALSE
  /\ rows = [c \in Credentials |-> 0]
  /\ score = None
  /\ recorded = FALSE
  /\ pc = [p \in Processes |-> "idle"]
  /\ loaded = Nothing
  /\ kept = Nothing
  /\ clashing = Nothing
  /\ todo = Nothing
  /\ result = [p \in Processes |-> Cleared("PROCESSING")]
  /\ logged = [w \in Workers |-> FALSE]
  /\ accepted = {}
  /\ solo = {}

-----------------------------------------------------------------------------
Goto(p, stage) == pc' = [pc EXCEPT ![p] = stage]

(* A process begins: whoever was running is not alone any more.            *)
Begin(p, stage) ==
  /\ pc[p] = "idle"
  /\ Goto(p, stage)
  /\ solo' = IF \A q \in Processes \ {p} : pc[q] = "idle" THEN {p} ELSE {}

End(p) ==
  /\ Goto(p, "idle")
  /\ solo' = solo \ {p}
  /\ result' = [result EXCEPT ![p] = Cleared("PROCESSING")]

ForgetRequest(w) ==
  /\ loaded' = [loaded EXCEPT ![w] = {}]
  /\ kept' = [kept EXCEPT ![w] = {}]
  /\ clashing' = [clashing EXCEPT ![w] = {}]
  /\ todo' = [todo EXCEPT ![w] = {}]
  /\ logged' = [logged EXCEPT ![w] = FALSE]

(* ahandle_scoring: the Passport row is created if it is missing ...       *)
Arrive(w) ==
  /\ Begin(w, "score")
  /\ passport' = TRUE
  /\ UNCHANGED <<clock, cache, rows, score, recorded, locals, accepted>>

(* Plausible bug: a new row has no status.                                 *)
GetScoreWithoutStatus(w) ==
  /\ pc[w] = "score"
  /\ score' = IF score = None THEN Cleared(None) ELSE score
  /\ Goto(w, "load")
  /\ UNCHANGED <<clock, cache, passport, rows, recorded, locals, accepted, solo>>

(* ... and so is the Score row.                                            *)
GetScore(w) ==
  /\ pc[w] = "score"
  /\ score' = IF score = None THEN Cleared("PROCESSING") ELSE score
  /\ Goto(w, "load")
  /\ UNCHANGED <<clock, cache, passport, rows, recorded, locals, accepted, solo>>

(* aload_passport_data, aget_passport.                                     *)
Load(w) ==
  /\ pc[w] = "load"
  /\ loaded' = [loaded EXCEPT ![w] = {cache[p] : p \in Providers} \ {None}]
  /\ Goto(w, "decide")
  /\ UNCHANGED <<clock, tables, kept, clashing, todo, result, logged, accepted,
                 solo>>

Valid(w) == {c \in loaded[w] \cap Genuine : ExpiresAt[c] >= clock}

(* Plausible bug: the rows are made from the stamps before deduplication.  *)
DecideUndeduplicated(w) ==
  /\ pc[w] = "decide"
  /\ \E clashes \in SUBSET Valid(w) :
       /\ clashing' = [clashing EXCEPT ![w] = clashes]
       /\ kept' = [kept EXCEPT ![w] = Valid(w) \ clashes]
       /\ accepted' = accepted \cup (Valid(w) \ clashes)
  /\ todo' = [todo EXCEPT ![w] = Valid(w)]
  /\ loaded' = [loaded EXCEPT ![w] = {}]
  /\ Goto(w, "delete")
  /\ UNCHANGED <<clock, tables, result, logged, solo>>

(* avalidate_credentials and aprocess_deduplication.  Which of the valid   *)
(* stamps clash with another passport is up to LifoDedup.                  *)
Decide(w) ==
  /\ pc[w] = "decide"
  /\ \E clashes \in SUBSET Valid(w) :
       /\ clashing' = [clashing EXCEPT ![w] = clashes]
       /\ kept' = [kept EXCEPT ![w] = Valid(w) \ clashes]
       /\ todo' = [todo EXCEPT ![w] = Valid(w) \ clashes]
       /\ accepted' = accepted \cup (Valid(w) \ clashes)
  /\ loaded' = [loaded EXCEPT ![w] = {}]
  /\ Goto(w, "delete")
  /\ UNCHANGED <<clock, tables, result, logged, solo>>

(* Plausible bug: only the rows this request will write again are removed. *)
DeleteOwnRows(w) ==
  /\ pc[w] = "delete"
  /\ rows' = [c \in Credentials |-> IF c \in kept[w] THEN 0 ELSE rows[c]]
  /\ Goto(w, "create")
  /\ UNCHANGED <<clock, cache, passport, score, recorded, locals, accepted, solo>>

(* aupdate_passport removes all the Stamp rows of the passport ...         *)
DeleteRows(w) ==
  /\ pc[w] = "delete"
  /\ rows' = [c \in Credentials |-> 0]
  /\ Goto(w, "create")
  /\ UNCHANGED <<clock, cache, passport, score, recorded, locals, accepted, solo>>

(* ... and creates the new ones one by one.                                *)
CreateRow(w) ==
  /\ pc[w] = "create"
  /\ \E c \in todo[w] :
       /\ rows' = [rows EXCEPT ![c] = @ + 1]
       /\ todo' = [todo EXCEPT ![w] = @ \ {c}]
  /\ UNCHANGED <<clock, cache, passport, score, recorded, pc, loaded, kept,
                 clashing, result, logged, accepted, solo>>

RowsCreated(w) ==
  /\ pc[w] = "create"
  /\ todo[w] = {}
  /\ Goto(w, "compute")
  /\ UNCHANGED <<clock, tables, locals, accepted, solo>>

-----------------------------------------------------------------------------
(***************************************************************************)
(* acalculate_weighted_score: the first row of each provider counts.  The  *)
(* query names no order.                                                   *)
(***************************************************************************)
Stored == {c \in Credentials : rows[c] > 0}

ProvidersOf(creds) == {ProviderOf[c] : c \in creds}

(* Plausible bug: every row counts.                                        *)
FirstOfEachDropped(counted) == counted = Stored

FirstOfEach(counted) ==
  /\ counted \subseteq Stored
  /\ \A c, d \in counted : ProviderOf[c] = ProviderOf[d] => c = d
  /\ ProvidersOf(counted) = ProvidersOf(Stored)

(* A second row of a provider adds nothing and overwrites its points by 0. *)
Repeated ==
  {ProviderOf[c] : c \in {d \in Stored :
     \/ rows[d] > 1
     \/ \E e \in Stored : e # d /\ ProviderOf[e] = ProviderOf[d]}}

EarliestExpiry(counted, expires) ==
  IF counted = {} THEN expires = None
  ELSE /\ \E c \in counted : expires = ExpiresAt[c]
       /\ \A c \in counted : expires <= ExpiresAt[c]

(* acalculate_score: stamps lists the rows' providers and the clashing     *)
(* stamps, with the dedup flag on the latter.                              *)
ScoreOf(counted, clashes, expires) ==
  [status |-> "DONE", counted |-> counted, zeroed |-> Repeated,
   listed |-> ProvidersOf(Stored) \cup ProvidersOf(clashes),
   blank |-> Repeated \cup (ProvidersOf(clashes) \ ProvidersOf(Stored)),
   deduped |-> ProvidersOf(clashes),
   expires |-> expires]

Compute(w) ==
  /\ pc[w] = "compute"
  /\ \E counted \in SUBSET Stored, expires \in ExpiryDates :
       /\ FirstOfEach(counted)
       /\ EarliestExpiry(counted, expires)
       /\ result' = [result EXCEPT ![w] = ScoreOf(counted, clashing[w], expires)]
  /\ Goto(w, "award")
  /\ UNCHANGED <<clock, tables, loaded, kept, clashing, todo, logged, accepted,
                 solo>>

(* The human points of a passing score; a failure here is a failure of     *)
(* ascore_passport.                                                        *)
Award(w) ==
  /\ pc[w] = "award"
  /\ Goto(w, "log")
  /\ UNCHANGED <<clock, tables, locals, accepted, solo>>

(* Plausible bug: the error goes up and nothing is saved.                  *)
FailUnsaved(w) ==
  /\ MayFail
  /\ pc[w] \in {"load", "decide", "delete", "create", "compute", "award"}
  /\ End(w)
  /\ ForgetRequest(w)
  /\ UNCHANGED <<clock, tables, accepted>>

(* An exception in the try block of ascore_passport: clear_on_error.       *)
Fail(w) ==
  /\ MayFail
  /\ pc[w] \in {"load", "decide", "delete", "create", "compute", "award"}
  /\ result' = [result EXCEPT ![w] = Cleared("ERROR")]
  /\ Goto(w, "log")
  /\ UNCHANGED <<clock, tables, loaded, kept, clashing, todo, logged, accepted,
                 solo>>

(* Plausible bug: the signal handler skips a score of zero.                *)
LogNonZeroEvent(w) ==
  /\ pc[w] = "log"
  /\ logged' = [logged EXCEPT ![w] =
                  result[w].status = "DONE" /\ result[w].counted # {}]
  /\ Goto(w, "save")
  /\ UNCHANGED <<clock, tables, loaded, kept, clashing, todo, result, accepted, solo>>

(* score.asave: the pre_save signal records a DONE score as an event ...   *)
LogEvent(w) ==
  /\ pc[w] = "log"
  /\ logged' = [logged EXCEPT ![w] = result[w].status = "DONE"]
  /\ Goto(w, "save")
  /\ UNCHANGED <<clock, tables, loaded, kept, clashing, todo, result, accepted, solo>>

(* Plausible bug: the expiry is missing from the fields that are written.  *)
SaveWithoutExpiry(w) ==
  /\ pc[w] = "save"
  /\ score' = [result[w] EXCEPT !.expires = score.expires]
  /\ recorded' = logged[w]
  /\ End(w)
  /\ ForgetRequest(w)
  /\ UNCHANGED <<clock, cache, passport, rows, accepted>>

(* ... and all the columns of the row are written.                         *)
Save(w) ==
  /\ pc[w] = "save"
  /\ score' = result[w]
  /\ recorded' = logged[w]
  /\ End(w)
  /\ ForgetRequest(w)
  /\ UNCHANGED <<clock, cache, passport, rows, accepted>>

Crash(w) ==
  /\ MayCrash
  /\ pc[w] # "idle"
  /\ End(w)
  /\ ForgetRequest(w)
  /\ UNCHANGED <<clock, tables, accepted>>

-----------------------------------------------------------------------------
(***************************************************************************)
(* recalculate_scores, for this passport: its stamps are read, then its    *)
(* score, and the score is created or the columns a rescore changes are    *)
(* updated.  bulk_create and bulk_update send no pre_save signal.          *)
(***************************************************************************)
Recalculate(b) ==
  /\ passport
  /\ Begin(b, "read")
  /\ UNCHANGED <<clock, tables, locals, accepted>>

(* Plausible bug: the stamps are looked up by the wrong key.               *)
RecalcReadNone(b) ==
  /\ pc[b] = "read"
  /\ result' = [result EXCEPT ![b] = Cleared("DONE")]
  /\ Goto(b, "find")
  /\ UNCHANGED <<clock, tables, loaded, kept, clashing, todo, logged, accepted,
                 solo>>

RecalcRead(b) ==
  /\ pc[b] = "read"
  /\ \E counted \in SUBSET Stored :
       /\ FirstOfEach(counted)
       /\ result' = [result EXCEPT ![b] =
            [Cleared("DONE") EXCEPT !.counted = counted, !.zeroed = Repeated]]
  /\ Goto(b, "find")
  /\ UNCHANGED <<clock, tables, loaded, kept, clashing, todo, logged, accepted,
                 solo>>

RecalcFind(b) ==
  /\ pc[b] = "find"
  /\ Goto(b, IF score = None THEN "insert" ELSE "update")
  /\ UNCHANGED <<clock, tables, locals, accepted, solo>>

(* A Score row that appeared in between makes bulk_create fail, and with   *)
(* it the rescore request.                                                 *)
RecalcInsert(b) ==
  /\ pc[b] = "insert"
  /\ score' = IF score = None THEN result[b] ELSE score
  /\ recorded' = (recorded /\ score' = score)
  /\ End(b)
  /\ UNCHANGED <<clock, cache, passport, rows, loaded, kept, clashing, todo,
                 logged, accepted>>

RecalcUpdate(b) ==
  /\ pc[b] = "update"
  /\ score' = [score EXCEPT !.status = "DONE",
                            !.counted = result[b].counted,
                            !.zeroed = result[b].zeroed]
  /\ recorded' = (recorded /\ score' = score)
  /\ End(b)
  /\ UNCHANGED <<clock, cache, passport, rows, loaded, kept, clashing, todo,
                 logged, accepted>>

-----------------------------------------------------------------------------
(* The user adds, renews or removes the stamp of a provider, or it is      *)
(* revoked.                                                                *)
CacheChanges(p, c) ==
  /\ c # None => ProviderOf[c] = p
  /\ c # cache[p]
  /\ cache' = [cache EXCEPT ![p] = c]
  /\ UNCHANGED <<clock, passport, rows, score, recorded, pc, locals, accepted, solo>>

Tick ==
  /\ clock < MaxTime
  /\ clock' = clock + 1
  /\ UNCHANGED <<tables, pc, locals, accepted, solo>>

Step(w) ==
  \/ GetScore(w) \/ Load(w) \/ Decide(w) \/ DeleteRows(w) \/ CreateRow(w)
  \/ RowsCreated(w) \/ Compute(w) \/ Award(w) \/ Fail(w) \/ LogEvent(w)
  \/ Save(w)

BatchStep(b) ==
  RecalcRead(b) \/ RecalcFind(b) \/ RecalcInsert(b) \/ RecalcUpdate(b)

Next ==
  \/ \E w \in Workers : Arrive(w) \/ Step(w) \/ Crash(w)
  \/ \E b \in Batches : Recalculate(b) \/ BatchStep(b)
  \/ \E p \in Providers, c \in Credentials \cup {None} : CacheChanges(p, c)
  \/ Tick

Spec == Init /\ [][Next]_vars

(* A worker or batch that is running keeps running.                        *)
Fairness ==
  /\ \A w \in Workers : WF_vars(Step(w))
  /\ \A b \in Batches : WF_vars(BatchStep(b))
FairSpec == Spec /\ Fairness

-----------------------------------------------------------------------------
(***************************************************************************)
(* Properties.                                                             *)
(***************************************************************************)

(* However requests and batches interleave, fail and die, a Stamp row, and *)
(* what a score counts, is a credential that some request found valid and  *)
(* not held by another passport, and a provider counts once.               *)
OnlyAcceptedStampsCount ==
  /\ Stored \subseteq accepted
  /\ score # None =>
       /\ score.counted \subseteq accepted
       /\ \A c, d \in score.counted : ProviderOf[c] = ProviderOf[d] => c = d

RowsAre(creds) == \A c \in Credentials : rows[c] = IF c \in creds THEN 1 ELSE 0

(* A request that has run alone ends with exactly the stamps it kept, as   *)
(* rows and as score, whatever earlier requests left behind when they      *)
(* raced, failed or died: scoring again heals the passport.                *)
SoloRequestsHeal ==
  \A w \in Workers \cap solo :
    pc[w] \in {"award", "log", "save"} /\ result[w].status = "DONE" =>
      /\ RowsAre(kept[w])
      /\ result[w].counted = kept[w]
      /\ result[w].zeroed = {}

(* A score that is done can be found in the history endpoint, that is      *)
(* among the SCORE_UPDATE events, also if a worker dies between the two    *)
(* statements of the save.                                                 *)
DoneScoresAreInHistory ==
  score # None /\ score.status = "DONE" => recorded

(* computation.py: the earliest expiration date of the stamps used to      *)
(* calculate the score is the expiration date of the score.                *)
ScoresExpireWithTheirStamps ==
  score # None /\ score.status = "DONE" =>
    EarliestExpiry(score.counted, score.expires)

(* Recalculating a score that no request is working on, with the weights   *)
(* it was made with, does not change it when it agrees with the rows.      *)
RecalculationIsIdempotent ==
  [][\A b \in Batches \cap solo :
       /\ pc[b] = "update" /\ pc'[b] = "idle"
       /\ score.status = "DONE" /\ RowsAre(score.counted) /\ score.zeroed = {}
       => score' = score]_vars

(* A score that is being processed is done or has failed at some point:    *)
(* no client waits for a score forever.                                    *)
ProcessingEnds ==
  (score # None /\ score.status = "PROCESSING")
    ~> (score # None /\ score.status # "PROCESSING")

(***************************************************************************)
(* The inductive invariant.                                                *)
(***************************************************************************)
Sound(row) ==
  /\ row.counted \subseteq accepted
  /\ \A c, d \in row.counted : ProviderOf[c] = ProviderOf[d] => c = d

(* What is held in memory is as sound as what is stored.                   *)
MemoryInv ==
  /\ \A w \in Workers : todo[w] \subseteq kept[w] /\ kept[w] \subseteq accepted
  /\ \A p \in Processes : Sound(result[p])
  /\ \A w \in Workers :
       \A c, d \in loaded[w] : ProviderOf[c] = ProviderOf[d] => c = d
  /\ \A w \in Workers :
       \A c, d \in kept[w] : ProviderOf[c] = ProviderOf[d] => c = d

(* The columns of the cache hold credentials of their provider.            *)
CacheInv ==
  \A p \in Providers : cache[p] # None => ProviderOf[cache[p]] = p

(* A score that was found stays there.                                     *)
FoundInv == \A b \in Batches : pc[b] = "update" => score # None

(* The process that has run alone is running, and nothing else is.         *)
SoloInv ==
  \A p \in solo : pc[p] # "idle" /\ \A q \in Processes \ {p} : pc[q] = "idle"

(* While it has, the rows are what it has written so far.                  *)
SoloRowsInv ==
  \A w \in Workers \cap solo :
    /\ pc[w] = "delete" => todo[w] = kept[w]
    /\ pc[w] = "create" => RowsAre(kept[w] \ todo[w])
    /\ pc[w] = "compute" => RowsAre(kept[w])

IInv ==
  /\ TypeOK
  /\ OnlyAcceptedStampsCount
  /\ MemoryInv
  /\ CacheInv
  /\ FoundInv
  /\ SoloInv
  /\ SoloRowsInv
  /\ SoloRequestsHeal
=============================================================================
