---------------------------- MODULE ScoreResponses ----------------------------
(***************************************************************************)
(* What the embed, internal and ceramic cache endpoints answer: the stamps *)
(* of an address next to its score (src/api/embed/api.py, internal/api.py, *)
(* ceramic_cache/api/v1.py; rust-scorer/src/api/handlers/embed.rs).  The   *)
(* two are read at different times, in an order of its own by each         *)
(* handler, while stamps are replaced, deleted, revoked and expire and     *)
(* another worker saves the same Score.  Here the computation of a score   *)
(* only tells which stamps it counts; ScorePipeline has the rest.          *)
(***************************************************************************)
EXTENDS Integers, FiniteSets, FiniteSetsExt

CONSTANTS
  StampKinds,   \* the providers of stamps
  LastVersion,  \* bound on the uploads
  LastMoment,   \* bound on the clock
  NoScore

VARIABLES
  live,         \* CeramicCache: the upload of each provider's live row, or 0
  expires,      \* when the stamps of each upload expire
  uploads,
  revoked,      \* the live rows that have a Revocation
  now,
  saved,        \* the Score row: the stamps it counts, its expiration
  elsewhere,    \* the score that another worker has computed and not saved
  request,      \* the request: its handler, step, stamps shown and counted
  began,        \* history: when it began
  changed       \* history: the providers that others have changed since

responseVars == <<live, expires, uploads, revoked, now, saved, elsewhere,
                  request, began, changed>>

Handlers == {"add", "get", "ui", "stamps", "rust_add", "rust_get"}
Adding == {"add", "rust_add"}
UploadIds == 1..LastVersion
NoRequest == [handler |-> "none", step |-> "ready", added |-> {},
              shown |-> {}, score |-> NoScore]
Score(counted, expiry) == [counted |-> counted, expires |-> expiry]

Rows == {<<p, live[p]>> : p \in {q \in StampKinds : live[q] # 0}}

ResponseTypeOK ==
  /\ live \in [StampKinds -> 0..uploads]
  /\ expires \in [UploadIds -> 0..(LastMoment + 1)]
  /\ uploads \in 0..LastVersion
  /\ revoked \subseteq Rows
  /\ now \in 0..LastMoment
  /\ request.handler \in Handlers \cup {"none"}
  /\ request.step \in
       {"ready", "delete", "create", "show", "score", "look", "answer"}
  /\ request.shown \subseteq StampKinds \X UploadIds
  /\ changed \subseteq StampKinds

ResponseInit ==
  /\ live = [p \in StampKinds |-> 0]
  /\ expires = [v \in UploadIds |-> 0]
  /\ uploads = 0
  /\ revoked = {}
  /\ now = 0
  /\ saved = NoScore
  /\ elsewhere = NoScore
  /\ request = NoRequest
  /\ began = 0
  /\ changed = {}

-----------------------------------------------------------------------------
Tick ==
  /\ now < LastMoment
  /\ now' = now + 1
  /\ UNCHANGED <<live, expires, uploads, revoked, saved, elsewhere, request,
                 began, changed>>

(* The live rows of some providers become those of an upload, or none.     *)
Replace(providers, version) ==
  /\ live' = [p \in StampKinds |-> IF p \in providers THEN version ELSE live[p]]
  /\ revoked' = {row \in revoked : row[1] \notin providers}

Insert(providers) ==
  /\ uploads < LastVersion
  /\ uploads' = uploads + 1
  /\ \E life \in {0, 1} : expires' = [expires EXCEPT ![uploads + 1] = now + life]
  /\ Replace(providers, uploads + 1)

(* Other requests delete and insert rows, and bans revoke them.            *)
OthersDelete ==
  /\ \E p \in StampKinds :
       live[p] # 0 /\ Replace({p}, 0) /\ changed' = changed \cup {p}
  /\ UNCHANGED <<expires, uploads, now, saved, elsewhere, request, began>>

OthersInsert ==
  /\ \E p \in StampKinds :
       live[p] = 0 /\ Insert({p}) /\ changed' = changed \cup {p}
  /\ UNCHANGED <<now, saved, elsewhere, request, began>>

OthersRevoke ==
  /\ \E row \in Rows \ revoked :
       revoked' = revoked \cup {row} /\ changed' = changed \cup {row[1]}
  /\ UNCHANGED <<live, expires, uploads, now, saved, elsewhere, request, began>>

-----------------------------------------------------------------------------
(* get_latest_stamps_by_provider has revoked rows, aget_passport not; then *)
(* expired credentials are dropped, and the earliest date is the score's.  *)
Countable(rust) ==
  {row \in IF rust THEN Rows ELSE Rows \ revoked : expires[row[2]] >= now}
ScoreNow(rust) ==
  LET counted == Countable(rust) IN
  Score(counted, IF counted = {} THEN LastMoment + 1
                 ELSE Min({expires[row[2]] : row \in counted}))

(* Another worker computes a score, and saves it later.                    *)
OthersCompute ==
  /\ elsewhere = NoScore
  /\ \E rust \in BOOLEAN : elsewhere' = ScoreNow(rust)
  /\ UNCHANGED <<live, expires, uploads, revoked, now, saved, request, began,
                 changed>>

OthersSave ==
  /\ elsewhere # NoScore
  /\ saved' = elsewhere
  /\ elsewhere' = NoScore
  /\ UNCHANGED <<live, expires, uploads, revoked, now, request, began, changed>>

-----------------------------------------------------------------------------
FirstStep ==
  [h \in Handlers |->
     CASE h \in Adding -> "delete" [] h = "get" -> "score"
       [] h = "rust_get" -> "show" [] h \in {"ui", "stamps"} -> "look"]

(* A request of handle_embed_add_stamps, handle_get_score, handle_get_ui_  *)
(* score, handle_get_stamps, add_stamps_handler or get_embed_score_handler.*)
Receive ==
  /\ request = NoRequest
  /\ \E h \in Handlers, added \in SUBSET StampKinds :
       /\ (added = {}) <=> h \notin Adding
       /\ request' = [NoRequest EXCEPT !.handler = h, !.step = FirstStep[h],
                                       !.added = added]
  /\ began' = now
  /\ changed' = {}
  /\ UNCHANGED <<live, expires, uploads, revoked, now, saved, elsewhere>>

At(handlers, step) == request.handler \in handlers /\ request.step = step
Then(step) == request' = [request EXCEPT !.step = step]

(* handle_add_stamps_only: the update, and the bulk_create; a provider     *)
(* that came back in between violates the unique constraint.               *)
DeleteOwn ==
  /\ At({"add"}, "delete")
  /\ Replace(request.added, 0)
  /\ Then("create")
  /\ UNCHANGED <<expires, uploads, now, saved, elsewhere, began, changed>>

CreateOwn ==
  /\ At({"add"}, "create")
  /\ IF \E p \in request.added : live[p] # 0
     THEN /\ request' = NoRequest
          /\ UNCHANGED <<live, revoked, expires, uploads>>
     ELSE Insert(request.added) /\ Then("show")
  /\ UNCHANGED <<now, saved, elsewhere, began, changed>>

(* add_stamps_handler does both in a transaction.                          *)
ReplaceOwn ==
  /\ At({"rust_add"}, "delete")
  /\ Insert(request.added)
  /\ Then("score")
  /\ UNCHANGED <<now, saved, elsewhere, began, changed>>

(* The rows that are listed in the answer: not deleted, not revoked.  What *)
(* comes next differs; handle_get_stamps reads them when it has the score. *)
Show ==
  /\ request.step = "show"
  /\ request' = [request EXCEPT !.shown = Rows \ revoked,
       !.step = IF request.handler \in {"add", "rust_get"} THEN "score"
                ELSE "answer"]
  /\ UNCHANGED <<live, expires, uploads, revoked, now, saved, elsewhere, began,
                 changed>>

IsRust == request.handler \in {"rust_add", "rust_get"}

(* handle_scoring_for_account, or calculate_score_for_address: the score   *)
(* is saved, and answered as it was computed.                              *)
ComputeScore ==
  /\ request.step = "score"
  /\ saved' = ScoreNow(IsRust)
  /\ request' = [request EXCEPT !.score = saved',
       !.step = IF request.handler \in {"get", "rust_add", "stamps"} THEN "show"
                ELSE "answer"]
  /\ UNCHANGED <<live, expires, uploads, revoked, now, elsewhere, began, changed>>

(* Plausible bug: a stored score is answered although it has expired.      *)
LookAtAny ==
  /\ request.step = "look"
  /\ request' =
       IF saved = NoScore THEN [request EXCEPT !.step = "score"]
       ELSE [request EXCEPT !.score = saved,
               !.step = IF request.handler = "ui" THEN "answer" ELSE "show"]
  /\ UNCHANGED <<live, expires, uploads, revoked, now, saved, elsewhere, began,
                 changed>>

(* handle_get_ui_score computes the score anew if there is none or it has  *)
(* expired; handle_get_stamps only if there is none, and answers none.     *)
LookUp ==
  /\ request.step = "look"
  /\ request' =
       IF request.handler = "ui"
       THEN IF saved = NoScore \/ saved.expires < now
            THEN [request EXCEPT !.step = "score"]
            ELSE [request EXCEPT !.score = saved, !.step = "answer"]
       ELSE [request EXCEPT !.step = IF saved = NoScore THEN "score" ELSE "show"]
  /\ UNCHANGED <<live, expires, uploads, revoked, now, saved, elsewhere, began,
                 changed>>

SendAnswer ==
  /\ request.step = "answer"
  /\ request' = NoRequest
  /\ UNCHANGED <<live, expires, uploads, revoked, now, saved, elsewhere, began,
                 changed>>

(* The scoring may fail, and the request with it: what it wrote stays.     *)
FailRequest ==
  /\ request.step \in {"score", "show"}
  /\ request' = NoRequest
  /\ UNCHANGED <<live, expires, uploads, revoked, now, saved, elsewhere, began,
                 changed>>

ResponseNext ==
  \/ Tick \/ OthersDelete \/ OthersInsert \/ OthersRevoke
  \/ OthersCompute \/ OthersSave
  \/ Receive \/ DeleteOwn \/ CreateOwn \/ ReplaceOwn \/ Show \/ ComputeScore
  \/ LookUp \/ SendAnswer \/ FailRequest

-----------------------------------------------------------------------------
Answering(handlers) == At(handlers, "answer")

(* The stamps of an answer are those its score counts, as far as nobody    *)
(* else changed them meanwhile: a stamp that is shown and not counted had  *)
(* expired, and one that is counted and not shown was revoked, which only  *)
(* Rust still counts.                                                      *)
AnswersFit ==
  Answering({"add", "get", "rust_add", "rust_get"}) =>
    \A row \in StampKinds \X UploadIds :
      row[1] \notin changed =>
        /\ row \in request.shown \ request.score.counted
             => expires[row[2]] < now
        /\ row \in request.score.counted \ request.shown
             => IsRust /\ row \in revoked

(* Who adds stamps and is answered sees them, and they count unless they   *)
(* expired, whatever others do to the stamps of other providers.           *)
AddsAreAnswered ==
  Answering(Adding) =>
    \A p \in request.added \ changed :
      /\ <<p, live[p]>> \in request.shown
      /\ \/ <<p, live[p]>> \in request.score.counted
         \/ expires[live[p]] < now

(* No score counts a stamp that had expired before it was asked for,       *)
(* stored or not, and whoever stored it.                                   *)
ScoresAreCurrent ==
  Answering(Handlers \ {"stamps"}) =>
    \A row \in request.score.counted : expires[row[2]] >= began
=============================================================================
