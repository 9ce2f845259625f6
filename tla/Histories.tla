------------------------------ MODULE Histories ------------------------------
(***************************************************************************)
(* The history of the score of one address in one community: the           *)
(* SCORE_UPDATE events that Python's pre_save signal (registry/models.py)  *)
(* and the scorer in Rust write, and the endpoint that answers what the    *)
(* score was at a time (get_score_history in v2/api/api_stamps.py).        *)
(*                                                                         *)
(* Python inserts the event in a statement of its own before it saves the  *)
(* row.  Rust inserts it in the transaction of the scoring, dated with     *)
(* NOW(), which is when the transaction began, and as a list of one        *)
(* element.  No two statements have the same time.                         *)
(***************************************************************************)
EXTENDS Integers, FiniteSets

CONSTANTS
  Scorings,  \* each of them runs once
  Old,       \* one that ended before
  None

VARIABLES
  clock,     \* the time of the last statement that has one
  stored,    \* the Score: who wrote it and how
  events,    \* the Events that are visible: whose, when, and in which form
  jobs,      \* the step of each scoring, and when its transaction began
  overlaps,  \* history: the pairs of scorings that ran at the same time
  asked      \* history: one question of a client, and its answer

historyVars == <<clock, stored, events, jobs, overlaps, asked>>

JobSteps == {"ready", "python", "logged", "rust", "locked", "written", "done", "lost"}
InRust == {"rust", "locked", "written"}
Active(w) == jobs[w].step \in {"python", "logged"} \cup InRust

RowOf(w, how) == [by |-> w, how |-> how]
EventOf(w, at, form) == [by |-> w, at |-> at, form |-> form]

HistoryTypeOK ==
  /\ clock \in Nat
  /\ stored = None \/ stored \in [by: Scorings \cup {Old},
                                how: {"scored", "failed", "recalculated"}]
  /\ \A e \in events :
       /\ e.by \in Scorings \cup {Old}
       /\ e.at \in 0..clock
       /\ e.form \in {"legacy", "object", "list"}
       /\ \A f \in events \ {e} : f.by # e.by /\ f.at # e.at
  /\ jobs \in [Scorings -> [step: JobSteps, began: 0..clock]]
  /\ overlaps \subseteq SUBSET Scorings
  /\ Cardinality({w \in Scorings : jobs[w].step \in {"locked", "written"}}) <= 1

(* Nothing, or an event without "fields", as they were before.             *)
HistoryInit ==
  /\ clock = 0
  /\ \/ stored = None /\ events = {}
     \/ stored = RowOf(Old, "scored") /\ events = {EventOf(Old, 0, "legacy")}
  /\ jobs = [w \in Scorings |-> [step |-> "ready", began |-> 0]]
  /\ overlaps = {}
  /\ asked = None

-----------------------------------------------------------------------------
MoveTo(w, from, to) ==
  /\ jobs[w].step = from
  /\ jobs' = [jobs EXCEPT ![w].step = to]
  /\ UNCHANGED asked

Overlapping(w) == overlaps \cup {{w, v} : v \in {v \in Scorings : Active(v)}}

(* A transaction holds the row from its upsert to its end.                 *)
RowIsFree == \A w \in Scorings : jobs[w].step # "written"

(***************************************************************************)
(* ahandle_scoring in Python; only a DONE score has an event.              *)
(***************************************************************************)
StartPython(w) ==
  /\ MoveTo(w, "ready", "python")
  /\ overlaps' = Overlapping(w)
  /\ UNCHANGED <<clock, stored, events>>

score_updated(w) ==
  /\ MoveTo(w, "python", "logged")
  /\ clock' = clock + 1
  /\ events' = events \cup {EventOf(w, clock + 1, "object")}
  /\ UNCHANGED <<stored, overlaps>>

SaveScore(w) ==
  /\ RowIsFree
  /\ MoveTo(w, "logged", "done")
  /\ stored' = RowOf(w, "scored")
  /\ UNCHANGED <<clock, events, overlaps>>

(* Plausible bug: the row is saved first, as with a post_save signal.      *)
score_updatedLate(w) ==
  /\ MoveTo(w, "python", "logged")
  /\ RowIsFree
  /\ stored' = RowOf(w, "scored")
  /\ UNCHANGED <<clock, events, overlaps>>

(* clear_on_error, and the save.                                           *)
SaveError(w) ==
  /\ RowIsFree
  /\ MoveTo(w, "python", "done")
  /\ stored' = RowOf(w, "failed")
  /\ UNCHANGED <<clock, events, overlaps>>

(* recalculate_scores writes in bulk, which sends no signal.               *)
BulkUpdate(w) ==
  /\ RowIsFree
  /\ stored # None
  /\ MoveTo(w, "ready", "done")
  /\ stored' = RowOf(w, "recalculated")
  /\ UNCHANGED <<clock, events, overlaps>>

-----------------------------------------------------------------------------
(***************************************************************************)
(* calculate_score_for_address in Rust.                                    *)
(***************************************************************************)
BeginRust(w) ==
  /\ jobs[w].step = "ready"
  /\ clock' = clock + 1
  /\ jobs' = [jobs EXCEPT ![w] = [step |-> "rust", began |-> clock + 1]]
  /\ overlaps' = Overlapping(w)
  /\ UNCHANGED <<stored, events, asked>>

(* The upsert of the passport lets one scoring go on at a time.            *)
LockPassport(w) ==
  /\ \A v \in Scorings : jobs[v].step \notin {"locked", "written"}
  /\ MoveTo(w, "rust", "locked")
  /\ UNCHANGED <<clock, stored, events, overlaps>>

UpsertScore(w) ==
  /\ MoveTo(w, "locked", "written")
  /\ UNCHANGED <<clock, stored, events, overlaps>>

CommitRust(w) ==
  /\ MoveTo(w, "written", "done")
  /\ stored' = RowOf(w, "scored")
  /\ events' = events \cup {EventOf(w, jobs[w].began, "list")}
  /\ UNCHANGED <<clock, overlaps>>

(* The worker dies, or a statement fails; a transaction leaves nothing.    *)
Break(w) ==
  /\ Active(w)
  /\ MoveTo(w, jobs[w].step, IF jobs[w].step = "logged" THEN "lost" ELSE "done")
  /\ UNCHANGED <<clock, stored, events, overlaps>>

-----------------------------------------------------------------------------
(***************************************************************************)
(* get_score_history: the newest event up to the time that is asked for.   *)
(* extract_score_data takes the "fields" of an object, and an object       *)
(* without them for the fields; of a list it cannot get anything.          *)
(***************************************************************************)
NewestBy(t) ==
  {e \in events : e.at <= t /\ \A f \in events : f.at <= t => f.at <= e.at}

extract_score_data(e) == IF e.form = "list" THEN "error" ELSE e.by

AnswerOf(newest) ==
  IF newest = {} THEN "none" ELSE extract_score_data(CHOOSE e \in newest : TRUE)

get_score_history(t) == AnswerOf(NewestBy(t))

Ask ==
  /\ asked = None
  /\ \E t \in 0..clock :
       asked' = [time |-> t, answer |-> get_score_history(t),
                 open |-> {w \in Scorings :
                             jobs[w].step \in InRust /\ jobs[w].began <= t}]
  /\ UNCHANGED <<clock, stored, events, jobs, overlaps>>

HistoryNext ==
  \/ Ask
  \/ \E w \in Scorings :
       \/ StartPython(w) \/ score_updated(w) \/ SaveScore(w) \/ SaveError(w)
       \/ BulkUpdate(w) \/ BeginRust(w) \/ LockPassport(w) \/ UpsertScore(w)
       \/ CommitRust(w) \/ Break(w)

HistorySpec == HistoryInit /\ [][HistoryNext]_historyVars

-----------------------------------------------------------------------------
Newest == NewestBy(clock)

(* A score that is shown has its event, and the newest event is that of    *)
(* the score that is shown, unless the row was written without one, or its *)
(* scoring has not ended, died before the save, or ran at the same time as *)
(* the one that wrote the row.                                             *)
HistoryFollowsTheScore ==
  /\ stored # None /\ stored.how = "scored" => \E e \in events : e.by = stored.by
  /\ stored = None \/ stored.how = "scored" =>
       \A e \in Newest :
         \/ stored # None /\ stored.by = e.by
         \/ e.by \in Scorings /\ (Active(e.by) \/ jobs[e.by].step = "lost")
         \/ stored # None /\ {stored.by, e.by} \in overlaps

(* What was answered for a time that has passed stays the answer, unless   *)
(* the transaction of a scoring in Rust that had begun by then was open    *)
(* and committed.                                                          *)
AnswersStay ==
  asked # None =>
    \/ get_score_history(asked.time) = asked.answer
    \/ \E w \in asked.open, e \in events : e.by = w

(* Where a score was recorded, the endpoint tells it.                      *)
HistoriesAreReadable ==
  \A t \in 0..clock : get_score_history(t) # "error"
=============================================================================
