------------------------------- MODULE ApiKeys -------------------------------
(***************************************************************************)
(* A request with an API key, from its header to its record: the check of  *)
(* the key, which writes a fast hash beside the old one when a key is used *)
(* first, the rate limit, and the row of the analytics, in the Lambdas and *)
(* the synchronous views (src/api/registry/api/utils.py: ApiKey,           *)
(* src/api/aws_lambdas/utils.py), the asynchronous views (aapi_key) and in *)
(* Rust (src/rust-scorer/src/auth/api_key.rs), while the owner of the key  *)
(* and the admins edit and delete its row.                                 *)
(***************************************************************************)
EXTENDS Integers, Sequences, FiniteSets

CONSTANTS
  Requests,   \* the requests that are served at a time
  Edits,      \* the settings that the owner and the admins may give a key
  RateLimit,  \* how many requests the limit lets through in its time
  Gone        \* no row

VARIABLES
  keyRow,     \* the AccountAPIKey row
  editing,    \* the row as an edit has read it
  window,     \* how many requests count for the limit, which bounds it
  calls,      \* the requests
  log,        \* the status of each AccountAPIKeyAnalytics row of a request
  migrating,  \* the hashes that tasks of Rust are to write
  owned,      \* history: the settings that the last edit left
  steady,     \* history: the requests whose key was in force all the time
  lost        \* history: the requests whose analytics were lost

keyVars ==
  <<keyRow, editing, window, calls, log, migrating, owned, steady, lost>>

Languages == {"sync", "async", "rust"}

(* What a request has for a key: none that has a row, one with the prefix  *)
(* of the key, or the key.                                                 *)
Given == {"none", "wrong", "right"}

(* A tier, or no limit; a key without read_scores is no good in Rust.      *)
Standings == {"usable", "unread", "expired", "revoked"}
Settings == [rate: {"tier", "unlimited"}, standing: Standings]

(* The fast hash; the old one is of the key in every row.                  *)
KeyRow == [settings: Settings, sha: {"none"} \cup Given]

Resting == [step |-> "idle", language |-> "sync", given |-> "none",
            row |-> Gone, status |-> 0, known |-> FALSE]

KeysTypeOK ==
  /\ keyRow \in KeyRow \cup {Gone}
  /\ editing \in KeyRow \cup {Gone}
  /\ window \in 0..RateLimit
  /\ \A r \in Requests :
       /\ calls[r].step \in {"idle", "look", "migrate", "limit", "serve",
                             "track", "answered"}
       /\ calls[r].language \in Languages /\ calls[r].given \in Given
       /\ calls[r].row \in KeyRow \cup {Gone}
       /\ calls[r].status \in {0, 200, 401, 429, 500}
       /\ Len(log[r]) <= 1
  /\ migrating \subseteq Given
  /\ owned \in Settings
  /\ steady \cup lost \subseteq Requests

KeysInit ==
  /\ keyRow = [settings |-> [rate |-> "tier", standing |-> "usable"], sha |-> "none"]
  /\ editing = Gone
  /\ window = 0
  /\ calls = [r \in Requests |-> Resting]
  /\ log = [r \in Requests |-> <<>>]
  /\ migrating = {}
  /\ owned = keyRow.settings
  /\ steady = {}
  /\ lost = {}

-----------------------------------------------------------------------------
(***************************************************************************)
(* The owner and the admins, one at a time, who save whole rows.           *)
(***************************************************************************)
InForce == keyRow # Gone /\ keyRow.settings.standing = "usable"

ReadForEdit ==
  /\ editing = Gone /\ keyRow # Gone
  /\ editing' = keyRow
  /\ UNCHANGED <<keyRow, window, calls, log, migrating, owned, steady, lost>>

SaveEdit ==
  \E s \in Edits :
    /\ editing # Gone
    /\ editing.settings.standing = "revoked" => s.standing = "revoked"
    /\ keyRow' = [editing EXCEPT !.settings = s]
    /\ editing' = Gone
    /\ owned' = s
    /\ steady' = IF s.standing = "usable" THEN steady ELSE {}
    /\ UNCHANGED <<window, calls, log, migrating, lost>>

(* The expiry date, which an edit has read too, comes.                     *)
Ended(settings) == [settings EXCEPT !.standing = "expired"]

Expire ==
  /\ InForce
  /\ keyRow' = [keyRow EXCEPT !.settings = Ended(@)]
  /\ editing' = IF editing = Gone THEN Gone ELSE [editing EXCEPT !.settings = Ended(@)]
  /\ owned' = Ended(owned)
  /\ steady' = {}
  /\ UNCHANGED <<window, calls, log, migrating, lost>>

(* The rows of the analytics go with the key.                              *)
DeleteKey ==
  /\ editing = Gone /\ keyRow # Gone
  /\ keyRow' = Gone
  /\ log' = [r \in Requests |-> <<>>]
  /\ lost' = {r \in Requests : calls[r].step # "idle"}
  /\ steady' = {}
  /\ UNCHANGED <<editing, window, calls, migrating, owned>>

(* The time of the limit is over.                                          *)
NextWindow ==
  /\ window # 0
  /\ window' = 0
  /\ UNCHANGED <<keyRow, editing, calls, log, migrating, owned, steady, lost>>

-----------------------------------------------------------------------------
(***************************************************************************)
(* The check of the key.                                                   *)
(***************************************************************************)
Receive(r) ==
  \E l \in Languages, g \in Given :
    /\ calls[r].step = "idle"
    /\ calls' = [calls EXCEPT ![r] =
                  [Resting EXCEPT !.step = "look", !.language = l, !.given = g]]
    /\ log' = [log EXCEPT ![r] = <<>>]
    /\ steady' = IF InForce THEN steady \cup {r} ELSE steady \ {r}
    /\ lost' = IF keyRow = Gone THEN lost \cup {r} ELSE lost \ {r}
    /\ UNCHANGED <<keyRow, editing, window, migrating, owned>>

Move(r, to) == calls' = [calls EXCEPT ![r] = to]
Answer(r, status) ==
  Move(r, [calls[r] EXCEPT !.step = "answered", !.status = status])

(* The synchronous check finds any row, the asynchronous one any that is   *)
(* not revoked.                                                            *)
Found(r) ==
  /\ keyRow # Gone /\ calls[r].given \in {"wrong", "right"}
  /\ \/ calls[r].language = "sync"
     \/ calls[r].language = "async" /\ keyRow.settings.standing # "revoked"
     \/ calls[r].language = "rust" /\ InForce

(* verify_key: the fast hash decides, where there is one.                  *)
Verified(r) ==
  IF keyRow.sha = "none" THEN calls[r].given = "right"
  ELSE calls[r].given = keyRow.sha

Refuse(r, rust) ==
  /\ calls[r].step = "look" /\ (calls[r].language = "rust") = rust
  /\ ~(Found(r) /\ Verified(r))
  /\ Answer(r, 401)
  /\ UNCHANGED <<keyRow, editing, window, owned, steady, lost>>

(* The views have nothing recorded of what they refuse here.               *)
RefuseKey(r) == Refuse(r, FALSE) /\ UNCHANGED <<log, migrating>>

(* The fast hash of a key that was verified is left to a task.             *)
SpawnMigration(r) ==
  migrating' = IF keyRow.sha = "none" THEN migrating \cup {calls[r].given}
               ELSE migrating

(* Rust leaves a row to a task, which needs a key that has the prefix.  A  *)
(* key without read_scores is refused after it was verified.               *)
RefuseKeyInRust(r) ==
  /\ Refuse(r, TRUE)
  /\ IF keyRow # Gone /\ keyRow.settings.standing = "unread" /\ Verified(r)
     THEN SpawnMigration(r) ELSE UNCHANGED migrating
  /\ \/ UNCHANGED log
     \/ /\ calls[r].given \in {"wrong", "right"} /\ keyRow # Gone
        /\ log' = [log EXCEPT ![r] = <<401>>]

Accept(r, rust, next) ==
  /\ calls[r].step = "look" /\ (calls[r].language = "rust") = rust
  /\ Found(r) /\ Verified(r)
  /\ Move(r, [calls[r] EXCEPT !.row = IF rust THEN Gone ELSE keyRow,
                              !.known = TRUE, !.step = next])
  /\ UNCHANGED <<keyRow, editing, window, log, owned, steady, lost>>

AcceptKey(r) ==
  /\ Accept(r, FALSE, IF keyRow.sha = "none" THEN "migrate" ELSE "limit")
  /\ UNCHANGED migrating

(* The request is recorded before it is served, and there is no limit.     *)
AcceptKeyInRust(r) == Accept(r, TRUE, "track") /\ SpawnMigration(r)

MigrateAs(r, row) ==
  /\ calls[r].step = "migrate"
  /\ IF keyRow = Gone
     THEN /\ Move(r, [calls[r] EXCEPT !.step = "answered", !.status = 500,
                                      !.row = Gone, !.known = FALSE])
          /\ UNCHANGED keyRow
     ELSE /\ Move(r, [calls[r] EXCEPT !.step = "limit"])
          /\ keyRow' = row
  /\ UNCHANGED <<editing, window, log, migrating, owned, steady, lost>>

(* save(update_fields), which raises if the row is gone.                   *)
Migrate(r) == MigrateAs(r, [keyRow EXCEPT !.sha = calls[r].given])

(* Plausible bug: save, without the names of the columns.                  *)
MigrateWholeRow(r) == MigrateAs(r, [calls[r].row EXCEPT !.sha = calls[r].given])

(* A task of Rust, which fails without notice.                             *)
MigrateLater ==
  \E h \in migrating :
    /\ migrating' = migrating \ {h}
    /\ \/ UNCHANGED keyRow
       \/ keyRow # Gone /\ keyRow' = [keyRow EXCEPT !.sha = h]
    /\ UNCHANGED <<editing, window, calls, log, owned, steady, lost>>

-----------------------------------------------------------------------------
(***************************************************************************)
(* What follows.                                                           *)
(***************************************************************************)
(* check_rate_limit, by the row that the check has read.                   *)
CheckRateLimit(r) ==
  LET limited == calls[r].row.settings.rate = "tier" IN
  /\ calls[r].step = "limit"
  /\ window' = IF limited /\ window < RateLimit THEN window + 1 ELSE window
  /\ Move(r, IF limited /\ window = RateLimit
             THEN [calls[r] EXCEPT !.row = Gone, !.step = "track", !.status = 429]
             ELSE [calls[r] EXCEPT !.row = Gone, !.step = "serve"])
  /\ UNCHANGED <<keyRow, editing, log, migrating, owned, steady, lost>>

Serve(r) ==
  \E status \in {200, 500} :
    /\ calls[r].step = "serve"
    /\ IF calls[r].language = "rust" THEN Answer(r, status)
       ELSE Move(r, [calls[r] EXCEPT !.step = "track", !.status = status])
    /\ UNCHANGED <<keyRow, editing, window, log, migrating, owned, steady, lost>>

(* The row of the analytics, unless something fails.                       *)
Record(r, status) ==
  /\ keyRow # Gone
  /\ log' = [log EXCEPT ![r] = Append(@, status)]
  /\ UNCHANGED lost

RecordFails(r) == lost' = lost \cup {r} /\ UNCHANGED log

(* An error is raised again once it is recorded; what fails while it is    *)
(* recorded is passed over.                                                *)
TrackUsage(r) ==
  /\ calls[r].step = "track" /\ calls[r].language # "rust"
  /\ Answer(r, calls[r].status)
  /\ Record(r, calls[r].status) \/ RecordFails(r)
  /\ UNCHANGED <<keyRow, editing, window, migrating, owned, steady>>

(* Rust answers with an error if it cannot record the request.             *)
TrackUsageInRust(r) ==
  /\ calls[r].step = "track" /\ calls[r].language = "rust"
  /\ \/ Record(r, 200) /\ Move(r, [calls[r] EXCEPT !.step = "serve"])
     \/ RecordFails(r) /\ Answer(r, 500)
  /\ UNCHANGED <<keyRow, editing, window, migrating, owned, steady>>

Finish(r) ==
  /\ calls[r].step = "answered"
  /\ Move(r, Resting)
  /\ log' = [log EXCEPT ![r] = <<>>]
  /\ steady' = steady \ {r}
  /\ lost' = lost \ {r}
  /\ UNCHANGED <<keyRow, editing, window, migrating, owned>>

KeysNext ==
  \/ ReadForEdit \/ SaveEdit \/ Expire \/ DeleteKey \/ NextWindow \/ MigrateLater
  \/ \E r \in Requests :
       \/ Receive(r) \/ RefuseKey(r) \/ RefuseKeyInRust(r)
       \/ AcceptKey(r) \/ AcceptKeyInRust(r) \/ Migrate(r) \/ CheckRateLimit(r)
       \/ Serve(r) \/ TrackUsage(r) \/ TrackUsageInRust(r)
       \/ Finish(r)

-----------------------------------------------------------------------------
(* The fast hash is written while the row is edited: it never undoes what  *)
(* the owner left there, nor does it bring a deleted key back, and a hash  *)
(* that is written is of the key.                                          *)
SettingsAreKept ==
  keyRow # Gone => keyRow.settings = owned /\ keyRow.sha \in {"none", "right"}

(* A key that is in force as long as the request takes is not refused, by  *)
(* whichever language, whoever writes its fast hash or takes it away by an *)
(* edit; another key with its prefix is.                                   *)
KeysAreRecognized ==
  \A r \in Requests : calls[r].step = "answered" =>
    /\ calls[r].given = "right" /\ r \in steady => calls[r].status # 401
    /\ calls[r].given # "right" => calls[r].status = 401

(* Whoever had the right key finds the request recorded once, with the     *)
(* status that was answered, unless the record failed or went with the     *)
(* key.  Rust has recorded a success before there is one.                  *)
RequestsAreRecorded ==
  \A r \in Requests :
    calls[r].step = "answered" /\ calls[r].known /\ r \notin lost =>
      log[r] = <<IF calls[r].language = "rust" THEN 200 ELSE calls[r].status>>
=============================================================================
