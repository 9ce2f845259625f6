--------------------------- MODULE RequestProofs ---------------------------
(***************************************************************************)
(* What requests that overlap may rely on, for any number of requests,     *)
(* rows and time: an API key stays as it was set and is recognized, bans   *)
(* and the revocations they ask for are neither lost nor reverted, a       *)
(* dismissed notification stays hidden, a cached answer is fresh, an       *)
(* imported list of addresses is checked as it was uploaded, the weights   *)
(* and points that an answer shows add up, and an analysis is the one that *)
(* was asked for.                                                          *)
(***************************************************************************)
EXTENDS ApiKeys, Bans, Notifications, CachedReads, AddressLists, Weighing,
        PointTotals, Analyses, FiniteSetTheorems, WellFoundedInduction, TLAPS

-----------------------------------------------------------------------------
(***************************************************************************)
(* ApiKeys: a request with an API key.                                     *)
(***************************************************************************)
KeysSpec == KeysInit /\ [][KeysNext]_keyVars

(* Gone is no row, and edits give settings that there are.                 *)
KeyConstants == Gone \notin KeyRow /\ Edits \subseteq Settings /\ RateLimit \in Nat

Steps == {"idle", "look", "migrate", "limit", "serve", "track", "answered"}
Codes == {0, 200, 401, 429, 500}
Call == [step : Steps, language : Languages, given : Given,
         row : KeyRow \cup {Gone}, status : Codes, known : BOOLEAN]

KeyTypes ==
  /\ keyRow \in KeyRow \cup {Gone}
  /\ editing \in KeyRow \cup {Gone}
  /\ window \in 0..RateLimit
  /\ calls \in [Requests -> Call]
  /\ log \in [Requests -> Seq(Codes)]
  /\ migrating \subseteq Given
  /\ owned \in Settings
  /\ steady \subseteq Requests
  /\ lost \subseteq Requests

(* What is or will be written as the fast hash is that of the key, a row   *)
(* that is edited cannot go, and a key stays in force for the steady ones. *)
RowInv ==
  /\ SettingsAreKept
  /\ editing # Gone => keyRow # Gone /\ editing.sha \in {"none", "right"}
  /\ migrating \subseteq {"right"}
  /\ steady # {} => InForce

(* Past the check a request has the right key, it is recorded only by the  *)
(* last step, or in Rust by the last but one, and what the answer says of  *)
(* the key is so.                                                          *)
CallInv(r) ==
  LET c == calls[r] IN
  /\ c.step \in {"migrate", "limit", "serve", "track"} => c.given = "right"
  /\ c.step \in {"look", "migrate", "limit", "serve", "track"} => c.status # 401
  /\ c.step \in {"migrate", "limit"} => c.language # "rust"
  /\ c.step = "look" => ~c.known
  /\ c.step = "answered" \/ (c.step = "serve" /\ c.language = "rust") \/ log[r] = <<>>
  /\ c.step = "serve" /\ c.language = "rust" /\ r \notin lost => log[r] = <<200>>
  /\ c.step = "answered" =>
       /\ c.given = "right" /\ r \in steady => c.status # 401
       /\ c.given # "right" => c.status = 401
       /\ c.known /\ r \notin lost =>
            log[r] = <<IF c.language = "rust" THEN 200 ELSE c.status>>

KeyInv == KeyTypes /\ RowInv /\ \A r \in Requests : CallInv(r)

(* A request that does not move keeps its part, when the record and the    *)
(* histories of it stay.                                                   *)
LEMMA CallStays ==
  ASSUME NEW r \in Requests, CallInv(r), calls'[r] = calls[r], log'[r] = log[r],
         r \in steady' => r \in steady, r \in lost => r \in lost'
  PROVE  CallInv(r)'
BY DEF CallInv

(* What becomes of a request, field by field.                              *)
LEMMA CallsChange ==
  ASSUME NEW c \in Call, NEW step \in Steps, NEW status \in Codes,
         NEW row \in KeyRow \cup {Gone}
  PROVE  /\ [c EXCEPT !.step = step] \in Call
         /\ [c EXCEPT !.step = step, !.status = status] \in Call
         /\ \A l \in Languages, g \in Given :
              [c EXCEPT !.step = step, !.language = l, !.given = g] \in Call
         /\ [c EXCEPT !.row = row, !.step = step] \in Call
         /\ [c EXCEPT !.row = row, !.step = step, !.status = status] \in Call
         /\ [c EXCEPT !.row = row, !.known = TRUE, !.step = step] \in Call
         /\ [c EXCEPT !.step = step, !.status = status, !.row = row,
                      !.known = FALSE] \in Call
BY DEF Call

(* The types.                                                              *)
LEMMA KeyTypesStep ==
  ASSUME KeyConstants, KeyTypes, [KeysNext]_keyVars
  PROVE  KeyTypes'
<1> USE DEF KeyTypes, KeyConstants
<1>9. {0, 200, 401, 429, 500} \subseteq Codes
  BY DEF Codes
<1>0. \A row \in KeyRow : row.settings \in Settings /\ row.sha \in {"none"} \cup Given
  BY DEF KeyRow
<1>1. CASE ReadForEdit
  BY <1>1 DEF ReadForEdit
<1>2. ASSUME NEW s \in Edits, editing # Gone, keyRow' = [editing EXCEPT !.settings = s],
             editing' = Gone, owned' = s,
             steady' = IF s.standing = "usable" THEN steady ELSE {},
             UNCHANGED <<window, calls, log, migrating, lost>>
      PROVE  KeyTypes'
  <2>1. keyRow' \in KeyRow
    BY <1>2 DEF KeyRow
  <2> QED BY <1>2, <2>1
<1>3. CASE Expire
  <2>1. \A s \in Settings : Ended(s) \in Settings
    BY DEF Ended, Settings, Standings
  <2>2. \A row \in KeyRow : [row EXCEPT !.settings = Ended(@)] \in KeyRow
    BY <2>1 DEF KeyRow
  <2> QED BY <1>3, <2>1, <2>2 DEF Expire, InForce
<1>4. CASE DeleteKey
  <2>1. log' = [r \in Requests |-> <<>>]
    BY <1>4 DEF DeleteKey
  <2>2. log' \in [Requests -> Seq(Codes)]
    BY <2>1
  <2> QED BY <1>4, <2>2 DEF DeleteKey
<1>5. CASE NextWindow
  BY <1>5 DEF NextWindow
<1>6. ASSUME NEW h \in migrating, migrating' = migrating \ {h},
             \/ UNCHANGED keyRow
             \/ keyRow # Gone /\ keyRow' = [keyRow EXCEPT !.sha = h],
             UNCHANGED <<editing, window, calls, log, owned, steady, lost>>
      PROVE  KeyTypes'
  <2>1. keyRow' \in KeyRow \cup {Gone}
    BY <1>6 DEF KeyRow
  <2> QED BY <1>6, <2>1
<1>7. ASSUME NEW r \in Requests,
             \/ Receive(r) \/ RefuseKey(r) \/ RefuseKeyInRust(r)
             \/ AcceptKey(r) \/ AcceptKeyInRust(r) \/ Migrate(r) \/ CheckRateLimit(r)
             \/ Serve(r) \/ TrackUsage(r) \/ TrackUsageInRust(r)
             \/ Finish(r)
      PROVE  KeyTypes'
  <2>1. \A c \in Call : calls' = [calls EXCEPT ![r] = c] => calls' \in [Requests -> Call]
    OBVIOUS
  <2>2. \A s \in Seq(Codes) :
          log' = [log EXCEPT ![r] = s] => log' \in [Requests -> Seq(Codes)]
    OBVIOUS
  <2>3. calls[r] \in Call /\ log[r] \in Seq(Codes) /\ <<>> \in Seq(Codes)
    OBVIOUS
  <2>4. \A s \in Codes : <<s>> \in Seq(Codes) /\ Append(log[r], s) \in Seq(Codes)
    BY <2>3
  <2>5. \A step \in Steps, status \in Codes, row \in KeyRow \cup {Gone} :
          /\ [calls[r] EXCEPT !.step = step] \in Call
          /\ [calls[r] EXCEPT !.step = step, !.status = status] \in Call
          /\ [calls[r] EXCEPT !.row = row, !.step = step] \in Call
          /\ [calls[r] EXCEPT !.row = row, !.step = step, !.status = status] \in Call
          /\ [calls[r] EXCEPT !.row = row, !.known = TRUE, !.step = step] \in Call
          /\ [calls[r] EXCEPT !.step = step, !.status = status, !.row = row,
                              !.known = FALSE] \in Call
    BY <2>3, CallsChange
  <2>0. /\ {"answered", "migrate", "limit", "serve", "track"} \subseteq Steps
        /\ 200 \in Codes /\ 401 \in Codes /\ 429 \in Codes /\ 500 \in Codes
        /\ "answered" \in Steps /\ "limit" \in Steps /\ "serve" \in Steps
        /\ "track" \in Steps /\ Gone \in KeyRow \cup {Gone}
        /\ calls[r].status \in Codes /\ calls[r].given \in Given
    BY <1>9, <2>3 DEF Call, Steps
  <2>17. \A s \in Codes :
           /\ [calls[r] EXCEPT !.step = "answered", !.status = s] \in Call
           /\ [calls[r] EXCEPT !.step = "track", !.status = s] \in Call
           /\ [calls[r] EXCEPT !.row = Gone, !.step = "track", !.status = s] \in Call
           /\ [calls[r] EXCEPT !.step = "answered", !.status = s, !.row = Gone,
                               !.known = FALSE] \in Call
    BY <2>0, <2>5
  <2>18. /\ [calls[r] EXCEPT !.step = "limit"] \in Call
         /\ [calls[r] EXCEPT !.step = "serve"] \in Call
         /\ [calls[r] EXCEPT !.row = Gone, !.step = "serve"] \in Call
    <3>1. ASSUME NEW step \in Steps
          PROVE  /\ [calls[r] EXCEPT !.step = step] \in Call
                 /\ [calls[r] EXCEPT !.row = Gone, !.step = step] \in Call
      <4> DEFINE status == calls[r].status
      <4>1. status \in Codes
        BY <2>0
      <4> HIDE DEF status
      <4> QED BY <2>0, <2>3, <4>1, CallsChange, ZenonT(60)
    <3> QED BY <2>0, <3>1
  <2>6. CASE Receive(r)
    <3>1. PICK l \in Languages, g \in Given :
            calls' = [calls EXCEPT ![r] =
                       [Resting EXCEPT !.step = "look", !.language = l, !.given = g]]
      BY <2>6 DEF Receive
    <3>2. Resting \in Call /\ "look" \in Steps /\ KeyRow \cup {Gone} # {} /\ Codes # {}
      BY <1>9 DEF Call, Resting, Steps, Languages, Given
    <3>3. [Resting EXCEPT !.step = "look", !.language = l, !.given = g] \in Call
      BY <3>2, CallsChange
    <3> QED BY <2>1, <2>2, <2>3, <2>6, <3>1, <3>3 DEF Receive
  <2>7. CASE RefuseKey(r)
    <3>1. [calls[r] EXCEPT !.step = "answered", !.status = 401] \in Call
      BY <2>0, <2>17, ZenonT(30)
    <3> QED BY <2>1, <2>7, <3>1 DEF RefuseKey, Refuse, Answer, Move
  <2>8. CASE RefuseKeyInRust(r)
    <3>1. [calls[r] EXCEPT !.step = "answered", !.status = 401] \in Call
      BY <2>0, <2>17, ZenonT(30)
    <3>2. log' = log \/ log' = [log EXCEPT ![r] = <<401>>]
      BY <2>8 DEF RefuseKeyInRust
    <3>3. log' \in [Requests -> Seq(Codes)]
      BY <2>0, <2>2, <2>4, <3>2, ZenonT(60)
    <3>4. migrating' = migrating \/ migrating' = migrating \cup {calls[r].given}
      BY <2>8 DEF RefuseKeyInRust, SpawnMigration
    <3> QED BY <2>0, <2>1, <2>8, <3>1, <3>3, <3>4 DEF RefuseKeyInRust, Refuse, Answer, Move
  <2>9. CASE AcceptKey(r)
    BY <2>0, <2>1, <2>5, <2>9, ZenonT(60) DEF AcceptKey, Accept, Move
  <2>10. CASE AcceptKeyInRust(r)
    BY <2>0, <2>1, <2>5, <2>10 DEF AcceptKeyInRust, SpawnMigration, Accept, Move
  <2>11. CASE Migrate(r)
    <3>1. keyRow # Gone => [keyRow EXCEPT !.sha = calls[r].given] \in KeyRow
      BY <2>0 DEF KeyRow
    <3>2. [calls[r] EXCEPT !.step = "answered", !.status = 500, !.row = Gone,
                           !.known = FALSE] \in Call
      BY <2>0, <2>17, ZenonT(30)
    <3> QED BY <2>1, <2>11, <2>18, <3>1, <3>2, ZenonT(60) DEF Migrate, MigrateAs, Move
  <2>12. CASE CheckRateLimit(r)
    <3>1. window' \in 0..RateLimit
      BY <2>12 DEF CheckRateLimit
    <3>2. [calls[r] EXCEPT !.row = Gone, !.step = "track", !.status = 429] \in Call
      BY <2>0, <2>17, ZenonT(30)
    <3> QED BY <2>1, <2>12, <2>18, <3>1, <3>2 DEF CheckRateLimit, Move
  <2>13. CASE Serve(r)
    <3>1. PICK s \in {200, 500} :
            /\ calls[r].step = "serve"
            /\ IF calls[r].language = "rust" THEN Answer(r, s)
               ELSE Move(r, [calls[r] EXCEPT !.step = "track", !.status = s])
            /\ UNCHANGED <<keyRow, editing, window, log, migrating, owned, steady, lost>>
      BY <2>13, Zenon DEF Serve
    <3>2. s \in Codes
      BY <2>0
    <3>3. /\ [calls[r] EXCEPT !.step = "track", !.status = s] \in Call
          /\ [calls[r] EXCEPT !.step = "answered", !.status = s] \in Call
      BY <2>17, <3>2
    <3> QED BY <2>1, <2>13, <3>1, <3>3 DEF Serve, Move, Answer
  <2>14. CASE TrackUsage(r)
    <3>1. PICK s \in Codes : s = calls[r].status
      BY <2>0
    <3>2. log' = log \/ log' = [log EXCEPT ![r] = Append(log[r], s)]
      BY <2>14, <3>1 DEF TrackUsage, Record, RecordFails
    <3>3. log' \in [Requests -> Seq(Codes)]
      BY <2>2, <2>4, <3>2
    <3>4. [calls[r] EXCEPT !.step = "answered", !.status = s] \in Call
      BY <2>17
    <3>5. calls' = [calls EXCEPT ![r] = [calls[r] EXCEPT !.step = "answered", !.status = s]]
      BY <2>14, <3>1 DEF TrackUsage, Answer, Move
    <3>6. calls' \in [Requests -> Call]
      BY <2>1, <3>4, <3>5
    <3> QED BY <2>14, <3>3, <3>6 DEF TrackUsage, Record, RecordFails
  <2>15. CASE TrackUsageInRust(r)
    <3>1. [calls[r] EXCEPT !.step = "answered", !.status = 500] \in Call
      BY <2>0, <2>17, ZenonT(30)
    <3>2. log' = log \/ log' = [log EXCEPT ![r] = Append(log[r], 200)]
      BY <2>15 DEF TrackUsageInRust, Record, RecordFails
    <3>3. log' \in [Requests -> Seq(Codes)]
      BY <2>0, <2>2, <2>4, <3>2
    <3> QED BY <2>1, <2>15, <2>18, <3>1, <3>3, ZenonT(60) DEF TrackUsageInRust, Record, RecordFails, Answer, Move
  <2>16. CASE Finish(r)
    <3>1. Resting \in Call
      BY <1>9 DEF Call, Resting, Steps, Languages, Given
    <3> QED BY <2>1, <2>2, <2>3, <2>16, <3>1 DEF Finish, Move
  <2> QED BY <1>7, <2>6, <2>7, <2>8, <2>9, <2>10, <2>11, <2>12, <2>13, <2>14,
             <2>15, <2>16
<1>8. CASE UNCHANGED keyVars
  BY <1>8 DEF keyVars
<1> QED BY <1>1, <1>2, <1>3, <1>4, <1>5, <1>6, <1>7, <1>8
        DEF KeysNext, SaveEdit, MigrateLater

(* The key and its hashes.                                                 *)
LEMMA RowInvStep ==
  ASSUME KeyConstants, KeyInv, [KeysNext]_keyVars
  PROVE  RowInv'
<1> USE DEF KeyInv, RowInv
<1>0. \A row \in KeyRow :
        /\ row.settings \in Settings
        /\ \A s \in Settings : [row EXCEPT !.settings = s].settings = s
        /\ \A s \in Settings : [row EXCEPT !.settings = s].sha = row.sha
        /\ \A h : [row EXCEPT !.sha = h].settings = row.settings
        /\ \A h : [row EXCEPT !.sha = h].sha = h
        /\ row # Gone
  BY DEF KeyRow, KeyConstants
<1>1. CASE ReadForEdit
  BY <1>1 DEF ReadForEdit, SettingsAreKept, InForce
<1>2. CASE SaveEdit
  <2>1. PICK s \in Edits :
          /\ editing # Gone /\ keyRow' = [editing EXCEPT !.settings = s]
          /\ editing' = Gone /\ owned' = s /\ UNCHANGED migrating
          /\ steady' = IF s.standing = "usable" THEN steady ELSE {}
    BY <1>2 DEF SaveEdit
  <2>2. s \in Settings /\ editing \in KeyRow
    BY <2>1 DEF KeyTypes, KeyConstants
  <2>3. keyRow' # Gone /\ keyRow'.settings = s /\ keyRow'.sha = editing.sha
    <3>1. [editing EXCEPT !.settings = s] \in KeyRow
      BY <2>2 DEF KeyRow
    <3> QED BY <1>0, <2>1, <2>2, <3>1
  <2> QED BY <2>1, <2>3 DEF SettingsAreKept, InForce
<1>3. CASE Expire
  <2>1. \A t \in Settings : Ended(t) \in Settings
    BY DEF Ended, Settings, Standings
  <2>2. \A row \in KeyRow :
          /\ [row EXCEPT !.settings = Ended(@)] \in KeyRow
          /\ [row EXCEPT !.settings = Ended(@)].settings = Ended(row.settings)
          /\ [row EXCEPT !.settings = Ended(@)].sha = row.sha
    BY <2>1 DEF KeyRow
  <2>3. keyRow \in KeyRow /\ keyRow' = [keyRow EXCEPT !.settings = Ended(@)]
    BY <1>3 DEF Expire, InForce, KeyTypes
  <2>4. SettingsAreKept'
    BY <1>3, <2>2, <2>3 DEF Expire, SettingsAreKept, KeyConstants
  <2>5. editing' # Gone => keyRow' # Gone /\ editing'.sha \in {"none", "right"}
    BY <1>0, <1>3, <2>2, <2>3 DEF Expire, KeyTypes
  <2> QED BY <1>3, <2>4, <2>5 DEF Expire
<1>4. CASE DeleteKey
  BY <1>4 DEF DeleteKey, SettingsAreKept
<1>5. CASE NextWindow
  BY <1>5 DEF NextWindow, SettingsAreKept, InForce
<1>6. CASE MigrateLater
  <2>1. PICK h \in migrating :
          /\ migrating' = migrating \ {h}
          /\ \/ UNCHANGED keyRow
             \/ keyRow # Gone /\ keyRow' = [keyRow EXCEPT !.sha = h]
          /\ UNCHANGED <<editing, owned, steady>>
    BY <1>6 DEF MigrateLater
  <2>2. CASE keyRow # Gone /\ keyRow' = [keyRow EXCEPT !.sha = h]
    <3>1. h = "right" /\ keyRow \in KeyRow
      BY <2>1, <2>2 DEF KeyTypes
    <3>2. keyRow'.settings = keyRow.settings /\ keyRow'.sha = "right"
      BY <1>0, <2>2, <3>1
    <3>3. keyRow' # Gone
      <4>1. [keyRow EXCEPT !.sha = h] \in KeyRow
        BY <3>1 DEF KeyRow, Given
      <4> QED BY <1>0, <2>2, <4>1
    <3> QED BY <2>1, <2>2, <3>2, <3>3 DEF SettingsAreKept, InForce
  <2> QED BY <2>1, <2>2 DEF SettingsAreKept, InForce
<1>7. ASSUME NEW r \in Requests, Receive(r)
      PROVE  RowInv'
  BY <1>7 DEF Receive, SettingsAreKept, InForce
<1>8. ASSUME NEW r \in Requests,
             \/ RefuseKey(r) \/ AcceptKey(r)
             \/ CheckRateLimit(r) \/ Serve(r) \/ TrackUsage(r) \/ TrackUsageInRust(r)
             \/ Finish(r)
      PROVE  RowInv'
  <2>1. /\ UNCHANGED <<keyRow, editing, migrating, owned>>
        /\ steady' \subseteq steady
    BY <1>8 DEF RefuseKey, Refuse, AcceptKey, Accept, CheckRateLimit,
                Serve, TrackUsage, TrackUsageInRust, Finish
  <2> QED BY <2>1 DEF SettingsAreKept, InForce
<1>9. ASSUME NEW r \in Requests, AcceptKeyInRust(r) \/ RefuseKeyInRust(r)
      PROVE  RowInv'
  <2>1. /\ UNCHANGED <<keyRow, editing, owned, steady>>
        /\ migrating' \subseteq migrating \cup {"right"}
    BY <1>9 DEF AcceptKeyInRust, RefuseKeyInRust, SpawnMigration, Accept, Refuse, Verified
  <2> QED BY <2>1 DEF SettingsAreKept, InForce
<1>10. ASSUME NEW r \in Requests, Migrate(r)
       PROVE  RowInv'
  <2>1. calls[r].given = "right"
    BY <1>10 DEF Migrate, MigrateAs, CallInv
  <2>2. CASE keyRow # Gone
    <3>1. keyRow \in KeyRow /\ keyRow' = [keyRow EXCEPT !.sha = "right"]
      BY <1>10, <2>1, <2>2 DEF Migrate, MigrateAs, KeyTypes
    <3>2. keyRow'.settings = keyRow.settings /\ keyRow'.sha = "right" /\ keyRow' # Gone
      <4>1. [keyRow EXCEPT !.sha = "right"] \in KeyRow
        BY <3>1 DEF KeyRow, Given
      <4> QED BY <1>0, <3>1, <4>1
    <3> QED BY <1>10, <2>2, <3>2 DEF Migrate, MigrateAs, SettingsAreKept, InForce
  <2>3. CASE keyRow = Gone
    BY <1>10, <2>3 DEF Migrate, MigrateAs, SettingsAreKept, InForce
  <2> QED BY <2>2, <2>3
<1>11. CASE UNCHANGED keyVars
  BY <1>11 DEF keyVars, SettingsAreKept, InForce
<1> QED BY <1>1, <1>2, <1>3, <1>4, <1>5, <1>6, <1>7, <1>8, <1>9, <1>10, <1>11
        DEF KeysNext

(* The fields of a request that has moved.                                 *)
LEMMA CallFields ==
  ASSUME NEW c \in Call, NEW step, NEW status, NEW row
  PROVE  /\ LET d == [c EXCEPT !.step = step] IN
              /\ d.step = step /\ d.status = c.status
              /\ d.given = c.given /\ d.known = c.known /\ d.language = c.language
         /\ LET d == [c EXCEPT !.step = step, !.status = status] IN
              /\ d.step = step /\ d.status = status
              /\ d.given = c.given /\ d.known = c.known /\ d.language = c.language
         /\ LET d == [c EXCEPT !.row = row, !.step = step] IN
              /\ d.step = step /\ d.status = c.status
              /\ d.given = c.given /\ d.known = c.known /\ d.language = c.language
         /\ LET d == [c EXCEPT !.row = row, !.step = step, !.status = status] IN
              /\ d.step = step /\ d.status = status
              /\ d.given = c.given /\ d.known = c.known /\ d.language = c.language
         /\ LET d == [c EXCEPT !.row = row, !.known = TRUE, !.step = step] IN
              /\ d.step = step /\ d.status = c.status
              /\ d.given = c.given /\ d.known = TRUE /\ d.language = c.language
         /\ LET d == [c EXCEPT !.step = step, !.status = status, !.row = row,
                              !.known = FALSE] IN
              /\ d.step = step /\ d.status = status
              /\ d.given = c.given /\ d.known = FALSE /\ d.language = c.language
BY DEF Call

(* The requests.                                                           *)
LEMMA CallInvStep ==
  ASSUME KeyConstants, KeyInv, [KeysNext]_keyVars, NEW q \in Requests
  PROVE  CallInv(q)'
<1> USE DEF KeyInv
<1>0. CallInv(q) /\ calls \in [Requests -> Call] /\ log \in [Requests -> Seq(Codes)]
  BY DEF KeyTypes
<1>1. CASE ReadForEdit \/ NextWindow \/ MigrateLater \/ UNCHANGED keyVars
  BY <1>0, <1>1, CallStays DEF ReadForEdit, NextWindow, MigrateLater, keyVars
<1>2. CASE SaveEdit \/ Expire
  BY <1>0, <1>2, CallStays DEF SaveEdit, Expire
<1>3. CASE DeleteKey
  <2>1. /\ log'[q] = <<>> /\ calls' = calls /\ q \notin steady'
        /\ (calls[q].step # "idle" => q \in lost')
    BY <1>3 DEF DeleteKey
  <2> QED BY <1>0, <2>1 DEF CallInv
<1>4. ASSUME NEW r \in Requests, r # q,
             \/ Receive(r) \/ RefuseKey(r) \/ RefuseKeyInRust(r)
             \/ AcceptKey(r) \/ AcceptKeyInRust(r) \/ Migrate(r) \/ CheckRateLimit(r)
             \/ Serve(r) \/ TrackUsage(r) \/ TrackUsageInRust(r) \/ Finish(r)
      PROVE  CallInv(q)'
  <2>1. calls'[q] = calls[q]
    <3>1. \A c : Move(r, c) => calls'[q] = calls[q]
      BY <1>0, <1>4 DEF Move
    <3>2. CASE Receive(r)
      BY <1>0, <1>4, <3>2 DEF Receive
    <3>3. CASE RefuseKey(r) \/ RefuseKeyInRust(r)
      BY <3>1, <3>3 DEF RefuseKey, RefuseKeyInRust, Refuse, Answer
    <3>4. CASE AcceptKey(r) \/ AcceptKeyInRust(r)
      BY <3>1, <3>4 DEF AcceptKey, AcceptKeyInRust, Accept
    <3>5. CASE Migrate(r)
      BY <3>1, <3>5 DEF Migrate, MigrateAs
    <3>6. CASE CheckRateLimit(r)
      BY <3>1, <3>6 DEF CheckRateLimit
    <3>7. CASE Serve(r)
      BY <3>1, <3>7 DEF Serve, Answer
    <3>8. CASE TrackUsage(r) \/ TrackUsageInRust(r)
      BY <3>1, <3>8 DEF TrackUsage, TrackUsageInRust, Answer
    <3>9. CASE Finish(r)
      BY <3>1, <3>9 DEF Finish
    <3> QED BY <1>4, <3>2, <3>3, <3>4, <3>5, <3>6, <3>7, <3>8, <3>9
  <2>2. log'[q] = log[q] /\ (q \in steady' => q \in steady) /\ (q \in lost => q \in lost')
    BY <1>0, <1>4, ZenonT(60) DEF Receive, RefuseKey, RefuseKeyInRust, Refuse, AcceptKey,
         AcceptKeyInRust, Accept, Migrate, MigrateAs, CheckRateLimit, Serve,
         TrackUsage, TrackUsageInRust, Finish, Record, RecordFails
  <2> QED BY <1>0, <2>1, <2>2, CallStays
<1>5. CASE Receive(q)
  <2>1. PICK l \in Languages, g \in Given :
          calls' = [calls EXCEPT ![q] =
                     [Resting EXCEPT !.step = "look", !.language = l, !.given = g]]
    BY <1>5 DEF Receive
  <2>2. calls'[q].step = "look" /\ ~calls'[q].known /\ calls'[q].status = 0
    BY <1>0, <2>1 DEF Resting
  <2>3. log'[q] = <<>>
    BY <1>0, <1>5 DEF Receive
  <2> QED BY <2>2, <2>3 DEF CallInv
<1>6. CASE RefuseKey(q) \/ RefuseKeyInRust(q)
  <2>1. /\ calls[q].step = "look" /\ ~(Found(q) /\ Verified(q))
        /\ calls' = [calls EXCEPT ![q] =
             [calls[q] EXCEPT !.step = "answered", !.status = 401]]
        /\ steady' = steady
    BY <1>6 DEF RefuseKey, RefuseKeyInRust, Refuse, Answer, Move
  <2>2. ~(calls[q].given = "right" /\ q \in steady)
    <3>1. ASSUME calls[q].given = "right", q \in steady PROVE FALSE
      <4>1. InForce /\ keyRow # Gone /\ keyRow.sha \in {"none", "right"}
        BY <3>1 DEF RowInv, InForce, SettingsAreKept
      <4>2. Verified(q)
        BY <3>1, <4>1 DEF Verified
      <4>3. Found(q)
        <5>1. calls[q].language \in Languages
          BY <1>0 DEF Call
        <5> QED BY <3>1, <4>1, <5>1 DEF Found, InForce, Languages
      <4> QED BY <2>1, <4>2, <4>3
    <3> QED BY <3>1
  <2>3. /\ calls'[q].step = "answered" /\ calls'[q].status = 401
        /\ calls'[q].given = calls[q].given /\ calls'[q].known = calls[q].known
    BY <1>0, <2>1, CallFields
  <2> QED BY <1>0, <2>1, <2>2, <2>3 DEF CallInv
<1>7. CASE AcceptKey(q) \/ AcceptKeyInRust(q)
  <2>1. PICK step \in Steps, row \in KeyRow \cup {Gone} :
          /\ calls[q].step = "look" /\ Found(q) /\ Verified(q)
          /\ UNCHANGED log
          /\ IF calls[q].language = "rust" THEN step = "track"
             ELSE step \in {"migrate", "limit"}
          /\ calls' = [calls EXCEPT ![q] =
                         [calls[q] EXCEPT !.row = row, !.known = TRUE, !.step = step]]
    <3>1. CASE AcceptKey(q)
      <4>1. PICK step : step = IF keyRow.sha = "none" THEN "migrate" ELSE "limit"
        OBVIOUS
      <4>2. keyRow \in KeyRow \cup {Gone}
        BY DEF KeyTypes
      <4> QED BY <3>1, <4>1, <4>2 DEF AcceptKey, Accept, Move, Steps
    <3>2. CASE AcceptKeyInRust(q)
      BY <3>2 DEF AcceptKeyInRust, Accept, Move, Steps
    <3> QED BY <1>7, <3>1, <3>2
  <2>2. /\ calls'[q].step = step /\ calls'[q].status = calls[q].status
        /\ calls'[q].given = calls[q].given /\ calls'[q].known = TRUE
        /\ calls'[q].language = calls[q].language
    BY <1>0, <2>1, CallFields
  <2>3. calls[q].given = "right"
    BY <2>1 DEF Found, Verified, RowInv, SettingsAreKept
  <2> QED BY <1>0, <2>1, <2>2, <2>3 DEF CallInv
<1>8. CASE Migrate(q)
  <2>1. CASE keyRow = Gone
    <3>1. calls' = [calls EXCEPT ![q] = [calls[q] EXCEPT !.step = "answered",
                      !.status = 500, !.row = Gone, !.known = FALSE]]
      BY <1>8, <2>1 DEF Migrate, MigrateAs, Move
    <3>2. /\ calls'[q].step = "answered" /\ calls'[q].status = 500
          /\ calls'[q].given = calls[q].given /\ calls'[q].known = FALSE
      BY <1>0, <3>1, CallFields
    <3>3. calls[q].step = "migrate" /\ calls[q].given = "right"
      BY <1>0, <1>8 DEF Migrate, MigrateAs, CallInv
    <3> QED BY <3>2, <3>3 DEF CallInv
  <2>2. CASE keyRow # Gone
    <3>1. calls' = [calls EXCEPT ![q] = [calls[q] EXCEPT !.step = "limit"]]
      BY <1>8, <2>2 DEF Migrate, MigrateAs, Move
    <3>2. /\ calls'[q].step = "limit" /\ calls'[q].status = calls[q].status
          /\ calls'[q].given = calls[q].given /\ calls'[q].known = calls[q].known
          /\ calls'[q].language = calls[q].language
      BY <1>0, <3>1, CallFields
    <3> QED BY <1>0, <1>8, <3>2 DEF Migrate, MigrateAs, CallInv
  <2> QED BY <2>1, <2>2
<1>9. CASE CheckRateLimit(q)
  <2>1. /\ calls[q].step = "limit" /\ UNCHANGED <<log, lost, steady>>
        /\ \/ calls' = [calls EXCEPT ![q] = [calls[q] EXCEPT !.row = Gone,
                          !.step = "track", !.status = 429]]
           \/ calls' = [calls EXCEPT ![q] = [calls[q] EXCEPT !.row = Gone,
                          !.step = "serve"]]
    BY <1>9 DEF CheckRateLimit, Move
  <2>2. /\ \/ calls'[q].step = "track" /\ calls'[q].status = 429
           \/ calls'[q].step = "serve" /\ calls'[q].status = calls[q].status
        /\ calls'[q].given = calls[q].given /\ calls'[q].language = calls[q].language
    <3>1. CASE calls' = [calls EXCEPT ![q] = [calls[q] EXCEPT !.row = Gone,
                          !.step = "track", !.status = 429]]
      BY <1>0, <3>1, CallFields
    <3>2. CASE calls' = [calls EXCEPT ![q] = [calls[q] EXCEPT !.row = Gone,
                          !.step = "serve"]]
      BY <1>0, <3>2, CallFields
    <3> QED BY <2>1, <3>1, <3>2
  <2> QED BY <1>0, <2>1, <2>2 DEF CallInv
<1>10. CASE Serve(q)
  <2>1. PICK status \in {200, 500} :
          /\ calls[q].step = "serve"
          /\ IF calls[q].language = "rust" THEN Answer(q, status)
             ELSE Move(q, [calls[q] EXCEPT !.step = "track", !.status = status])
          /\ UNCHANGED <<keyRow, editing, window, log, migrating, owned, steady, lost>>
    BY <1>10, Zenon DEF Serve
  <2>2. /\ IF calls[q].language = "rust" THEN calls'[q].step = "answered"
           ELSE calls'[q].step = "track"
        /\ calls'[q].status = status /\ calls'[q].given = calls[q].given
        /\ calls'[q].known = calls[q].known
        /\ calls'[q].language = calls[q].language
    <3>1. PICK s : s = status
      OBVIOUS
    <3>2. IF calls[q].language = "rust"
          THEN calls' = [calls EXCEPT ![q] = [calls[q] EXCEPT !.step = "answered",
                                                              !.status = s]]
          ELSE calls' = [calls EXCEPT ![q] = [calls[q] EXCEPT !.step = "track",
                                                              !.status = s]]
      BY <2>1, <3>1, Zenon DEF Answer, Move
    <3>3. CASE calls[q].language = "rust"
      <4>1. calls' = [calls EXCEPT ![q] = [calls[q] EXCEPT !.step = "answered",
                                                           !.status = s]]
        BY <3>2, <3>3
      <4> QED BY <1>0, <3>1, <3>3, <4>1, CallFields
    <3>4. CASE calls[q].language # "rust"
      <4>1. calls' = [calls EXCEPT ![q] = [calls[q] EXCEPT !.step = "track",
                                                           !.status = s]]
        BY <3>2, <3>4
      <4> QED BY <1>0, <3>1, <3>4, <4>1, CallFields
    <3> QED BY <3>3, <3>4
  <2> QED BY <1>0, <2>1, <2>2 DEF CallInv
<1>11. CASE TrackUsage(q)
  <2>1. /\ calls[q].step = "track" /\ calls[q].language # "rust" /\ UNCHANGED steady
        /\ calls' = [calls EXCEPT ![q] =
             [calls[q] EXCEPT !.step = "answered", !.status = calls[q].status]]
        /\ q \in lost' \/ log' = [log EXCEPT ![q] = Append(log[q], calls[q].status)]
    BY <1>11 DEF TrackUsage, Answer, Move, Record, RecordFails
  <2>2. /\ calls'[q].step = "answered" /\ calls'[q].status = calls[q].status
        /\ calls'[q].given = calls[q].given /\ calls'[q].known = calls[q].known
        /\ calls'[q].language = calls[q].language
    BY <1>0, <2>1, CallFields
  <2>3. q \in lost' \/ log'[q] = <<calls[q].status>>
    <3>1. log[q] = <<>> /\ calls[q].status \in Codes
      BY <1>0, <2>1 DEF CallInv, Call
    <3>2. Append(<<>>, calls[q].status) = <<calls[q].status>>
      OBVIOUS
    <3> QED BY <1>0, <2>1, <3>1, <3>2
  <2> QED BY <1>0, <2>1, <2>2, <2>3 DEF CallInv
<1>12. CASE TrackUsageInRust(q)
  <2>1. calls[q].step = "track" /\ calls[q].language = "rust" /\ UNCHANGED steady
    BY <1>12 DEF TrackUsageInRust
  <2>2. CASE Record(q, 200) /\ calls' = [calls EXCEPT ![q] = [calls[q] EXCEPT !.step = "serve"]]
    <3>1. /\ calls'[q].step = "serve" /\ calls'[q].status = calls[q].status
          /\ calls'[q].given = calls[q].given
          /\ calls'[q].language = calls[q].language
      BY <1>0, <2>2, CallFields
    <3>2. log'[q] = <<200>>
      <4>1. log[q] = <<>> /\ log' = [log EXCEPT ![q] = Append(@, 200)]
        BY <1>0, <2>1, <2>2 DEF CallInv, Record
      <4> QED BY <1>0, <4>1
    <3> QED BY <1>0, <2>1, <3>1, <3>2 DEF CallInv
  <2>3. CASE RecordFails(q) /\ calls' = [calls EXCEPT ![q] =
               [calls[q] EXCEPT !.step = "answered", !.status = 500]]
    <3>1. /\ calls'[q].step = "answered" /\ calls'[q].status = 500
          /\ calls'[q].given = calls[q].given
      BY <1>0, <2>3, CallFields
    <3>2. q \in lost' /\ calls[q].given = "right"
      BY <1>0, <2>1, <2>3 DEF RecordFails, CallInv
    <3> QED BY <3>1, <3>2 DEF CallInv
  <2> QED BY <1>12, <2>2, <2>3 DEF TrackUsageInRust, Move, Answer
<1>13. CASE Finish(q)
  <2>1. calls'[q].step = "idle" /\ log'[q] = <<>>
    BY <1>0, <1>13 DEF Finish, Move, Resting
  <2> QED BY <2>1 DEF CallInv
<1> QED BY <1>1, <1>2, <1>3, <1>4, <1>5, <1>6, <1>7, <1>8, <1>9, <1>10, <1>11, <1>12,
           <1>13
        DEF KeysNext

(* The invariant, from the start on.                                       *)
THEOREM KeyInvariance ==
  ASSUME KeyConstants
  PROVE  KeysSpec => []KeyInv
<1>1. KeysInit => KeyInv
  <2> SUFFICES ASSUME KeysInit PROVE KeyInv
    OBVIOUS
  <2>1. keyRow \in KeyRow /\ owned \in Settings
    BY DEF KeysInit, KeyRow, Settings, Standings
  <2>2. Resting \in Call
    BY DEF Call, Resting, Steps, Languages, Given, Codes
  <2>3. KeyTypes
    BY <2>1, <2>2 DEF KeysInit, KeyTypes, KeyConstants
  <2>4. RowInv
    BY DEF KeysInit, RowInv, SettingsAreKept
  <2>5. \A r \in Requests : CallInv(r)
    BY DEF KeysInit, CallInv, Resting
  <2> QED BY <2>3, <2>4, <2>5 DEF KeyInv
<1>2. KeyInv /\ [KeysNext]_keyVars => KeyInv'
  BY KeyTypesStep, RowInvStep, CallInvStep DEF KeyInv
<1> QED BY <1>1, <1>2, PTL DEF KeysSpec

(* An edit and the writing of the fast hash never undo one another.        *)
THEOREM SettingsTheorem ==
  ASSUME KeyConstants
  PROVE  KeysSpec => []SettingsAreKept
<1>1. KeyInv => SettingsAreKept
  BY DEF KeyInv, RowInv
<1> QED BY <1>1, KeyInvariance, PTL

(* A key that stays in force is recognized, and no other is.               *)
THEOREM RecognizedTheorem ==
  ASSUME KeyConstants
  PROVE  KeysSpec => []KeysAreRecognized
<1>1. KeyInv => KeysAreRecognized
  BY DEF KeyInv, CallInv, KeysAreRecognized
<1> QED BY <1>1, KeyInvariance, PTL

(* An answered request is recorded once, with its status.                  *)
THEOREM RecordedTheorem ==
  ASSUME KeyConstants
  PROVE  KeysSpec => []RequestsAreRecorded
<1>1. KeyInv => RequestsAreRecorded
  BY DEF KeyInv, CallInv, RequestsAreRecorded
<1> QED BY <1>1, KeyInvariance, PTL

-----------------------------------------------------------------------------
(***************************************************************************)
(* Bans: the admins, the action that revokes, and the checks.              *)
(***************************************************************************)
BanSpec == BanInit /\ [][BanNext]_banVars

AnyBan == Offered \cup {OldBan}

(* Nothing is neither a row nor the hash of a ban, and bans of a hash are  *)
(* no longer valid.                                                        *)
BanConstants ==
  /\ LastBan \in Nat \ {0}
  /\ Nothing \notin AnyBan
  /\ \A ban \in AnyBan : ban.hash # Nothing
  /\ ~Valid(OldBan)

Queues == Seq(Ids \X AnyBan)

BanTypes ==
  /\ bans \in [Ids -> AnyBan \cup {Nothing}]
  /\ meant \in [Ids -> AnyBan \cup {Nothing}]
  /\ marked \in [Ids -> AnyBan \cup {Nothing}]
  /\ revoked \subseteq Stamps
  /\ overtaken \subseteq Ids
  /\ acting \in [Runs -> [step : {"idle", "find", "revoke", "save"},
                          queue : Queues, found : SUBSET Stamps]]
  /\ \A r \in Runs : acting[r].step # "idle" => acting[r].queue # <<>>

(* What a run has loaded of a ban is what the admins left, or it changed   *)
(* after that.                                                             *)
QueueInv ==
  \A r \in Runs : \A n \in DOMAIN acting[r].queue :
    LET i == acting[r].queue[n][1] IN
    acting[r].queue[n][2] = meant[i] \/ i \in overtaken

MatchesOf(ban) == {s \in Stamps : Matches(ban, s)}

(* What a run has left to revoke of its ban is what it found and did not   *)
(* revoke yet.                                                             *)
RevokeInv ==
  \A r \in Runs :
    /\ acting[r].step = "revoke" =>
         MatchesOf(Head(acting[r].queue)[2]) \subseteq revoked \cup acting[r].found
    /\ acting[r].step = "save" => MatchesOf(Head(acting[r].queue)[2]) \subseteq revoked

BanInv == BanTypes /\ BansAreKept /\ QueueInv /\ RevokeInv /\ MarkedBansRevoked

(* Numbers can be put in a row, the least first: each has as many that are *)
(* not above it as its place says.                                         *)
LEMMA InARow ==
  ASSUME NEW S \in SUBSET Nat, IsFiniteSet(S)
  PROVE  \E q \in [1..Cardinality(S) -> S] :
           \A m, n \in DOMAIN q : m < n => q[m] < q[n]
<1> DEFINE Upto(i) == {j \in S : j <= i}
           rank == [i \in S |-> Cardinality(Upto(i))]
           N == Cardinality(S)
<1>1. N \in Nat /\ IsFiniteSet(1..N) /\ Cardinality(1..N) = N
  BY FS_CardinalityType, FS_Interval
<1>2. ASSUME NEW i \in S
      PROVE  IsFiniteSet(Upto(i)) /\ Cardinality(Upto(i)) \in 1..N
  <2>1. IsFiniteSet(Upto(i)) /\ Cardinality(Upto(i)) <= N
    BY FS_Subset
  <2>2. Upto(i) # {} /\ Cardinality(Upto(i)) \in Nat
    BY <2>1, FS_CardinalityType
  <2>3. Cardinality(Upto(i)) # 0
    BY <2>1, <2>2, FS_EmptySet
  <2> QED BY <2>1, <2>2, <2>3, <1>1
<1>3. ASSUME NEW i \in S, NEW j \in S, i < j
      PROVE  Cardinality(Upto(i)) < Cardinality(Upto(j))
  <2>1. Upto(i) \in SUBSET Upto(j) /\ j \in Upto(j) /\ j \notin Upto(i)
    <3>1. i \in Nat /\ j \in Nat /\ \A k \in S : k \in Nat
      OBVIOUS
    <3>2. \A k \in S : k <= i => k <= j
      BY <1>3, <3>1
    <3>3. i <= j /\ j <= j /\ ~(j <= i)
      BY <1>3, <3>1
    <3> QED BY <3>2, <3>3
  <2>2. Cardinality(Upto(i)) <= Cardinality(Upto(j))
    BY <1>2, <2>1, FS_Subset
  <2>3. Cardinality(Upto(i)) # Cardinality(Upto(j))
    BY <1>2, <2>1, FS_Subset
  <2> QED BY <1>2, <2>2, <2>3
<1>4. rank \in Injection(S, 1..N)
  <2>1. rank \in [S -> 1..N]
    BY <1>2
  <2>2. \A i, j \in S : i # j => rank[i] # rank[j]
    <3>1. ASSUME NEW i \in S, NEW j \in S, i # j PROVE rank[i] # rank[j]
      <4>1. CASE i < j
        BY <1>2, <1>3, <4>1
      <4>2. CASE j < i
        BY <1>2, <1>3, <4>2
      <4> QED BY <3>1, <4>1, <4>2
    <3> QED BY <3>1
  <2> QED BY <2>1, <2>2 DEF Injection, IsInjective
<1>5. rank \in Surjection(S, 1..N)
  BY <1>1, <1>4, FS_Injection
<1>6. \A n \in 1..N : \E i \in S : rank[i] = n
  BY <1>5 DEF Surjection
<1> DEFINE q == [n \in 1..N |-> CHOOSE i \in S : rank[i] = n]
<1>7. \A n \in 1..N : q[n] \in S /\ rank[q[n]] = n
  BY <1>6
<1>8. \A i, j \in S : i < j => rank[i] < rank[j]
  BY <1>3
<1> HIDE DEF q, rank
<1>9. q \in [1..N -> S]
  BY <1>7 DEF q
<1>10. ASSUME NEW m \in 1..N, NEW n \in 1..N, m < n PROVE q[m] < q[n]
  <2>1. /\ q[m] \in S /\ q[m] \in Nat /\ rank[q[m]] = m
        /\ q[n] \in S /\ q[n] \in Nat /\ rank[q[n]] = n
    BY <1>7
  <2>2. ~(q[n] < q[m])
    BY <1>8, <1>10, <2>1
  <2>3. q[n] # q[m]
    BY <1>10, <2>1
  <2> QED BY <2>1, <2>2, <2>3
<1>11. DOMAIN q = 1..N
  BY <1>9
<1> QED BY <1>9, <1>10, <1>11

Doing == [step : {"idle", "find", "revoke", "save"}, queue : Queues,
          found : SUBSET Stamps]

(* The head of a queue is a ban, and what is left is a queue.              *)
LEMMA QueueParts ==
  ASSUME NEW q \in Queues, q # <<>>
  PROVE  /\ Head(q) = q[1] /\ 1 \in DOMAIN q
         /\ Head(q)[1] \in Ids /\ Head(q)[2] \in AnyBan
         /\ Tail(q) \in Queues
         /\ \A n \in DOMAIN Tail(q) : n + 1 \in DOMAIN q /\ Tail(q)[n] = q[n + 1]
         /\ \A n \in DOMAIN q : q[n][1] \in Ids /\ q[n][2] \in AnyBan
<1>1. /\ Head(q) = q[1] /\ 1 \in DOMAIN q /\ \A n \in DOMAIN q : q[n] \in Ids \X AnyBan
      /\ Tail(q) \in Queues
      /\ \A n \in DOMAIN Tail(q) : n + 1 \in DOMAIN q /\ Tail(q)[n] = q[n + 1]
  BY DEF Queues
<1>2. \A p \in Ids \X AnyBan : p[1] \in Ids /\ p[2] \in AnyBan
  OBVIOUS
<1> QED BY <1>1, <1>2

(* What is counted from one on is a sequence.                              *)
LEMMA Numbered ==
  ASSUME NEW n \in Nat, NEW S, NEW f \in [1..n -> S]
  PROVE  f \in Seq(S)
OBVIOUS

(* The bans that are selected, in the order of their ids.                  *)
LEMMA SelectedQueue ==
  ASSUME BanConstants, BanTypes, NEW chosen \in SUBSET Live, chosen # {},
         NEW queue \in [1..Cardinality(chosen) -> chosen],
         NEW loaded, loaded = [n \in DOMAIN queue |-> <<queue[n], bans[queue[n]]>>]
  PROVE  /\ loaded \in Queues /\ loaded # <<>>
         /\ \A n \in DOMAIN loaded :
              loaded[n][1] \in Ids /\ loaded[n][2] = bans[loaded[n][1]]
<1>1. chosen \in SUBSET Ids /\ IsFiniteSet(Ids) /\ Ids \subseteq Nat
  <2>1. LastBan \in Int /\ Ids = 1..LastBan
    BY DEF BanConstants, Ids
  <2> QED BY <2>1, FS_Interval DEF Live
<1>2. /\ IsFiniteSet(chosen) /\ Cardinality(chosen) \in Nat
      /\ Cardinality(chosen) # 0 /\ chosen \in SUBSET Nat
  BY <1>1, FS_Subset, FS_CardinalityType, FS_EmptySet
<1>3. queue \in [1..Cardinality(chosen) -> chosen]
  OBVIOUS
<1>4. PICK n \in Nat : n = Cardinality(chosen)
  BY <1>2
<1>5. loaded = [k \in 1..n |-> <<queue[k], bans[queue[k]]>>] /\ n # 0
  BY <1>2, <1>3, <1>4
<1>6. \A k \in 1..n : queue[k] \in Ids /\ bans[queue[k]] \in AnyBan
  BY <1>1, <1>3, <1>4 DEF Live, BanTypes
<1>7. \A k \in 1..n : <<queue[k], bans[queue[k]]>> \in Ids \X AnyBan
  BY <1>6
<1>8. loaded \in [1..n -> Ids \X AnyBan]
  BY <1>5, <1>7
<1>9. loaded \in Queues /\ DOMAIN loaded = 1..n /\ loaded # <<>>
  <2>1. DOMAIN loaded = 1..n /\ 1 \in 1..n
    BY <1>4, <1>5, <1>8
  <2>2. loaded \in Seq(Ids \X AnyBan)
    <3> DEFINE S == Ids \X AnyBan
    <3> HIDE DEF S
    <3>1. n \in Nat /\ loaded \in [1..n -> S]
      BY <1>4, <1>8 DEF S
    <3>2. loaded \in Seq(S)
      BY <3>1, Numbered
    <3> QED BY <3>2 DEF S
  <2>3. DOMAIN <<>> = {}
    OBVIOUS
  <2> QED BY <2>1, <2>2, <2>3 DEF Queues
<1>10. ASSUME NEW k \in DOMAIN loaded
       PROVE  loaded[k][1] \in Ids /\ loaded[k][2] = bans[loaded[k][1]]
  <2>1. k \in 1..n /\ loaded[k] = <<queue[k], bans[queue[k]]>>
    BY <1>5, <1>9
  <2> QED BY <1>6, <2>1
<1> QED BY <1>9, <1>10

(* What a change of bans by the admins leaves.                             *)
LEMMA Entered ==
  ASSUME BanConstants, BanTypes, NEW changes, DOMAIN changes \subseteq Ids,
         \A i \in DOMAIN changes : changes[i] \in AnyBan \cup {Nothing}, Enter(changes)
  PROVE  /\ bans' \in [Ids -> AnyBan \cup {Nothing}]
         /\ meant' \in [Ids -> AnyBan \cup {Nothing}]
         /\ overtaken' = overtaken \cup {i \in DOMAIN changes : Loaded(i)}
         /\ \A i \in Ids : IF i \in DOMAIN changes
                           THEN bans'[i] = meant'[i] ELSE bans'[i] = bans[i] /\ meant'[i] = meant[i]
         /\ verdict' = Unasked
         /\ UNCHANGED <<revoked, marked, acting>>
BY DEF Enter, BanTypes

(* Every way in which admins change bans.                                  *)
LEMMA Changed ==
  ASSUME BanConstants, BanTypes, AddBan \/ EditBan \/ DeleteBan \/ UploadBans
  PROVE  \E changes : /\ DOMAIN changes \subseteq Ids /\ Enter(changes)
                      /\ \A i \in DOMAIN changes : changes[i] \in AnyBan \cup {Nothing}
<1>1. ASSUME NEW i \in Ids, NEW ban \in AnyBan \cup {Nothing},
             Enter([j \in {i} |-> ban])
      PROVE  \E changes : /\ DOMAIN changes \subseteq Ids /\ Enter(changes)
                          /\ \A j \in DOMAIN changes : changes[j] \in AnyBan \cup {Nothing}
  <2>1. PICK f : f = [j \in {i} |-> ban]
    OBVIOUS
  <2>2. DOMAIN f \subseteq Ids /\ \A j \in DOMAIN f : f[j] \in AnyBan \cup {Nothing}
    BY <2>1
  <2>3. Enter(f)
    BY <1>1, <2>1
  <2> QED BY <2>2, <2>3
<1>2. CASE AddBan
  BY <1>1, <1>2 DEF AddBan, Unused, AnyBan
<1>3. CASE EditBan
  BY <1>1, <1>3 DEF EditBan, Live, AnyBan
<1>4. CASE DeleteBan
  BY <1>1, <1>4 DEF DeleteBan, Live, AnyBan
<1>5. CASE UploadBans
  <2>1. PICK lines \in [Unused -> Offered] : Enter(lines)
    BY <1>5 DEF UploadBans
  <2>2. DOMAIN lines \subseteq Ids /\ \A j \in DOMAIN lines : lines[j] \in AnyBan \cup {Nothing}
    BY <2>1 DEF Unused, AnyBan
  <2> QED BY <2>1, <2>2
<1> QED BY <1>2, <1>3, <1>4, <1>5

(* Where a run of the action goes.                                         *)
LEMMA RunsGoOn ==
  ASSUME BanConstants, BanTypes, NEW r \in Runs,
         \/ SelectBans(r) \/ FindMatching(r) \/ RevokeStamp(r) \/ AllRevoked(r)
         \/ SaveBan(r) \/ ActionDies(r)
  PROVE  \E x \in Doing :
           /\ acting' = [acting EXCEPT ![r] = x]
           /\ x.step # "idle" => x.queue # <<>>
           /\ \A n \in DOMAIN x.queue :
                \/ x.queue[n][1] \in Ids /\ x.queue[n][2] = bans[x.queue[n][1]]
                \/ \E m \in DOMAIN acting[r].queue : x.queue[n] = acting[r].queue[m]
           /\ UNCHANGED <<banTime, meant, overtaken>> /\ verdict' = Unasked
<1> DEFINE From(x) == \A n \in DOMAIN x.queue :
                        \/ /\ x.queue[n][1] \in Ids
                           /\ x.queue[n][2] = bans[x.queue[n][1]]
                        \/ \E m \in DOMAIN acting[r].queue :
                             x.queue[n] = acting[r].queue[m]
<1>0. acting[r] \in Doing /\ (acting[r].step # "idle" => acting[r].queue # <<>>)
  BY DEF BanTypes, Doing
<1>1. CASE SelectBans(r)
  <2>1. PICK chosen \in (SUBSET Live) \ {{}} :
          LET queue == CHOOSE q \in [1..Cardinality(chosen) -> chosen] :
                         \A m, n \in DOMAIN q : m < n => q[m] < q[n] IN
          Act(r, "idle", [NotActing EXCEPT !.step = "find",
                           !.queue = [n \in DOMAIN queue |-> <<queue[n], bans[queue[n]]>>]])
    BY <1>1 DEF SelectBans
  <2>2. PICK queue : queue = CHOOSE q \in [1..Cardinality(chosen) -> chosen] :
                               \A m, n \in DOMAIN q : m < n => q[m] < q[n]
    OBVIOUS
  <2>3. PICK loaded : loaded = [n \in DOMAIN queue |-> <<queue[n], bans[queue[n]]>>]
    OBVIOUS
  <2>4. Act(r, "idle", [NotActing EXCEPT !.step = "find", !.queue = loaded])
    BY <2>1, <2>2, <2>3
  <2>5. /\ loaded \in Queues /\ loaded # <<>>
        /\ \A n \in DOMAIN loaded :
             loaded[n][1] \in Ids /\ loaded[n][2] = bans[loaded[n][1]]
    <3>1. chosen \in SUBSET Live /\ chosen # {}
      BY <2>1
    <3>2. chosen \in SUBSET Nat /\ IsFiniteSet(chosen)
      <4>1. LastBan \in Int /\ Ids = 1..LastBan
        BY DEF BanConstants, Ids
      <4>2. IsFiniteSet(Ids) /\ chosen \in SUBSET Ids /\ Ids \subseteq Nat
        BY <3>1, <4>1, FS_Interval DEF Live
      <4> QED BY <4>2, FS_Subset
    <3>3. queue \in [1..Cardinality(chosen) -> chosen]
      BY <2>2, <3>2, InARow
    <3> HIDE DEF From
    <3> QED BY <2>3, <3>1, <3>3, SelectedQueue
  <2>6. PICK x : x = [NotActing EXCEPT !.step = "find", !.queue = loaded]
    OBVIOUS
  <2>7. x \in Doing /\ x.queue = loaded
    BY <2>5, <2>6 DEF Doing, NotActing
  <2> QED BY <2>4, <2>5, <2>6, <2>7 DEF Act
<1>2. CASE FindMatching(r)
  <2>1. PICK x : x = [acting[r] EXCEPT !.step = "revoke",
                       !.found = MatchesOf(Head(acting[r].queue)[2]) \ revoked]
    OBVIOUS
  <2>2. x \in Doing /\ x.queue = acting[r].queue
    BY <1>0, <2>1 DEF Doing, MatchesOf
  <2>3. {s \in Stamps \ revoked : Matches(Head(acting[r].queue)[2], s)} =
          MatchesOf(Head(acting[r].queue)[2]) \ revoked
    BY DEF MatchesOf
  <2>4. Act(r, "find", x)
    BY <1>2, <2>1, <2>3 DEF FindMatching
  <2> QED BY <1>0, <2>2, <2>4 DEF Act
<1>3. ASSUME Act(r, acting[r].step, NextBan(r)), acting[r].step # "idle"
      PROVE  \E x \in Doing :
               /\ acting' = [acting EXCEPT ![r] = x]
               /\ x.step # "idle" => x.queue # <<>>
               /\ From(x)
  <2>1. PICK x : x = NextBan(r)
    OBVIOUS
  <2>2. x \in Doing /\ x.queue = Tail(acting[r].queue)
    BY <1>0, <1>3, <2>1, QueueParts DEF Doing, NextBan
  <2>3. x.step # "idle" => x.queue # <<>>
    BY <2>1 DEF NextBan
  <2>4. From(x)
    BY <1>0, <1>3, <2>2, QueueParts DEF Doing
  <2> QED BY <1>3, <2>1, <2>2, <2>3, <2>4 DEF Act
<1>4. CASE RevokeStamp(r)
  <2>1. PICK s \in acting[r].found :
          IF s \in revoked
          THEN Act(r, "revoke", NextBan(r))
          ELSE Act(r, "revoke", [acting[r] EXCEPT !.found = @ \ {s}])
    BY <1>4 DEF RevokeStamp
  <2>2. CASE s \in revoked
    BY <1>3, <2>1, <2>2 DEF Act
  <2>3. CASE s \notin revoked
    <3>1. PICK x : x = [acting[r] EXCEPT !.found = @ \ {s}]
      OBVIOUS
    <3>2. x \in Doing /\ x.queue = acting[r].queue /\ x.step = acting[r].step
      BY <1>0, <3>1 DEF Doing
    <3> QED BY <1>0, <2>1, <2>3, <3>1, <3>2 DEF Act
  <2> QED BY <2>2, <2>3
<1>5. CASE AllRevoked(r)
  <2>1. PICK x : x = [acting[r] EXCEPT !.step = "save"]
    OBVIOUS
  <2>2. x \in Doing /\ x.queue = acting[r].queue
    BY <1>0, <2>1 DEF Doing
  <2> QED BY <1>0, <1>5, <2>1, <2>2 DEF AllRevoked, Act
<1>6. CASE SaveBan(r)
  BY <1>3, <1>6 DEF SaveBan, Act
<1>7. CASE ActionDies(r)
  <2>1. PICK x : x = NotActing
    OBVIOUS
  <2>2. x \in Doing /\ x.step = "idle" /\ DOMAIN x.queue = {}
    BY <2>1 DEF Doing, NotActing, Queues
  <2> QED BY <1>7, <2>1, <2>2 DEF ActionDies, Act
<1> QED BY <1>1, <1>2, <1>4, <1>5, <1>6, <1>7

(* The checks, and what else leaves the bans and the runs alone.           *)
LEMMA OthersStay ==
  ASSUME BanTick \/ CheckBans \/ CheckBansInRust \/ RevokedElsewhere
  PROVE  UNCHANGED <<bans, marked, acting, meant, overtaken>>
BY DEF BanTick, CheckBans, CheckBansInRust, RevokedElsewhere, Judge

(* What a run of the action writes.                                        *)
LEMMA RunsWrite ==
  ASSUME BanConstants, BanTypes, NEW r \in Runs,
         \/ SelectBans(r) \/ FindMatching(r) \/ RevokeStamp(r) \/ AllRevoked(r)
         \/ SaveBan(r) \/ ActionDies(r)
  PROVE  /\ revoked' \subseteq Stamps /\ revoked \subseteq revoked'
         /\ \/ UNCHANGED <<bans, marked>>
            \/ /\ SaveBan(r) /\ revoked' = revoked
               /\ \E n \in DOMAIN acting[r].queue :
                    LET i == acting[r].queue[n][1]  ban == acting[r].queue[n][2] IN
                    /\ Valid(ban) /\ ban = Head(acting[r].queue)[2]
                    /\ bans' = [bans EXCEPT ![i] = ban]
                    /\ marked' = [marked EXCEPT ![i] = ban]
<1>0. acting[r].queue \in Queues /\ acting[r].found \subseteq Stamps
  BY DEF BanTypes
<1>1. CASE SaveBan(r)
  <2>1. /\ Head(acting[r].queue) = acting[r].queue[1] /\ 1 \in DOMAIN acting[r].queue
    BY <1>0, <1>1, QueueParts DEF BanTypes, SaveBan, Act
  <2> QED BY <1>1, <2>1 DEF SaveBan, BanTypes
<1>2. CASE ~SaveBan(r)
  BY <1>0, <1>2 DEF SelectBans, FindMatching, RevokeStamp, AllRevoked, ActionDies, BanTypes
<1> QED BY <1>1, <1>2

(* The types.                                                              *)
LEMMA BanTypesStep ==
  ASSUME BanConstants, BanTypes, [BanNext]_banVars
  PROVE  BanTypes'
<1>1. CASE AddBan \/ EditBan \/ DeleteBan \/ UploadBans
  BY <1>1, Changed, Entered DEF BanTypes
<1>2. CASE BanTick \/ CheckBans \/ CheckBansInRust \/ RevokedElsewhere
  <2>1. revoked' \subseteq Stamps
    BY <1>2 DEF BanTypes, BanTick, CheckBans, CheckBansInRust, Judge, RevokedElsewhere
  <2> QED BY <1>2, <2>1, OthersStay DEF BanTypes
<1>3. ASSUME NEW r \in Runs,
             \/ SelectBans(r) \/ FindMatching(r) \/ RevokeStamp(r) \/ AllRevoked(r)
             \/ SaveBan(r) \/ ActionDies(r)
      PROVE  BanTypes'
  <2>1. PICK x \in Doing :
           /\ acting' = [acting EXCEPT ![r] = x]
           /\ x.step # "idle" => x.queue # <<>>
           /\ UNCHANGED <<meant, overtaken>>
    BY <1>3, RunsGoOn
  <2>2. /\ acting' \in [Runs -> Doing]
        /\ \A q \in Runs : acting'[q].step # "idle" => acting'[q].queue # <<>>
    BY <2>1 DEF BanTypes, Doing
  <2>3. revoked' \subseteq Stamps
    BY <1>3, RunsWrite
  <2>4. \A n \in DOMAIN acting[r].queue :
          acting[r].queue[n][1] \in Ids /\ acting[r].queue[n][2] \in AnyBan
    <3>1. acting[r].queue \in Queues
      BY DEF BanTypes
    <3>2. CASE acting[r].queue = <<>>
      BY <3>2
    <3> QED BY <3>1, <3>2, QueueParts
  <2>5. /\ bans' \in [Ids -> AnyBan \cup {Nothing}]
        /\ marked' \in [Ids -> AnyBan \cup {Nothing}]
    BY <1>3, <2>4, RunsWrite DEF BanTypes
  <2> QED BY <2>1, <2>2, <2>3, <2>5 DEF BanTypes, Doing
<1>4. CASE UNCHANGED banVars
  BY <1>4 DEF banVars, BanTypes
<1> QED BY <1>1, <1>2, <1>3, <1>4 DEF BanNext

(* The bans are as the admins left them, but for those that are overtaken. *)
LEMMA KeptStep ==
  ASSUME BanConstants, BanTypes, BansAreKept, QueueInv, [BanNext]_banVars
  PROVE  BansAreKept' /\ QueueInv'
<1>1. CASE AddBan \/ EditBan \/ DeleteBan \/ UploadBans
  <2>1. PICK changes :
          /\ overtaken' = overtaken \cup {i \in DOMAIN changes : Loaded(i)}
          /\ \A i \in Ids : IF i \in DOMAIN changes THEN bans'[i] = meant'[i]
                            ELSE bans'[i] = bans[i] /\ meant'[i] = meant[i]
          /\ acting' = acting
    BY <1>1, Changed, Entered
  <2>2. BansAreKept'
    BY <2>1 DEF BansAreKept
  <2>3. ASSUME NEW r \in Runs, NEW n \in DOMAIN acting[r].queue
        PROVE  LET i == acting[r].queue[n][1] IN
               acting[r].queue[n][2] = meant'[i] \/ i \in overtaken'
    <3>1. PICK i : i = acting[r].queue[n][1]
      OBVIOUS
    <3>2. i \in Ids
      <4>1. acting[r].queue \in Queues /\ acting[r].queue # <<>>
        BY <2>3 DEF BanTypes
      <4> QED BY <3>1, <4>1, QueueParts
    <3>3. acting[r].queue[n][2] = meant[i] \/ i \in overtaken
      BY <3>1 DEF QueueInv
    <3>4. Loaded(i)
      BY <3>1 DEF Loaded
    <3> QED BY <2>1, <3>1, <3>2, <3>3, <3>4
  <2> QED BY <2>1, <2>2, <2>3 DEF QueueInv
<1>2. CASE BanTick \/ CheckBans \/ CheckBansInRust \/ RevokedElsewhere \/ UNCHANGED banVars
  <2>1. UNCHANGED <<bans, marked, acting, meant, overtaken>>
    BY <1>2, OthersStay DEF banVars
  <2> QED BY <2>1 DEF BansAreKept, QueueInv
<1>3. ASSUME NEW r \in Runs,
             \/ SelectBans(r) \/ FindMatching(r) \/ RevokeStamp(r) \/ AllRevoked(r)
             \/ SaveBan(r) \/ ActionDies(r)
      PROVE  BansAreKept' /\ QueueInv'
  <2>1. PICK x \in Doing :
           /\ acting' = [acting EXCEPT ![r] = x]
           /\ \A n \in DOMAIN x.queue :
                \/ x.queue[n][1] \in Ids /\ x.queue[n][2] = bans[x.queue[n][1]]
                \/ \E m \in DOMAIN acting[r].queue : x.queue[n] = acting[r].queue[m]
           /\ UNCHANGED <<meant, overtaken>>
    BY <1>3, RunsGoOn
  <2>2. \A n \in DOMAIN acting[r].queue :
          LET i == acting[r].queue[n][1] IN
          acting[r].queue[n][2] = meant[i] \/ i \in overtaken
    BY DEF QueueInv
  <2>3. ASSUME NEW n \in DOMAIN x.queue
        PROVE  x.queue[n][2] = meant[x.queue[n][1]] \/ x.queue[n][1] \in overtaken
    BY <2>1, <2>2 DEF BansAreKept
  <2>4. QueueInv'
    <3>1. acting'[r] = x /\ \A q \in Runs \ {r} : acting'[q] = acting[q]
      BY <2>1 DEF BanTypes
    <3> QED BY <2>1, <2>3, <3>1 DEF QueueInv
  <2>5. BansAreKept'
    <3>1. CASE bans' = bans
      BY <2>1, <3>1 DEF BansAreKept
    <3>2. CASE bans' # bans
      <4>1. PICK n \in DOMAIN acting[r].queue :
              bans' = [bans EXCEPT ![acting[r].queue[n][1]] = acting[r].queue[n][2]]
        BY <1>3, <3>2, RunsWrite
      <4>2. PICK i, ban : i = acting[r].queue[n][1] /\ ban = acting[r].queue[n][2]
        OBVIOUS
      <4>3. bans' = [bans EXCEPT ![i] = ban] /\ (ban = meant[i] \/ i \in overtaken)
        BY <2>2, <4>1, <4>2
      <4> QED BY <2>1, <4>3 DEF BansAreKept, BanTypes
    <3> QED BY <3>1, <3>2
  <2> QED BY <2>4, <2>5
<1> QED BY <1>1, <1>2, <1>3 DEF BanNext

(* What is marked has been revoked.                                        *)
LEMMA RevokedStep ==
  ASSUME BanConstants, BanTypes, RevokeInv, MarkedBansRevoked, [BanNext]_banVars
  PROVE  RevokeInv' /\ MarkedBansRevoked'
<1>1. CASE UNCHANGED <<marked, acting>> /\ revoked \subseteq revoked'
  BY <1>1 DEF RevokeInv, MarkedBansRevoked
<1>2. CASE AddBan \/ EditBan \/ DeleteBan \/ UploadBans
  <2>1. UNCHANGED <<marked, acting, revoked>>
    BY <1>2 DEF AddBan, EditBan, DeleteBan, UploadBans, Enter
  <2> QED BY <1>1, <2>1
<1>3. CASE BanTick \/ CheckBans \/ CheckBansInRust \/ RevokedElsewhere \/ UNCHANGED banVars
  <2>1. UNCHANGED <<marked, acting>> /\ revoked \subseteq revoked'
    BY <1>3 DEF banVars, BanTick, CheckBans, CheckBansInRust, Judge, RevokedElsewhere
  <2> QED BY <1>1, <2>1
<1>4. ASSUME NEW r \in Runs,
             \/ SelectBans(r) \/ FindMatching(r) \/ RevokeStamp(r) \/ AllRevoked(r)
             \/ SaveBan(r) \/ ActionDies(r)
      PROVE  RevokeInv' /\ MarkedBansRevoked'
  <2>1. PICK x \in Doing : acting' = [acting EXCEPT ![r] = x]
    BY <1>4, RunsGoOn
  <2>2. acting'[r] = x /\ \A q \in Runs \ {r} : acting'[q] = acting[q]
    BY <2>1 DEF BanTypes
  <2>3. revoked \subseteq revoked'
    BY <1>4, RunsWrite
  <2>4. acting[r] \in Doing
    BY DEF BanTypes, Doing
  <2>5. /\ x.step = "revoke" => MatchesOf(Head(x.queue)[2]) \subseteq revoked' \cup x.found
        /\ x.step = "save" => MatchesOf(Head(x.queue)[2]) \subseteq revoked'
    <3>1. CASE SelectBans(r)
      <4>1. \E queue :
              Act(r, "idle", [NotActing EXCEPT !.step = "find", !.queue = queue])
        BY <3>1 DEF SelectBans
      <4>2. x.step = "find"
        BY <2>2, <4>1 DEF Act, NotActing, BanTypes
      <4> QED BY <4>2
    <3>2. CASE FindMatching(r)
      <4>1. /\ x.step = "revoke" /\ x.queue = acting[r].queue
            /\ x.found = {s \in Stamps \ revoked : Matches(Head(x.queue)[2], s)}
        BY <2>2, <2>4, <3>2 DEF FindMatching, Act, BanTypes, Doing
      <4> QED BY <2>3, <4>1 DEF MatchesOf
    <3>3. CASE Act(r, acting[r].step, NextBan(r))
      <4>1. x.step \in {"idle", "find"}
        BY <2>2, <3>3 DEF Act, NextBan, BanTypes
      <4> QED BY <4>1
    <3>4. CASE RevokeStamp(r)
      <4>1. PICK s \in acting[r].found :
              IF s \in revoked
              THEN Act(r, "revoke", NextBan(r))
              ELSE /\ Act(r, "revoke", [acting[r] EXCEPT !.found = @ \ {s}])
                   /\ revoked' = revoked \cup {s}
        BY <3>4 DEF RevokeStamp
      <4>2. CASE s \in revoked
        BY <3>3, <4>1, <4>2 DEF Act
      <4>3. CASE s \notin revoked
        <5>1. /\ x.step = "revoke" /\ x.queue = acting[r].queue
              /\ x.found = acting[r].found \ {s}
          BY <2>2, <2>4, <4>1, <4>3 DEF Act, BanTypes, Doing
        <5>2. MatchesOf(Head(x.queue)[2]) \subseteq revoked \cup acting[r].found
          BY <4>1, <4>3, <5>1 DEF RevokeInv, Act
        <5> QED BY <4>1, <4>3, <5>1, <5>2
      <4> QED BY <4>2, <4>3
    <3>5. CASE AllRevoked(r)
      <4>1. x.step = "save" /\ x.queue = acting[r].queue
        BY <2>2, <2>4, <3>5 DEF AllRevoked, Act, BanTypes, Doing
      <4>2. MatchesOf(Head(x.queue)[2]) \subseteq revoked
        BY <3>5, <4>1 DEF RevokeInv, AllRevoked, Act
      <4> QED BY <2>3, <4>1, <4>2
    <3>6. CASE SaveBan(r)
      BY <3>3, <3>6 DEF SaveBan, Act
    <3>7. CASE ActionDies(r)
      <4>1. x.step = "idle"
        BY <2>2, <3>7 DEF ActionDies, Act, NotActing, BanTypes
      <4> QED BY <4>1
    <3> QED BY <1>4, <3>1, <3>2, <3>4, <3>5, <3>6, <3>7
  <2>6. RevokeInv'
    BY <2>2, <2>3, <2>5 DEF RevokeInv
  <2>7. MarkedBansRevoked'
    <3>1. CASE marked' = marked
      BY <2>3, <3>1 DEF MarkedBansRevoked
    <3>2. CASE marked' # marked
      <4>1. PICK i : /\ SaveBan(r)
                     /\ marked' = [marked EXCEPT ![i] = Head(acting[r].queue)[2]]
        BY <1>4, <3>2, RunsWrite
      <4>2. MatchesOf(Head(acting[r].queue)[2]) \subseteq revoked
        BY <4>1 DEF RevokeInv, SaveBan, Act
      <4> QED BY <2>3, <4>1, <4>2 DEF MarkedBansRevoked, MatchesOf, BanTypes
    <3> QED BY <3>1, <3>2
  <2> QED BY <2>6, <2>7
<1> QED BY <1>2, <1>3, <1>4 DEF BanNext

(* The invariant, from the start on.                                       *)
THEOREM BanInvariance ==
  ASSUME BanConstants
  PROVE  BanSpec => []BanInv
<1>1. BanInit => BanInv
  <2> SUFFICES ASSUME BanInit PROVE BanInv
    OBVIOUS
  <2>1. BanTypes
    <3>1. NotActing \in Doing /\ NotActing.step = "idle"
      BY DEF NotActing, Doing, Queues
    <3> QED BY <3>1 DEF BanInit, BanTypes, Doing, AnyBan
  <2>2. BansAreKept /\ RevokeInv /\ MarkedBansRevoked
    BY DEF BanInit, BansAreKept, RevokeInv, MarkedBansRevoked, NotActing
  <2>3. QueueInv
    BY DEF BanInit, QueueInv, NotActing
  <2> QED BY <2>1, <2>2, <2>3 DEF BanInv
<1>2. BanInv /\ [BanNext]_banVars => BanInv'
  BY BanTypesStep, KeptStep, RevokedStep DEF BanInv
<1> QED BY <1>1, <1>2, PTL DEF BanSpec

(* What the admins did to a ban stays, but where a run had loaded it.      *)
THEOREM BansTheorem ==
  ASSUME BanConstants
  PROVE  BanSpec => []BansAreKept
<1>1. BanInv => BansAreKept
  BY DEF BanInv
<1> QED BY <1>1, BanInvariance, PTL

(* A ban that shows as revoked has had every stamp of it revoked.          *)
THEOREM MarkedTheorem ==
  ASSUME BanConstants
  PROVE  BanSpec => []MarkedBansRevoked
<1>1. BanInv => MarkedBansRevoked
  BY DEF BanInv
<1> QED BY <1>1, BanInvariance, PTL

(* A check is right of every credential, and where Rust is asked for an    *)
(* address as it is not stored, of those that it finds banned.             *)
THEOREM ChecksTheorem ==
  ASSUME BanConstants
  PROVE  BanSpec => []ChecksAreRight
<1>1. BanInit => ChecksAreRight
  BY DEF BanInit, ChecksAreRight, Unasked
<1>2. BanInv /\ ChecksAreRight /\ [BanNext]_banVars => ChecksAreRight'
  <2> SUFFICES ASSUME BanInv, ChecksAreRight, [BanNext]_banVars
               PROVE  ChecksAreRight'
    OBVIOUS
  <2>1. CASE verdict' = Unasked \/ verdict' = verdict
    BY <2>1 DEF ChecksAreRight, Unasked
  <2>2. \A i \in Live : bans[i].hash # Nothing
    BY DEF BanInv, BanTypes, Live, BanConstants
  <2>3. ASSUME NEW inexact, NEW asked, NEW read,
               Judge(inexact, asked, read),
               \A i \in read : i \in Live /\ Active(bans[i]),
               inexact \/ \A i \in Live, s \in asked :
                            Active(bans[i]) /\ Meant(bans[i], s) => i \in read
        PROVE  ChecksAreRight'
    <3> DEFINE banned == {s \in asked : \E i \in read : Meant(bans[i], s)}
               owing == {s \in asked : \E i \in Live : Active(bans[i]) /\ Meant(bans[i], s)}
    <3>1. verdict' = [inexact |-> inexact, missed |-> owing \ banned,
                      extra |-> banned \ owing]
      BY <2>3 DEF Judge
    <3>2. banned \ owing = {}
      BY <2>3
    <3>3. inexact \/ owing \ banned = {}
      BY <2>3
    <3> HIDE DEF banned, owing
    <3> QED BY <3>1, <3>2, <3>3 DEF ChecksAreRight
  <2>4. CASE CheckBans
    <3>1. PICK asked \in SUBSET Stamps :
            Judge(FALSE, asked,
              {i \in Live : /\ Active(bans[i])
                            /\ \/ bans[i].hash \in HashesOf(asked)
                               \/ \E s \in asked : bans[i].address = s.address})
      BY <2>4 DEF CheckBans
    <3>2. \A i \in Live, s \in asked : Meant(bans[i], s) =>
            \/ bans[i].hash \in HashesOf(asked)
            \/ \E t \in asked : bans[i].address = t.address
      BY DEF Meant, HashesOf
    <3>3. PICK read : read =
              {i \in Live : /\ Active(bans[i])
                            /\ \/ bans[i].hash \in HashesOf(asked)
                               \/ \E s \in asked : bans[i].address = s.address}
      OBVIOUS
    <3>4. /\ \A i \in read : i \in Live /\ Active(bans[i])
          /\ \A i \in Live, s \in asked :
               Active(bans[i]) /\ Meant(bans[i], s) => i \in read
      BY <3>2, <3>3
    <3>5. Judge(FALSE, asked, read)
      BY <3>1, <3>3
    <3> QED BY <2>3, <3>4, <3>5
  <2>5. CASE CheckBansInRust
    <3>1. PICK asked \in SUBSET Stamps, exact \in BOOLEAN :
            LET hashes == {IF h = Nothing THEN Empty ELSE h : h \in HashesOf(asked)} IN
            Judge(~exact, asked,
              {i \in Live : /\ Active(bans[i])
                            /\ \/ bans[i].hash \in hashes
                               \/ exact /\ \E s \in asked : bans[i].address = s.address})
      BY <2>5 DEF CheckBansInRust
    <3> DEFINE hashes == {IF h = Nothing THEN Empty ELSE h : h \in HashesOf(asked)}
    <3>2. exact => \A i \in Live, s \in asked : Meant(bans[i], s) =>
            \/ bans[i].hash \in hashes
            \/ \E t \in asked : bans[i].address = t.address
      BY <2>2 DEF Meant, HashesOf
    <3> HIDE DEF hashes
    <3>3. Judge(~exact, asked,
              {i \in Live : /\ Active(bans[i])
                            /\ \/ bans[i].hash \in hashes
                               \/ exact /\ \E s \in asked : bans[i].address = s.address})
      BY <3>1 DEF hashes
    <3>4. PICK read : read =
              {i \in Live : /\ Active(bans[i])
                            /\ \/ bans[i].hash \in hashes
                               \/ exact /\ \E s \in asked : bans[i].address = s.address}
      OBVIOUS
    <3>5. \A i \in read : i \in Live /\ Active(bans[i])
      BY <3>4
    <3>6. ~exact \/ \A i \in Live, s \in asked :
                      Active(bans[i]) /\ Meant(bans[i], s) => i \in read
      BY <3>2, <3>4
    <3>7. Judge(~exact, asked, read)
      BY <3>3, <3>4
    <3> QED BY <2>3, <3>5, <3>6, <3>7
  <2>6. ASSUME ~CheckBans, ~CheckBansInRust
        PROVE  verdict' = Unasked \/ verdict' = verdict
    BY <2>6 DEF BanNext, banVars, AddBan, EditBan, DeleteBan, UploadBans, Enter, BanTick,
         RevokedElsewhere, SelectBans, FindMatching, RevokeStamp, AllRevoked, SaveBan,
         ActionDies, Act
  <2> QED BY <2>1, <2>4, <2>5, <2>6
<1> QED BY <1>1, <1>2, BanInvariance, PTL DEF BanSpec

-----------------------------------------------------------------------------
(***************************************************************************)
(* Notifications: the listings, and the dismissals that race with them.    *)
(***************************************************************************)
NoteSpec == NoteInit /\ [][NoteNext]_noteVars

(* Global notifications belong to everyone, who is not a user.             *)
NoteConstants ==
  /\ Everyone \notin Users \cup Notes
  /\ OwnerOf \in [Notes -> Users \cup {Everyone}]
  /\ MaxStatus \in Nat

AnyStatus == Status \cup {NoStatus}
AnyNote == Notes \cup {Everyone}
AnyId == 0..MaxStatus

Visiting == [op : {"none", "list", "read", "delete", "all"},
             step : {"idle", "create", "remove", "get", "add", "save"},
             user : Users \cup {Everyone}, note : AnyNote,
             todo : SUBSET Notes, obsolete : SUBSET Notes,
             id : AnyId, copy : AnyStatus]

(* What a user may dismiss: her own notifications and the global ones.     *)
Reach(u) == {n \in Notes : OwnerOf[n] \in {u, Everyone}}

NoteTypes ==
  /\ notes \subseteq Notes
  /\ statuses \in [StatusIds -> AnyStatus]
  /\ visit \in [Visits -> Visiting]

(* Nobody has a status of another's notification.                          *)
RowsReach ==
  \A i \in StatusIds : statuses[i] # NoStatus =>
    statuses[i].note \in Reach(statuses[i].user)

(* A request keeps to what its user may dismiss, and what it saves is the  *)
(* status of the notification it is at.                                    *)
VisitsReach ==
  \A v \in Visits :
    LET x == visit[v] IN
    /\ x.step \in {"get", "add", "save"} =>
         x.user \in Users /\ x.todo \subseteq Reach(x.user)
    /\ x.step \in {"add", "save"} => x.note \in Reach(x.user)
    /\ x.step = "save" =>
         /\ x.id \in StatusIds
         /\ x.copy \in Status /\ x.copy.note = x.note /\ x.copy.user = x.user
         /\ statuses[x.id] # NoStatus =>
              statuses[x.id].note = x.note /\ statuses[x.id].user = x.user

Working(v, u, n) ==
  visit[v].user = u /\ visit[v].note = n /\ visit[v].step \in {"add", "save"}

(* Where no two requests met: one is at the notification; it has no status *)
(* while it is about to be created, and is as the request read it when it  *)
(* is about to be saved.  A dismissed one has a status, and it says so.    *)
WholeAt(u, n) ==
  /\ \A v, w \in Visits : Working(v, u, n) /\ Working(w, u, n) => v = w
  /\ \A v \in Visits : Working(v, u, n) =>
       /\ visit[v].step = "add" => OwnStatuses(u, n) = {}
       /\ visit[v].step = "save" => statuses[visit[v].id] = visit[v].copy
  /\ \A i, j \in OwnStatuses(u, n) : i = j
  /\ <<u, n>> \in dismissed =>
       /\ OwnStatuses(u, n) # {}
       /\ \A i \in OwnStatuses(u, n) : statuses[i].deleted

WholeInv == \A u \in Users, n \in Notes : <<u, n>> \notin torn => WholeAt(u, n)

NoteInv == NoteTypes /\ RowsReach /\ VisitsReach /\ WholeInv

(* The requests that the actions write.                                    *)
Listing(u, todo, obsolete) ==
  [Quiet EXCEPT !.op = "list", !.step = "create", !.user = u, !.todo = todo,
                !.obsolete = obsolete]
Removing(x, todo) == [x EXCEPT !.step = "remove", !.todo = todo]
Asking(op, u, todo) == [Quiet EXCEPT !.op = op, !.step = "get", !.user = u, !.todo = todo]
Adding(x, n, todo) == [x EXCEPT !.note = n, !.step = "add", !.todo = todo]
Storing(x, n, todo, i, copy) ==
  [x EXCEPT !.note = n, !.step = "save", !.todo = todo, !.id = i, !.copy = copy]
Getting(x) ==
  [x EXCEPT !.note = Everyone, !.step = "get", !.id = 0, !.copy = NoStatus]
SavingNew(x, i, copy) == [x EXCEPT !.step = "save", !.id = i, !.copy = copy]

Dismissals == {"read", "delete", "all"}

(* Nothing under way, field by field.                                      *)
LEMMA QuietVisit ==
  ASSUME NoteConstants PROVE Quiet \in Visiting /\ Quiet.step = "idle"
BY DEF Quiet, Visiting, NoteConstants, AnyId, AnyStatus, AnyNote

(* A listing begins, field by field.                                       *)
LEMMA NewListing ==
  ASSUME NoteConstants, NEW u \in Users, NEW todo \in SUBSET Notes,
         NEW obsolete \in SUBSET Notes
  PROVE  /\ Listing(u, todo, obsolete) \in Visiting
         /\ Listing(u, todo, obsolete).step = "create"
<1>1. ASSUME NEW q \in Visiting, NEW y,
             y = [q EXCEPT !.op = "list", !.step = "create", !.user = u, !.todo = todo,
                           !.obsolete = obsolete]
      PROVE  y \in Visiting /\ y.step = "create"
  BY <1>1 DEF Visiting
<1> QED BY <1>1, QuietVisit DEF Listing

(* A dismissal begins, field by field.                                     *)
LEMMA NewAsking ==
  ASSUME NoteConstants, NEW u \in Users, NEW todo \in SUBSET Notes,
         NEW op \in Dismissals
  PROVE  /\ Asking(op, u, todo) \in Visiting /\ Asking(op, u, todo).step = "get"
         /\ Asking(op, u, todo).user = u /\ Asking(op, u, todo).todo = todo
<1>1. ASSUME NEW q \in Visiting, NEW y,
             y = [q EXCEPT !.op = op, !.step = "get", !.user = u, !.todo = todo]
      PROVE  y \in Visiting /\ y.step = "get" /\ y.user = u /\ y.todo = todo
  BY <1>1 DEF Visiting, Dismissals
<1> QED BY <1>1, QuietVisit DEF Asking

(* A listing has created what was due.                                     *)
LEMMA GoesOnRemoving ==
  ASSUME NEW x \in Visiting
  PROVE  Removing(x, {}) \in Visiting /\ Removing(x, {}).step = "remove"
<1>1. ASSUME NEW todo \in SUBSET Notes, NEW y, y = [x EXCEPT !.step = "remove", !.todo = todo]
      PROVE  y \in Visiting /\ y.step = "remove"
  BY <1>1 DEF Visiting
<1> QED BY <1>1 DEF Removing

(* A dismissal that found no status.                                       *)
LEMMA GoesOnAdding ==
  ASSUME NEW x \in Visiting, NEW todo \in SUBSET Notes, NEW n \in Notes
  PROVE  /\ Adding(x, n, todo) \in Visiting /\ Adding(x, n, todo).step = "add"
         /\ Adding(x, n, todo).user = x.user /\ Adding(x, n, todo).note = n
         /\ Adding(x, n, todo).todo = todo
<1>1. ASSUME NEW y, y = [x EXCEPT !.note = n, !.step = "add", !.todo = todo]
      PROVE  /\ y \in Visiting /\ y.step = "add" /\ y.note = n /\ y.todo = todo
             /\ y.user = x.user
  BY <1>1 DEF Visiting, AnyNote
<1> QED BY <1>1 DEF Adding

(* A dismissal that found a status.                                        *)
LEMMA GoesOnSaving ==
  ASSUME NEW x \in Visiting, NEW todo \in SUBSET Notes, NEW n \in Notes,
         NEW i \in StatusIds, NEW copy \in Status
  PROVE  /\ Storing(x, n, todo, i, copy) \in Visiting
         /\ Storing(x, n, todo, i, copy).step = "save"
         /\ Storing(x, n, todo, i, copy).user = x.user
         /\ Storing(x, n, todo, i, copy).note = n
         /\ Storing(x, n, todo, i, copy).todo = todo
         /\ Storing(x, n, todo, i, copy).id = i
         /\ Storing(x, n, todo, i, copy).copy = copy
<1>1. PICK k, c : k = i /\ c = copy
  OBVIOUS
<1>2. PICK y : y = [x EXCEPT !.note = n, !.step = "save", !.todo = todo, !.id = k, !.copy = c]
  OBVIOUS
<1>3. k \in AnyId /\ c \in AnyStatus /\ n \in AnyNote
  BY <1>1 DEF StatusIds, AnyId, AnyStatus, AnyNote
<1>4. /\ y \in Visiting /\ y.step = "save" /\ y.note = n /\ y.todo = todo
      /\ y.user = x.user /\ y.id = k /\ y.copy = c
  BY <1>2, <1>3 DEF Visiting
<1>5. Storing(x, n, todo, i, copy) = y
  BY <1>1, <1>2 DEF Storing
<1> QED BY <1>1, <1>4, <1>5

(* A dismissal that created a status.                                      *)
LEMMA GoesOnSavingNew ==
  ASSUME NEW x \in Visiting, NEW i \in StatusIds, NEW copy \in Status
  PROVE  /\ SavingNew(x, i, copy) \in Visiting /\ SavingNew(x, i, copy).step = "save"
         /\ SavingNew(x, i, copy).user = x.user /\ SavingNew(x, i, copy).note = x.note
         /\ SavingNew(x, i, copy).todo = x.todo /\ SavingNew(x, i, copy).id = i
         /\ SavingNew(x, i, copy).copy = copy
<1>1. PICK k, c : k = i /\ c = copy
  OBVIOUS
<1>2. PICK y : y = [x EXCEPT !.step = "save", !.id = k, !.copy = c]
  OBVIOUS
<1>3. k \in AnyId /\ c \in AnyStatus
  BY <1>1 DEF StatusIds, AnyId, AnyStatus
<1>4. /\ y \in Visiting /\ y.step = "save" /\ y.note = x.note /\ y.todo = x.todo
      /\ y.user = x.user /\ y.id = k /\ y.copy = c
  BY <1>2, <1>3 DEF Visiting
<1>5. SavingNew(x, i, copy) = y
  BY <1>1, <1>2 DEF SavingNew
<1> QED BY <1>1, <1>4, <1>5

(* A dismissal of all goes on to the next.                                 *)
LEMMA GoesOnGetting ==
  ASSUME NoteConstants, NEW x \in Visiting
  PROVE  /\ Getting(x) \in Visiting /\ Getting(x).step = "get"
         /\ Getting(x).user = x.user /\ Getting(x).todo = x.todo
<1>1. PICK k, c, n : k = 0 /\ c = NoStatus /\ n = Everyone
  OBVIOUS
<1>2. PICK y : y = [x EXCEPT !.note = n, !.step = "get", !.id = k, !.copy = c]
  OBVIOUS
<1>3. k \in AnyId /\ c \in AnyStatus /\ n \in AnyNote
  BY <1>1 DEF NoteConstants, AnyId, AnyStatus, AnyNote
<1>4. y \in Visiting /\ y.step = "get" /\ y.todo = x.todo /\ y.user = x.user
  BY <1>2, <1>3 DEF Visiting
<1>5. Getting(x) = y
  BY <1>1, <1>2 DEF Getting
<1> QED BY <1>4, <1>5

(* What a request saves is a status of the same notification and user.     *)
LEMMA SavedStatus ==
  ASSUME NEW x, x.copy \in Status
  PROVE  /\ Saved(x) \in Status /\ Saved(x).note = x.copy.note /\ Saved(x).user = x.copy.user
         /\ x.op = "read" => Saved(x).deleted = x.copy.deleted
         /\ x.op # "read" => Saved(x).deleted
<1>1. \A s \in Status : \A y : y = [s EXCEPT !.read = TRUE] =>
        y \in Status /\ y.note = s.note /\ y.user = s.user /\ y.deleted = s.deleted
  BY DEF Status
<1>2. \A s \in Status : \A y : y = [s EXCEPT !.deleted = TRUE] =>
        y \in Status /\ y.note = s.note /\ y.user = s.user /\ y.deleted
  BY DEF Status
<1> QED BY <1>1, <1>2 DEF Saved

(* A row of the table.                                                     *)
LEMMA RowsOfTable ==
  ASSUME NoteConstants, NoteTypes, NEW i \in StatusIds
  PROVE  /\ statuses[i] # NoStatus => statuses[i] \in Status
         /\ NoStatus.note = Everyone /\ Everyone \notin Notes
         /\ \A s \in Status : s.note \in Notes /\ s.user \in Users /\ s # NoStatus
<1>1. NoStatus.note = Everyone /\ Everyone \notin Notes
  BY DEF NoStatus, NoteConstants
<1>2. \A s \in Status : s.note \in Notes /\ s.user \in Users
  BY DEF Status
<1> QED BY <1>1, <1>2 DEF NoteTypes, AnyStatus

(* A listing writes notifications, and removes them with their statuses.   *)
LEMMA Lists ==
  ASSUME NoteConstants, NoteTypes, NEW v \in Visits,
         (\E u \in Users : List(v, u)) \/ CreateNotes(v) \/ RemoveNotes(v)
  PROVE  \E y \in Visiting :
           /\ visit' = [visit EXCEPT ![v] = y]
           /\ y.step \notin {"get", "add", "save"}
           /\ notes' \subseteq Notes /\ dismissed' = dismissed
           /\ torn \subseteq torn'
           /\ \A i \in StatusIds : statuses'[i] # statuses[i] =>
                statuses'[i] = NoStatus /\ <<statuses[i].user, statuses[i].note>> \in torn'
           /\ statuses' \in [StatusIds -> AnyStatus]
<1>0. visit[v] \in Visiting /\ visit[v].obsolete \subseteq Notes /\ visit[v].todo \subseteq Notes
  BY DEF NoteTypes, Visiting
<1>2. ASSUME NEW u \in Users, List(v, u)
      PROVE  \E y \in Visiting :
               /\ visit' = [visit EXCEPT ![v] = y] /\ y.step = "create"
  <2>1. Missing(u) \in SUBSET Notes /\ Obsolete(u) \in SUBSET Notes
    BY DEF Missing, Obsolete, Personal
  <2>2. PICK y : y = Listing(u, Missing(u), Obsolete(u))
    OBVIOUS
  <2>3. y \in Visiting /\ y.step = "create"
    BY <2>1, <2>2, NewListing
  <2> QED BY <1>2, <2>2, <2>3 DEF List, Set, Listing
<1>3. ASSUME CreateNotes(v)
      PROVE  \E y \in Visiting :
               /\ visit' = [visit EXCEPT ![v] = y] /\ y.step \in {"idle", "remove"}
               /\ notes' \subseteq Notes
  <2>1. notes' \subseteq Notes
    BY <1>0, <1>3 DEF CreateNotes, NoteTypes
  <2>2. PICK y : y = Removing(visit[v], {})
    OBVIOUS
  <2>3. y \in Visiting /\ y.step = "remove"
    BY <1>0, <2>2, GoesOnRemoving
  <2>4. visit' = [visit EXCEPT ![v] = y] \/ visit' = [visit EXCEPT ![v] = Quiet]
    BY <1>3, <2>2 DEF CreateNotes, Set, Removing
  <2>5. Quiet \in Visiting /\ Quiet.step = "idle"
    BY QuietVisit
  <2> QED BY <2>1, <2>3, <2>4, <2>5
<1>4. Quiet \in Visiting /\ Quiet.step = "idle"
  BY QuietVisit
<1>5. CASE \E u \in Users : List(v, u)
  <2>1. UNCHANGED <<notes, statuses, dismissed, torn>>
    BY <1>5 DEF List
  <2> QED BY <1>2, <1>5, <2>1 DEF NoteTypes
<1>6. CASE CreateNotes(v)
  <2>1. UNCHANGED <<statuses, dismissed, torn>>
    BY <1>6 DEF CreateNotes
  <2> QED BY <1>3, <1>6, <2>1 DEF NoteTypes
<1>7. CASE RemoveNotes(v)
  <2>1. visit' = [visit EXCEPT ![v] = Quiet] /\ notes' \subseteq Notes /\ dismissed' = dismissed
    BY <1>7 DEF RemoveNotes, Set, NoteTypes
  <2>2. \A i \in StatusIds : statuses'[i] # statuses[i] =>
          statuses'[i] = NoStatus /\ <<statuses[i].user, statuses[i].note>> \in torn'
    BY <1>7 DEF RemoveNotes
  <2>3. statuses' \in [StatusIds -> AnyStatus] /\ torn \subseteq torn'
    BY <1>7 DEF RemoveNotes, NoteTypes, AnyStatus
  <2> QED BY <1>4, <2>1, <2>2, <2>3
<1> QED BY <1>5, <1>6, <1>7

(* A user dismisses one of those she may dismiss, or all her own.          *)
LEMMA Dismisses ==
  ASSUME NoteConstants, NoteTypes, NEW v \in Visits, NEW u \in Users, Dismiss(v, u)
  PROVE  \E y \in Visiting :
           /\ visit' = [visit EXCEPT ![v] = y]
           /\ y.step = "get" /\ y.user = u /\ y.todo \subseteq Reach(u)
           /\ UNCHANGED <<notes, statuses, dismissed, torn>>
<1>1. ASSUME NEW op \in Dismissals, NEW todo \in SUBSET Notes,
             todo \subseteq Reach(u),
             visit' = [visit EXCEPT ![v] = Asking(op, u, todo)]
      PROVE  \E y \in Visiting :
               /\ visit' = [visit EXCEPT ![v] = y]
               /\ y.step = "get" /\ y.user = u /\ y.todo \subseteq Reach(u)
  BY <1>1, NewAsking, ZenonT(60)
<1>2. Shown(u) \subseteq Reach(u) /\ notes \cap Personal(u) \subseteq Reach(u)
  BY DEF Shown, Personal, Reach, NoteTypes
<1>3. Reach(u) \subseteq Notes
  BY DEF Reach
<1>4. UNCHANGED <<notes, statuses, dismissed, torn>>
  BY DEF Dismiss
<1>5. \/ \E n \in Shown(u), op \in {"read", "delete"} :
           visit' = [visit EXCEPT ![v] = Asking(op, u, {n})]
      \/ visit' = [visit EXCEPT ![v] = Asking("all", u, notes \cap Personal(u))]
  BY DEF Dismiss, Set, Asking
<1>7. CASE \E n \in Shown(u), op \in {"read", "delete"} :
             visit' = [visit EXCEPT ![v] = Asking(op, u, {n})]
  <2>1. PICK n \in Shown(u), op \in {"read", "delete"} :
             visit' = [visit EXCEPT ![v] = Asking(op, u, {n})]
    BY <1>7, Zenon
  <2>2. /\ op \in Dismissals /\ {n} \in SUBSET Notes
        /\ {n} \subseteq Reach(u)
    BY <1>2, <1>3 DEF Dismissals
  <2> QED BY <1>1, <1>4, <2>1, <2>2
<1>8. CASE visit' = [visit EXCEPT ![v] = Asking("all", u, notes \cap Personal(u))]
  <2>1. notes \cap Personal(u) \in SUBSET Notes /\ "all" \in Dismissals
    BY <1>2, <1>3 DEF Dismissals
  <2> QED BY <1>1, <1>2, <1>4, <1>8, <2>1
<1> QED BY <1>5, <1>7, <1>8

(* The first half of get_or_create.                                        *)
LEMMA Gets ==
  ASSUME NoteConstants, NoteTypes, NEW v \in Visits, GetStatus(v)
  PROVE  /\ visit[v].step = "get" /\ UNCHANGED <<notes, statuses, dismissed>>
         /\ \E n \in visit[v].todo : \E y \in Visiting :
              LET u == visit[v].user
                  own == OwnStatuses(u, n) IN
              /\ visit' = [visit EXCEPT ![v] = y]
              /\ y.step = "idle" \/
                 /\ y.user = u /\ y.note = n /\ y.todo \subseteq visit[v].todo
                 /\ \/ y.step = "add" /\ own = {}
                    \/ /\ y.step = "save" /\ own = {y.id} /\ y.id \in StatusIds
                       /\ y.copy = statuses[y.id]
              /\ torn' = IF Busy(v, u, n) THEN torn \cup {<<u, n>>} ELSE torn
<1>0. visit[v] \in Visiting /\ visit[v].todo \subseteq Notes
  BY DEF NoteTypes, Visiting
<1>1. visit[v].step = "get" /\ UNCHANGED <<notes, statuses, dismissed>>
  BY DEF GetStatus
<1>2. PICK n \in visit[v].todo :
        LET u == visit[v].user
            own == OwnStatuses(u, n) IN
        /\ \/ /\ own = {}
              /\ Set(v, [visit[v] EXCEPT !.note = n, !.step = "add", !.todo = @ \ {n}])
           \/ \E i \in own :
                /\ own = {i}
                /\ Set(v, [visit[v] EXCEPT !.note = n, !.step = "save",
                             !.todo = @ \ {n}, !.id = i, !.copy = statuses[i]])
           \/ Cardinality(own) > 1 /\ Set(v, Quiet)
        /\ torn' = IF Busy(v, u, n) THEN torn \cup {<<u, n>>} ELSE torn
  BY DEF GetStatus
<1>3. PICK x : x = visit[v]
  OBVIOUS
<1>4. PICK own : own = OwnStatuses(x.user, n)
  OBVIOUS
<1>5. PICK todo : todo = x.todo \ {n}
  OBVIOUS
<1>6. todo \in SUBSET Notes /\ todo \subseteq x.todo /\ n \in Notes /\ x \in Visiting
  BY <1>0, <1>3, <1>5
<1>8. own \subseteq StatusIds /\ \A i \in own : statuses[i] \in Status
  <2>1. own \subseteq StatusIds /\ \A i \in own : statuses[i].note = n
    BY <1>4 DEF OwnStatuses, StatusesOf
  <2> QED BY <1>6, <2>1, RowsOfTable
<1>9. CASE /\ own = {}
           /\ visit' = [visit EXCEPT ![v] = Adding(x, n, todo)]
  <2>1. PICK y : y = Adding(x, n, todo)
    OBVIOUS
  <2>3. /\ y \in Visiting /\ y.step = "add" /\ y.note = n /\ y.todo = todo
        /\ y.user = x.user
    BY <1>6, <2>1, GoesOnAdding
  <2> QED BY <1>1, <1>2, <1>3, <1>4, <1>6, <1>9, <2>1, <2>3
<1>10. CASE \E i \in own :
              /\ own = {i}
              /\ visit' = [visit EXCEPT ![v] = Storing(x, n, todo, i, statuses[i])]
  <2>1. PICK i \in own :
              /\ own = {i}
              /\ visit' = [visit EXCEPT ![v] = Storing(x, n, todo, i, statuses[i])]
    BY <1>10
  <2>2. PICK copy : copy = statuses[i]
    OBVIOUS
  <2>3. i \in StatusIds /\ copy \in Status
    BY <1>8, <2>2
  <2>4. PICK y : y = Storing(x, n, todo, i, copy)
    OBVIOUS
  <2>5. /\ y \in Visiting /\ y.step = "save" /\ y.note = n /\ y.todo = todo
        /\ y.user = x.user /\ y.id = i /\ y.copy = copy
    BY <1>6, <2>3, <2>4, GoesOnSaving
  <2>6. visit' = [visit EXCEPT ![v] = y]
    BY <2>1, <2>2, <2>4
  <2> QED BY <1>1, <1>2, <1>3, <1>4, <1>6, <2>1, <2>2, <2>3, <2>5, <2>6
<1>11. CASE visit' = [visit EXCEPT ![v] = Quiet]
  <2>1. Quiet \in Visiting /\ Quiet.step = "idle"
    BY QuietVisit
  <2> QED BY <1>1, <1>2, <1>11, <2>1
<1> QED BY <1>2, <1>3, <1>4, <1>5, <1>9, <1>10, <1>11 DEF Set, Adding, Storing

(* On to the next notification, or the answer.                             *)
LEMMA Proceeds ==
  ASSUME NoteConstants, NoteTypes, NEW v \in Visits, Proceed(v)
  PROVE  /\ \E y \in Visiting :
              /\ visit' = [visit EXCEPT ![v] = y]
              /\ y.step \in {"idle", "get"}
              /\ y.step = "get" => y.user = visit[v].user /\ y.todo = visit[v].todo
         /\ dismissed' = IF visit[v].op = "read" THEN dismissed
                         ELSE dismissed \cup {<<visit[v].user, visit[v].note>>}
<1>1. PICK x : x = visit[v]
  OBVIOUS
<1>2. x \in Visiting /\ x.todo \in SUBSET Notes
  BY <1>1 DEF NoteTypes, Visiting
<1>3. PICK y : y = Getting(x)
  OBVIOUS
<1>4. /\ y \in Visiting /\ y.step = "get" /\ y.todo = x.todo /\ y.user = x.user
  BY <1>2, <1>3, GoesOnGetting
<1>5. Quiet \in Visiting /\ Quiet.step = "idle"
  BY QuietVisit
<1>6. visit' = [visit EXCEPT ![v] = y] \/ visit' = [visit EXCEPT ![v] = Quiet]
  BY <1>1, <1>3 DEF Proceed, Set, Getting
<1> QED BY <1>1, <1>4, <1>5, <1>6 DEF Proceed

(* The second half of get_or_create.                                       *)
LEMMA Adds ==
  ASSUME NoteConstants, NoteTypes, VisitsReach, NEW v \in Visits, AddStatus(v)
  PROVE  LET x == visit[v] IN
         /\ x.step = "add" /\ UNCHANGED <<notes, torn>>
         /\ \E y \in Visiting :
              /\ visit' = [visit EXCEPT ![v] = y]
              /\ \/ y.step = "idle" /\ UNCHANGED <<statuses, dismissed>>
                 \/ \E i \in FreshIds, row \in Status :
                      /\ statuses' = [statuses EXCEPT ![i] = row]
                      /\ row.note = x.note /\ row.user = x.user
                      /\ \/ /\ y.step \in {"idle", "get"} /\ row.deleted
                            /\ y.step = "get" => y.user = x.user /\ y.todo = x.todo
                            /\ dismissed' = dismissed \cup {<<x.user, x.note>>}
                         \/ /\ y.step = "save" /\ y.id = i /\ y.copy = row
                            /\ y.user = x.user /\ y.note = x.note /\ y.todo = x.todo
                            /\ dismissed' = dismissed
<1>1. PICK x : x = visit[v]
  OBVIOUS
<1>2. PICK row : row = [note |-> x.note, user |-> x.user, read |-> FALSE,
                        deleted |-> x.op = "all"]
  OBVIOUS
<1>3. /\ x \in Visiting /\ x.step = "add" /\ UNCHANGED <<notes, torn>>
      /\ x.user \in Users /\ x.note \in Notes
  BY <1>1 DEF AddStatus, NoteTypes, VisitsReach, Reach
<1>4. /\ row \in Status /\ row.note = x.note /\ row.user = x.user
      /\ x.op = "all" => row.deleted
  BY <1>2, <1>3 DEF Status
<1>5. \/ Set(v, Quiet) /\ UNCHANGED <<statuses, dismissed>>
      \/ \E i \in FreshIds :
           /\ statuses' = [statuses EXCEPT ![i] = row]
           /\ \/ x.op = "all" /\ Proceed(v)
              \/ /\ x.op # "all"
                 /\ visit' = [visit EXCEPT ![v] = SavingNew(x, i, row)]
                 /\ UNCHANGED dismissed
  BY <1>1, <1>2 DEF AddStatus, Set, SavingNew
<1>6. CASE Set(v, Quiet) /\ UNCHANGED <<statuses, dismissed>>
  BY <1>1, <1>3, <1>6, QuietVisit DEF Set
<1>7. ASSUME NEW i \in FreshIds, statuses' = [statuses EXCEPT ![i] = row],
             x.op = "all", Proceed(v)
      PROVE  \E y \in Visiting :
               /\ visit' = [visit EXCEPT ![v] = y]
               /\ y.step \in {"idle", "get"} /\ row.deleted
               /\ y.step = "get" => y.user = x.user /\ y.todo = x.todo
               /\ dismissed' = dismissed \cup {<<x.user, x.note>>}
  BY <1>1, <1>4, <1>7, Proceeds
<1>8. ASSUME NEW i \in FreshIds, visit' = [visit EXCEPT ![v] = SavingNew(x, i, row)]
      PROVE  \E y \in Visiting :
               /\ visit' = [visit EXCEPT ![v] = y]
               /\ y.step = "save" /\ y.id = i /\ y.copy = row
               /\ y.user = x.user /\ y.note = x.note /\ y.todo = x.todo
  <2>1. i \in StatusIds
    BY DEF FreshIds
  <2>2. PICK y : y = SavingNew(x, i, row)
    OBVIOUS
  <2>3. /\ y \in Visiting /\ y.step = "save" /\ y.id = i /\ y.copy = row
        /\ y.user = x.user /\ y.note = x.note /\ y.todo = x.todo
    BY <1>3, <1>4, <2>1, <2>2, GoesOnSavingNew
  <2> QED BY <1>8, <2>2, <2>3
<1>9. CASE \E i \in FreshIds :
             /\ statuses' = [statuses EXCEPT ![i] = row]
             /\ \/ x.op = "all" /\ Proceed(v)
                \/ /\ x.op # "all"
                   /\ visit' = [visit EXCEPT ![v] = SavingNew(x, i, row)]
                   /\ UNCHANGED dismissed
  <2>1. PICK i \in FreshIds :
             /\ statuses' = [statuses EXCEPT ![i] = row]
             /\ \/ x.op = "all" /\ Proceed(v)
                \/ /\ x.op # "all"
                   /\ visit' = [visit EXCEPT ![v] = SavingNew(x, i, row)]
                   /\ UNCHANGED dismissed
    BY <1>9
  <2>2. CASE x.op = "all" /\ Proceed(v)
    <3>1. PICK y \in Visiting :
               /\ visit' = [visit EXCEPT ![v] = y]
               /\ y.step \in {"idle", "get"} /\ row.deleted
               /\ y.step = "get" => y.user = x.user /\ y.todo = x.todo
               /\ dismissed' = dismissed \cup {<<x.user, x.note>>}
      BY <1>7, <2>1, <2>2
    <3> QED BY <1>1, <1>3, <1>4, <2>1, <3>1
  <2>3. CASE /\ visit' = [visit EXCEPT ![v] = SavingNew(x, i, row)]
             /\ UNCHANGED dismissed
    <3>1. PICK y \in Visiting :
               /\ visit' = [visit EXCEPT ![v] = y]
               /\ y.step = "save" /\ y.id = i /\ y.copy = row
               /\ y.user = x.user /\ y.note = x.note /\ y.todo = x.todo
      BY <1>8, <2>3
    <3> QED BY <1>1, <1>3, <1>4, <2>1, <2>3, <3>1
  <2> QED BY <2>1, <2>2, <2>3
<1> QED BY <1>5, <1>6, <1>9

(* A save, of the row that was read.                                       *)
LEMMA Saves ==
  ASSUME NoteConstants, NoteTypes, VisitsReach, NEW v \in Visits, SaveStatus(v)
  PROVE  LET x == visit[v] IN
         /\ x.step = "save" /\ UNCHANGED <<notes, torn>>
         /\ \E y \in Visiting :
              /\ visit' = [visit EXCEPT ![v] = y]
              /\ y.step \in {"idle", "get"}
              /\ y.step = "get" => y.user = x.user /\ y.todo = x.todo
         /\ \/ UNCHANGED <<statuses, dismissed>>
            \/ /\ statuses' = statuses /\ x.copy.deleted
               /\ dismissed' = dismissed \cup {<<x.user, x.note>>}
            \/ \E s \in Status :
                 /\ statuses[x.id] # NoStatus
                 /\ statuses' = [statuses EXCEPT ![x.id] = s]
                 /\ s.note = x.note /\ s.user = x.user
                 /\ \/ dismissed' = dismissed /\ s.deleted = x.copy.deleted
                    \/ s.deleted /\ dismissed' = dismissed \cup {<<x.user, x.note>>}
<1>1. PICK x : x = visit[v]
  OBVIOUS
<1>2. PICK s : s = Saved(x)
  OBVIOUS
<1>3. /\ x \in Visiting /\ x.step = "save" /\ UNCHANGED <<notes, torn>>
      /\ x.copy \in Status /\ x.copy.note = x.note /\ x.copy.user = x.user
  BY <1>1 DEF SaveStatus, NoteTypes, VisitsReach
<1>4. /\ s \in Status /\ s.note = x.note /\ s.user = x.user
      /\ x.op = "read" => s.deleted = x.copy.deleted
      /\ x.op # "read" => s.deleted
  BY <1>2, <1>3, SavedStatus
<1>5. \/ Set(v, Quiet) /\ UNCHANGED <<statuses, dismissed>>
      \/ s = x.copy /\ Proceed(v) /\ UNCHANGED statuses
      \/ /\ statuses[x.id] # NoStatus /\ Proceed(v)
         /\ statuses' = [statuses EXCEPT ![x.id] = s]
  BY <1>1, <1>2 DEF SaveStatus
<1>6. Set(v, Quiet) =>
        \E y \in Visiting : visit' = [visit EXCEPT ![v] = y] /\ y.step = "idle"
  BY QuietVisit DEF Set
<1>7. Proceed(v) =>
        /\ \E y \in Visiting :
             /\ visit' = [visit EXCEPT ![v] = y]
             /\ y.step \in {"idle", "get"}
             /\ y.step = "get" => y.user = x.user /\ y.todo = x.todo
        /\ dismissed' = IF x.op = "read" THEN dismissed
                        ELSE dismissed \cup {<<x.user, x.note>>}
  BY <1>1, Proceeds
<1>8. CASE Set(v, Quiet) /\ UNCHANGED <<statuses, dismissed>>
  BY <1>1, <1>3, <1>6, <1>8
<1>9. CASE s = x.copy /\ Proceed(v) /\ UNCHANGED statuses
  BY <1>1, <1>3, <1>4, <1>7, <1>9
<1>10. CASE /\ statuses[x.id] # NoStatus /\ Proceed(v)
            /\ statuses' = [statuses EXCEPT ![x.id] = s]
  <2>1. \/ dismissed' = dismissed /\ s.deleted = x.copy.deleted
        \/ s.deleted /\ dismissed' = dismissed \cup {<<x.user, x.note>>}
    BY <1>4, <1>7, <1>10
  <2> QED BY <1>1, <1>3, <1>4, <1>7, <1>10, <2>1
<1> QED BY <1>5, <1>8, <1>9, <1>10

(* A listing leaves the invariant: what it removes is not whole any more.  *)
LEMMA ListsStep ==
  ASSUME NoteConstants, NoteInv, NEW v \in Visits,
         (\E u \in Users : List(v, u)) \/ CreateNotes(v) \/ RemoveNotes(v)
  PROVE  NoteInv'
<1> USE DEF NoteInv
<1>1. PICK y \in Visiting :
        /\ visit' = [visit EXCEPT ![v] = y]
        /\ y.step \notin {"get", "add", "save"}
        /\ notes' \subseteq Notes /\ dismissed' = dismissed
        /\ torn \subseteq torn'
        /\ \A i \in StatusIds : statuses'[i] # statuses[i] =>
             statuses'[i] = NoStatus /\ <<statuses[i].user, statuses[i].note>> \in torn'
        /\ statuses' \in [StatusIds -> AnyStatus]
  BY Lists
<1>2. visit \in [Visits -> Visiting]
  BY DEF NoteTypes
<1>3. /\ \A w \in Visits : w # v => visit'[w] = visit[w]
      /\ visit'[v] = y /\ visit' \in [Visits -> Visiting]
  BY <1>1, <1>2
<1>4. NoteTypes'
  BY <1>1, <1>3 DEF NoteTypes
<1>5. RowsReach'
  <2>1. ASSUME NEW i \in StatusIds, statuses'[i] # NoStatus
        PROVE  statuses'[i].note \in Reach(statuses'[i].user)
    BY <1>1, <2>1 DEF RowsReach
  <2> QED BY <2>1 DEF RowsReach, Reach
<1>6. VisitsReach'
  <2>1. ASSUME NEW w \in Visits, w # v, visit[w].step = "save",
               statuses'[visit[w].id] # NoStatus
        PROVE  statuses'[visit[w].id] = statuses[visit[w].id]
    BY <1>1, <2>1 DEF VisitsReach
  <2> QED BY <1>1, <1>3, <2>1 DEF VisitsReach, Reach
<1>7. ASSUME NEW u \in Users, NEW n \in Notes, <<u, n>> \notin torn'
      PROVE  WholeAt(u, n)'
  <2>1. <<u, n>> \notin torn /\ WholeAt(u, n)
    BY <1>1, <1>7 DEF WholeInv
  <2>2. \A w \in Visits : Working(w, u, n)' => w # v /\ Working(w, u, n)
    BY <1>1, <1>3 DEF Working
  <2>3. \A i \in StatusIds : i \in OwnStatuses(u, n) => statuses'[i] = statuses[i]
    BY <1>1, <1>7 DEF OwnStatuses, StatusesOf
  <2>4. OwnStatuses(u, n)' = OwnStatuses(u, n)
    <3>1. \A i \in StatusIds : statuses'[i] # statuses[i] => statuses'[i].note # n
      BY <1>1, RowsOfTable
    <3> QED BY <2>3, <3>1 DEF OwnStatuses, StatusesOf
  <2>5. ASSUME NEW w \in Visits, Working(w, u, n)', visit'[w].step = "save"
        PROVE  statuses'[visit'[w].id] = visit'[w].copy
    <3>1. w # v /\ Working(w, u, n) /\ visit'[w] = visit[w] /\ visit[w].step = "save"
      BY <1>3, <2>2, <2>5
    <3>2. statuses[visit[w].id] = visit[w].copy /\ visit[w].id \in StatusIds
      BY <2>1, <3>1 DEF WholeAt, VisitsReach
    <3>3. visit[w].copy.note = n /\ visit[w].copy.user = u
      BY <3>1 DEF Working, VisitsReach
    <3>4. visit[w].id \in OwnStatuses(u, n)
      BY <3>2, <3>3 DEF OwnStatuses, StatusesOf
    <3> QED BY <2>3, <3>1, <3>2, <3>4
  <2>6. OwnStatuses(u, n) \subseteq StatusIds
    BY DEF OwnStatuses, StatusesOf
  <2>7. ASSUME NEW w \in Visits, Working(w, u, n)', visit'[w].step = "add"
        PROVE  OwnStatuses(u, n)' = {}
    BY <1>3, <2>1, <2>2, <2>4, <2>7 DEF WholeAt
  <2>8. \A w, x \in Visits : Working(w, u, n)' /\ Working(x, u, n)' => w = x
    BY <2>1, <2>2 DEF WholeAt
  <2>9. <<u, n>> \in dismissed' =>
          /\ OwnStatuses(u, n)' # {}
          /\ \A i \in OwnStatuses(u, n)' : statuses'[i].deleted
    BY <1>1, <2>1, <2>3, <2>4, <2>6 DEF WholeAt
  <2>10. \A i, j \in OwnStatuses(u, n)' : i = j
    BY <2>1, <2>4 DEF WholeAt
  <2> QED BY <2>5, <2>7, <2>8, <2>9, <2>10 DEF WholeAt
<1> QED BY <1>4, <1>5, <1>6, <1>7 DEF WholeInv

(* A dismissal begins.                                                     *)
LEMMA DismissesStep ==
  ASSUME NoteConstants, NoteInv, NEW v \in Visits, NEW u \in Users, Dismiss(v, u)
  PROVE  NoteInv'
<1> USE DEF NoteInv
<1>1. PICK y \in Visiting :
        /\ visit' = [visit EXCEPT ![v] = y]
        /\ y.step = "get" /\ y.user = u /\ y.todo \subseteq Reach(u)
        /\ UNCHANGED <<notes, statuses, dismissed, torn>>
  BY Dismisses
<1>2. /\ \A w \in Visits : w # v => visit'[w] = visit[w]
      /\ visit'[v] = y /\ visit' \in [Visits -> Visiting]
  BY <1>1 DEF NoteTypes
<1>3. NoteTypes' /\ RowsReach'
  BY <1>1, <1>2 DEF NoteTypes, RowsReach, Reach
<1>4. VisitsReach'
  BY <1>1, <1>2 DEF VisitsReach, Reach
<1>5. ASSUME NEW r \in Users, NEW n \in Notes, <<r, n>> \notin torn'
      PROVE  WholeAt(r, n)'
  <2>1. WholeAt(r, n)
    BY <1>1, <1>5 DEF WholeInv
  <2>2. \A w \in Visits : Working(w, r, n)' => Working(w, r, n) /\ visit'[w] = visit[w]
    BY <1>1, <1>2 DEF Working
  <2>3. OwnStatuses(r, n)' = OwnStatuses(r, n)
    BY <1>1 DEF OwnStatuses, StatusesOf
  <2> QED BY <1>1, <2>1, <2>2, <2>3 DEF WholeAt
<1> QED BY <1>3, <1>4, <1>5 DEF WholeInv

(* A request that reads the status while another is at it leaves the pair  *)
(* torn; one that is alone has read what there is.                         *)
LEMMA GetsStep ==
  ASSUME NoteConstants, NoteInv, NEW v \in Visits, GetStatus(v)
  PROVE  NoteInv'
<1> USE DEF NoteInv
<1>0. visit[v].step = "get" /\ UNCHANGED <<notes, statuses, dismissed>>
  BY Gets
<1>9. visit[v].user \in Users /\ visit[v].todo \subseteq Reach(visit[v].user)
  BY <1>0 DEF VisitsReach
<1>1. PICK m \in visit[v].todo, y \in Visiting :
        LET u == visit[v].user
            own == OwnStatuses(u, m) IN
        /\ visit' = [visit EXCEPT ![v] = y]
        /\ y.step = "idle" \/
           /\ y.user = u /\ y.note = m /\ y.todo \subseteq visit[v].todo
           /\ \/ y.step = "add" /\ own = {}
              \/ /\ y.step = "save" /\ own = {y.id} /\ y.id \in StatusIds
                 /\ y.copy = statuses[y.id]
        /\ torn' = IF Busy(v, u, m) THEN torn \cup {<<u, m>>} ELSE torn
  BY Gets
<1>2. /\ \A w \in Visits : w # v => visit'[w] = visit[w]
      /\ visit'[v] = y /\ visit' \in [Visits -> Visiting]
  BY <1>1 DEF NoteTypes
<1>3. NoteTypes' /\ RowsReach'
  BY <1>0, <1>2 DEF NoteTypes, RowsReach, Reach
<1>4. m \in Reach(visit[v].user) /\ m \in Notes
  BY <1>9 DEF Reach
<1>5. y.step = "save" => statuses[y.id].note = m /\ statuses[y.id].user = visit[v].user
  BY <1>1 DEF OwnStatuses, StatusesOf
<1>6. y.step = "save" => statuses[y.id] \in Status
  BY <1>1, <1>4, <1>5, RowsOfTable
<1>7. VisitsReach'
  <2>1. /\ y.step \in {"get", "add", "save"} =>
             y.user \in Users /\ y.todo \subseteq Reach(y.user)
        /\ y.step \in {"add", "save"} => y.note \in Reach(y.user)
        /\ y.step = "save" =>
             /\ y.id \in StatusIds
             /\ y.copy \in Status /\ y.copy.note = y.note /\ y.copy.user = y.user
             /\ statuses[y.id].note = y.note /\ statuses[y.id].user = y.user
    BY <1>1, <1>9, <1>4, <1>5, <1>6
  <2> QED BY <1>0, <1>2, <2>1 DEF VisitsReach, Reach
<1>8. ASSUME NEW r \in Users, NEW n \in Notes, <<r, n>> \notin torn'
      PROVE  WholeAt(r, n)'
  <2>1. WholeAt(r, n)
    BY <1>1, <1>8 DEF WholeInv
  <2>2. OwnStatuses(r, n)' = OwnStatuses(r, n)
    BY <1>0 DEF OwnStatuses, StatusesOf
  <2>3. \A w \in Visits : w # v =>
          (Working(w, r, n)' <=> Working(w, r, n)) /\ visit'[w] = visit[w]
    BY <1>2 DEF Working
  <2>4. CASE ~Working(v, r, n)'
    BY <1>0, <2>1, <2>2, <2>3, <2>4 DEF WholeAt
  <2>5. CASE Working(v, r, n)'
    <3>1. r = visit[v].user /\ n = m /\ y.step # "idle"
      BY <1>1, <1>2, <2>5 DEF Working
    <3>2. ~Busy(v, r, n)
      BY <1>1, <1>8, <3>1
    <3>3. \A w \in Visits : w # v => ~Working(w, r, n)
      BY <3>2 DEF Busy, Working
    <3>4. /\ y.step = "add" => OwnStatuses(r, n) = {}
          /\ y.step = "save" => statuses[y.id] = y.copy
      BY <1>1, <3>1
    <3>5. \A w \in Visits : Working(w, r, n)' => w = v
      BY <2>3, <3>3
    <3>6. \A w, x \in Visits : Working(w, r, n)' /\ Working(x, r, n)' => w = x
      BY <3>5
    <3>7. \A w \in Visits : Working(w, r, n)' =>
            /\ visit'[w].step = "add" => OwnStatuses(r, n)' = {}
            /\ visit'[w].step = "save" => statuses'[visit'[w].id] = visit'[w].copy
      BY <1>0, <1>2, <2>2, <3>4, <3>5
    <3>8. /\ \A i, j \in OwnStatuses(r, n)' : i = j
          /\ <<r, n>> \in dismissed' =>
               /\ OwnStatuses(r, n)' # {}
               /\ \A i \in OwnStatuses(r, n)' : statuses'[i].deleted
      BY <1>0, <2>1, <2>2 DEF WholeAt
    <3> QED BY <3>6, <3>7, <3>8 DEF WholeAt
  <2> QED BY <2>4, <2>5
<1> QED BY <1>3, <1>7, <1>8 DEF WholeInv

(* A status is created where there was none, or the pair is torn.          *)
LEMMA AddsStep ==
  ASSUME NoteConstants, NoteInv, NEW v \in Visits, AddStatus(v)
  PROVE  NoteInv'
<1> USE DEF NoteInv
<1>1. PICK x : x = visit[v]
  OBVIOUS
<1>2. /\ x.step = "add" /\ UNCHANGED <<notes, torn>>
      /\ x.user \in Users /\ x.todo \subseteq Reach(x.user)
      /\ x.note \in Reach(x.user) /\ x.note \in Notes
  BY <1>1, Adds DEF VisitsReach, Reach
<1>3. PICK y \in Visiting :
        /\ visit' = [visit EXCEPT ![v] = y]
        /\ \/ y.step = "idle" /\ UNCHANGED <<statuses, dismissed>>
           \/ \E i \in FreshIds, row \in Status :
                /\ statuses' = [statuses EXCEPT ![i] = row]
                /\ row.note = x.note /\ row.user = x.user
                /\ \/ /\ y.step \in {"idle", "get"} /\ row.deleted
                      /\ y.step = "get" => y.user = x.user /\ y.todo = x.todo
                      /\ dismissed' = dismissed \cup {<<x.user, x.note>>}
                   \/ /\ y.step = "save" /\ y.id = i /\ y.copy = row
                      /\ y.user = x.user /\ y.note = x.note /\ y.todo = x.todo
                      /\ dismissed' = dismissed
  BY <1>1, Adds
<1>4. /\ \A w \in Visits : w # v => visit'[w] = visit[w]
      /\ visit'[v] = y /\ visit' \in [Visits -> Visiting]
  BY <1>3 DEF NoteTypes
<1>5. CASE y.step = "idle" /\ UNCHANGED <<statuses, dismissed>>
  <2>1. NoteTypes' /\ RowsReach'
    BY <1>2, <1>4, <1>5 DEF NoteTypes, RowsReach, Reach
  <2>2. VisitsReach'
    BY <1>4, <1>5 DEF VisitsReach, Reach
  <2>3. ASSUME NEW r \in Users, NEW n \in Notes, <<r, n>> \notin torn'
        PROVE  WholeAt(r, n)'
    <3>1. WholeAt(r, n)
      BY <1>2, <2>3 DEF WholeInv
    <3>2. \A w \in Visits : Working(w, r, n)' => Working(w, r, n) /\ visit'[w] = visit[w]
      BY <1>4, <1>5 DEF Working
    <3>3. OwnStatuses(r, n)' = OwnStatuses(r, n)
      BY <1>5 DEF OwnStatuses, StatusesOf
    <3> QED BY <1>5, <3>1, <3>2, <3>3 DEF WholeAt
  <2> QED BY <2>1, <2>2, <2>3 DEF WholeInv
<1>6. ASSUME NEW i \in FreshIds, NEW row \in Status,
             statuses' = [statuses EXCEPT ![i] = row],
             row.note = x.note, row.user = x.user,
             \/ /\ y.step \in {"idle", "get"} /\ row.deleted
                /\ y.step = "get" => y.user = x.user /\ y.todo = x.todo
                /\ dismissed' = dismissed \cup {<<x.user, x.note>>}
             \/ /\ y.step = "save" /\ y.id = i /\ y.copy = row
                /\ y.user = x.user /\ y.note = x.note /\ y.todo = x.todo
                /\ dismissed' = dismissed
      PROVE  NoteInv'
  <2>0. /\ i \in StatusIds /\ statuses[i] = NoStatus /\ \A w \in Visits : visit[w].id # i
        /\ statuses \in [StatusIds -> AnyStatus] /\ row \in AnyStatus
    BY DEF FreshIds, NoteTypes, AnyStatus
  <2>1. /\ statuses'[i] = row /\ statuses' \in [StatusIds -> AnyStatus]
        /\ \A j \in StatusIds : j # i => statuses'[j] = statuses[j]
    BY <1>6, <2>0
  <2>2. NoteTypes'
    BY <1>2, <1>4, <2>1 DEF NoteTypes
  <2>3. RowsReach'
    BY <1>2, <1>6, <2>0, <2>1 DEF RowsReach, Reach
  <2>4. VisitsReach'
    <3>1. ASSUME NEW w \in Visits, w # v, visit[w].step = "save"
          PROVE  statuses'[visit[w].id] = statuses[visit[w].id]
      BY <2>0, <2>1, <3>1 DEF VisitsReach
    <3>2. /\ y.step \in {"get", "add", "save"} =>
               y.user \in Users /\ y.todo \subseteq Reach(y.user)
          /\ y.step \in {"add", "save"} => y.note \in Reach(y.user)
          /\ y.step = "save" =>
               /\ y.id \in StatusIds
               /\ y.copy \in Status /\ y.copy.note = y.note /\ y.copy.user = y.user
               /\ statuses'[y.id].note = y.note /\ statuses'[y.id].user = y.user
      BY <1>2, <1>6, <2>0, <2>1
    <3> QED BY <1>4, <3>1, <3>2 DEF VisitsReach, Reach
  <2>5. ASSUME NEW r \in Users, NEW n \in Notes, <<r, n>> \notin torn'
        PROVE  WholeAt(r, n)'
    <3>1. WholeAt(r, n)
      BY <1>2, <2>5 DEF WholeInv
    <3>2. \A w \in Visits : w # v =>
            /\ Working(w, r, n)' <=> Working(w, r, n)
            /\ visit'[w] = visit[w]
            /\ visit[w].step = "save" => statuses'[visit[w].id] = statuses[visit[w].id]
      BY <1>4, <2>0, <2>1 DEF Working, VisitsReach
    <3>3. NoStatus.note # n
      BY <2>0, RowsOfTable
    <3>4. CASE ~(r = x.user /\ n = x.note)
      <4>1. ~Working(v, r, n)'
        BY <1>4, <1>6, <3>4 DEF Working
      <4>2. \A j \in StatusIds : j \in OwnStatuses(r, n)' <=> j \in OwnStatuses(r, n)
        BY <1>6, <2>0, <2>1, <3>3, <3>4 DEF OwnStatuses, StatusesOf
      <4>3. /\ OwnStatuses(r, n)' = OwnStatuses(r, n)
            /\ \A j \in OwnStatuses(r, n) : statuses'[j] = statuses[j]
        BY <2>0, <2>1, <3>3, <4>2 DEF OwnStatuses, StatusesOf
      <4>4. <<r, n>> \in dismissed' => <<r, n>> \in dismissed
        BY <1>6, <3>4
      <4> QED BY <3>1, <3>2, <4>1, <4>3, <4>4 DEF WholeAt
    <3>5. CASE r = x.user /\ n = x.note
      <4>1. Working(v, r, n)
        BY <1>1, <1>2, <3>5 DEF Working
      <4>2. OwnStatuses(r, n) = {} /\ \A w \in Visits : Working(w, r, n) => w = v
        BY <1>1, <1>2, <3>1, <4>1 DEF WholeAt
      <4>3. OwnStatuses(r, n)' = {i}
        <5>1. \A j \in StatusIds : j \in OwnStatuses(r, n)' <=> j = i
          BY <1>6, <2>1, <3>5, <4>2 DEF OwnStatuses, StatusesOf
        <5>2. OwnStatuses(r, n)' \subseteq StatusIds
          BY DEF OwnStatuses, StatusesOf
        <5> QED BY <2>0, <5>1, <5>2
      <4>4. \A w \in Visits : Working(w, r, n)' => w = v
        BY <3>2, <4>2
      <4>5. \A w, z \in Visits : Working(w, r, n)' /\ Working(z, r, n)' => w = z
        BY <4>4
      <4>6. \A w \in Visits : Working(w, r, n)' =>
              /\ visit'[w].step = "add" => OwnStatuses(r, n)' = {}
              /\ visit'[w].step = "save" => statuses'[visit'[w].id] = visit'[w].copy
        BY <1>4, <1>6, <2>1, <4>4
      <4>7. <<r, n>> \in dismissed' => row.deleted
        BY <1>6, <3>1, <4>2 DEF WholeAt
      <4> QED BY <2>1, <4>3, <4>5, <4>6, <4>7 DEF WholeAt
    <3> QED BY <3>4, <3>5
  <2> QED BY <2>2, <2>3, <2>4, <2>5 DEF WholeInv
<1> QED BY <1>3, <1>5, <1>6

(* A save writes the status that the request read, which no other request  *)
(* wrote meanwhile, or the pair is torn.                                   *)
LEMMA SavesStep ==
  ASSUME NoteConstants, NoteInv, NEW v \in Visits, SaveStatus(v)
  PROVE  NoteInv'
<1> USE DEF NoteInv
<1>1. PICK x : x = visit[v]
  OBVIOUS
<1>2. /\ x.step = "save" /\ UNCHANGED <<notes, torn>>
      /\ \E y \in Visiting :
           /\ visit' = [visit EXCEPT ![v] = y]
           /\ y.step \in {"idle", "get"}
           /\ y.step = "get" => y.user = x.user /\ y.todo = x.todo
      /\ \/ UNCHANGED <<statuses, dismissed>>
         \/ /\ statuses' = statuses /\ x.copy.deleted
            /\ dismissed' = dismissed \cup {<<x.user, x.note>>}
         \/ \E s \in Status :
              /\ statuses[x.id] # NoStatus
              /\ statuses' = [statuses EXCEPT ![x.id] = s]
              /\ s.note = x.note /\ s.user = x.user
              /\ \/ dismissed' = dismissed /\ s.deleted = x.copy.deleted
                 \/ s.deleted /\ dismissed' = dismissed \cup {<<x.user, x.note>>}
  BY <1>1, Saves
<1>3. /\ x.user \in Users /\ x.todo \subseteq Reach(x.user)
      /\ x.note \in Reach(x.user) /\ x.note \in Notes /\ x.id \in StatusIds
      /\ x.copy \in Status /\ x.copy.note = x.note /\ x.copy.user = x.user
      /\ statuses[x.id] # NoStatus =>
           statuses[x.id].note = x.note /\ statuses[x.id].user = x.user
  BY <1>1, <1>2 DEF VisitsReach, Reach
<1>4. PICK y \in Visiting :
        /\ visit' = [visit EXCEPT ![v] = y]
        /\ y.step \in {"idle", "get"}
        /\ y.step = "get" => y.user = x.user /\ y.todo = x.todo
  BY <1>2
<1>5. /\ \A w \in Visits : w # v => visit'[w] = visit[w]
      /\ visit'[v] = y /\ visit' \in [Visits -> Visiting]
  BY <1>4 DEF NoteTypes
<1>6. \A r, n : /\ ~Working(v, r, n)'
                /\ \A w \in Visits : w # v =>
                     (Working(w, r, n)' <=> Working(w, r, n)) /\ visit'[w] = visit[w]
  BY <1>4, <1>5 DEF Working
(* What the save did to the table: the row is of the same notification and *)
(* user, and whether it says deleted is known.                             *)
<1>7. /\ statuses' \in [StatusIds -> AnyStatus]
      /\ \A i \in StatusIds : i # x.id => statuses'[i] = statuses[i]
      /\ \/ statuses'[x.id] = statuses[x.id]
         \/ /\ statuses[x.id] # NoStatus /\ statuses'[x.id] \in Status
            /\ statuses'[x.id].note = x.note /\ statuses'[x.id].user = x.user
  BY <1>2, <1>3 DEF NoteTypes, AnyStatus
<1>8. \/ /\ dismissed' = dismissed
         /\ \/ statuses' = statuses
            \/ statuses'[x.id].deleted = x.copy.deleted
      \/ /\ dismissed' = dismissed \cup {<<x.user, x.note>>}
         /\ \/ statuses' = statuses /\ x.copy.deleted
            \/ statuses'[x.id].deleted
  BY <1>2, <1>3 DEF NoteTypes
<1>9. NoteTypes'
  BY <1>2, <1>5, <1>7 DEF NoteTypes
<1>10. RowsReach'
  BY <1>3, <1>7 DEF RowsReach, Reach
<1>11. VisitsReach'
  <2>1. ASSUME NEW w \in Visits, w # v, visit[w].step = "save",
               statuses'[visit[w].id] # NoStatus
        PROVE  /\ statuses'[visit[w].id].note = visit[w].note
               /\ statuses'[visit[w].id].user = visit[w].user
    <3>1. visit[w].id \in StatusIds
      BY <2>1 DEF VisitsReach
    <3>2. CASE statuses'[visit[w].id] = statuses[visit[w].id]
      BY <2>1, <3>2 DEF VisitsReach
    <3>3. CASE /\ visit[w].id = x.id /\ statuses[x.id] # NoStatus
               /\ statuses'[x.id].note = x.note /\ statuses'[x.id].user = x.user
      BY <1>3, <2>1, <3>3 DEF VisitsReach
    <3> QED BY <1>7, <3>1, <3>2, <3>3
  <2>2. ASSUME NEW w \in Visits
        PROVE  /\ visit'[w].step \in {"get", "add", "save"} =>
                    visit'[w].user \in Users /\ visit'[w].todo \subseteq Reach(visit'[w].user)
               /\ visit'[w].step \in {"add", "save"} => visit'[w].note \in Reach(visit'[w].user)
               /\ visit'[w].step = "save" =>
                    /\ visit'[w].id \in StatusIds
                    /\ visit'[w].copy \in Status /\ visit'[w].copy.note = visit'[w].note
                    /\ visit'[w].copy.user = visit'[w].user
                    /\ statuses'[visit'[w].id] # NoStatus =>
                         /\ statuses'[visit'[w].id].note = visit'[w].note
                         /\ statuses'[visit'[w].id].user = visit'[w].user
    <3>1. CASE w = v
      BY <1>3, <1>4, <1>5, <3>1
    <3>2. CASE w # v
      BY <1>5, <2>1, <3>2 DEF VisitsReach
    <3> QED BY <3>1, <3>2
  <2> QED BY <2>2 DEF VisitsReach, Reach
<1>12. ASSUME NEW r \in Users, NEW n \in Notes, <<r, n>> \notin torn'
       PROVE  WholeAt(r, n)'
  <2>1. WholeAt(r, n)
    BY <1>2, <1>12 DEF WholeInv
  <2>2. OwnStatuses(r, n)' = OwnStatuses(r, n)
    <3>1. \A i \in StatusIds : i \in OwnStatuses(r, n)' <=> i \in OwnStatuses(r, n)
      BY <1>3, <1>7 DEF OwnStatuses, StatusesOf
    <3> QED BY <3>1 DEF OwnStatuses, StatusesOf
  <2>3. OwnStatuses(r, n) \subseteq StatusIds
    BY DEF OwnStatuses, StatusesOf
  <2>4. CASE ~(r = x.user /\ n = x.note)
    <3>1. \A i \in OwnStatuses(r, n) : statuses'[i] = statuses[i]
      <4>1. ASSUME NEW i \in OwnStatuses(r, n) PROVE statuses'[i] = statuses[i]
        <5>1. /\ i \in StatusIds /\ statuses[i].note = n /\ statuses[i].user = r
              /\ statuses[i] # NoStatus
          BY <2>3, RowsOfTable DEF OwnStatuses, StatusesOf
        <5>2. i # x.id \/ statuses'[x.id] = statuses[x.id]
          BY <1>3, <2>4, <5>1
        <5> QED BY <1>7, <5>1, <5>2
      <4> QED BY <4>1
    <3>2. ASSUME NEW w \in Visits, Working(w, r, n)', visit'[w].step = "save"
          PROVE  statuses'[visit'[w].id] = visit'[w].copy
      <4>1. w # v /\ Working(w, r, n) /\ visit'[w] = visit[w]
        BY <1>6, <3>2
      <4>2. /\ statuses[visit[w].id] = visit[w].copy /\ visit[w].id \in StatusIds
            /\ visit[w].copy.note = n /\ visit[w].copy.user = r
        BY <2>1, <3>2, <4>1 DEF WholeAt, VisitsReach, Working
      <4>3. visit[w].id \in OwnStatuses(r, n)
        BY <4>2 DEF OwnStatuses, StatusesOf
      <4> QED BY <3>1, <4>1, <4>2, <4>3
    <3>3. <<r, n>> \in dismissed' => <<r, n>> \in dismissed
      BY <1>8, <2>4
    <3>4. ASSUME NEW w \in Visits, Working(w, r, n)', visit'[w].step = "add"
          PROVE  OwnStatuses(r, n)' = {}
      <4>1. Working(w, r, n) /\ visit'[w] = visit[w]
        BY <1>6, <3>4
      <4> QED BY <2>1, <2>2, <3>4, <4>1 DEF WholeAt
    <3>5. \A w, z \in Visits : Working(w, r, n)' /\ Working(z, r, n)' => w = z
      BY <1>6, <2>1 DEF WholeAt
    <3>6. <<r, n>> \in dismissed' =>
            /\ OwnStatuses(r, n)' # {}
            /\ \A i \in OwnStatuses(r, n)' : statuses'[i].deleted
      BY <2>1, <2>2, <3>1, <3>3 DEF WholeAt
    <3>7. \A i, j \in OwnStatuses(r, n)' : i = j
      BY <2>1, <2>2 DEF WholeAt
    <3> QED BY <3>2, <3>4, <3>5, <3>6, <3>7 DEF WholeAt
  <2>5. CASE r = x.user /\ n = x.note
    <3>1. Working(v, r, n)
      BY <1>1, <1>2, <2>5 DEF Working
    <3>2. statuses[x.id] = x.copy /\ \A w \in Visits : Working(w, r, n) => w = v
      BY <1>1, <1>2, <2>1, <3>1 DEF WholeAt
    <3>3. \A w \in Visits : ~Working(w, r, n)'
      BY <1>6, <3>2
    <3>4. OwnStatuses(r, n) = {x.id}
      <4>1. x.id \in OwnStatuses(r, n)
        BY <1>3, <2>5, <3>2 DEF OwnStatuses, StatusesOf
      <4>2. \A i, j \in OwnStatuses(r, n) : i = j
        BY <2>1 DEF WholeAt
      <4> QED BY <4>1, <4>2
    <3>5. <<r, n>> \in dismissed' => statuses'[x.id].deleted
      <4>1. <<r, n>> \in dismissed => statuses[x.id].deleted
        BY <2>1, <3>4 DEF WholeAt
      <4> QED BY <1>8, <3>2, <4>1
    <3> QED BY <2>2, <3>3, <3>4, <3>5 DEF WholeAt
  <2> QED BY <2>4, <2>5
<1> QED BY <1>9, <1>10, <1>11, <1>12 DEF WholeInv

(* At the start nobody has a status, and nothing is under way.             *)
LEMMA NoteBegins ==
  ASSUME NoteConstants, NoteInit
  PROVE  NoteInv
<1>1. Quiet \in Visiting /\ Quiet.step = "idle"
  BY QuietVisit
<1>2. visit \in [Visits -> Visiting] /\ \A v \in Visits : visit[v].step = "idle"
  BY <1>1 DEF NoteInit
<1>3. NoteTypes
  BY <1>2 DEF NoteInit, NoteTypes, AnyStatus
<1>4. \A i \in StatusIds : statuses[i] = NoStatus
  BY DEF NoteInit
<1>5. \A r \in Users, n \in Notes : OwnStatuses(r, n) = {}
  BY <1>3, <1>4, RowsOfTable DEF OwnStatuses, StatusesOf
<1>6. \A r \in Users, n \in Notes : WholeAt(r, n)
  BY <1>2, <1>5 DEF WholeAt, Working, NoteInit
<1>7. VisitsReach /\ RowsReach
  BY <1>2, <1>4 DEF VisitsReach, RowsReach
<1> QED BY <1>3, <1>6, <1>7 DEF NoteInv, WholeInv

(* No step of a listing or of a dismissal breaks the invariant.            *)
LEMMA NoteSteps ==
  ASSUME NoteConstants, NoteInv, [NoteNext]_noteVars
  PROVE  NoteInv'
<1>1. CASE Change
  BY <1>1 DEF Change, NoteInv, NoteTypes, RowsReach, VisitsReach, WholeInv, WholeAt,
              Reach, Working, OwnStatuses, StatusesOf
<1>2. CASE UNCHANGED noteVars
  BY <1>2 DEF noteVars, NoteInv, NoteTypes, RowsReach, VisitsReach, WholeInv, WholeAt,
              Reach, Working, OwnStatuses, StatusesOf
<1>3. ASSUME NEW v \in Visits,
             \/ \E u \in Users : List(v, u) \/ Dismiss(v, u)
             \/ CreateNotes(v) \/ RemoveNotes(v)
             \/ GetStatus(v) \/ AddStatus(v) \/ SaveStatus(v)
      PROVE  NoteInv'
  <2>1. CASE (\E u \in Users : List(v, u)) \/ CreateNotes(v) \/ RemoveNotes(v)
    BY <2>1, ListsStep
  <2>2. CASE \E u \in Users : Dismiss(v, u)
    BY <2>2, DismissesStep
  <2>3. CASE GetStatus(v)
    BY <2>3, GetsStep
  <2>4. CASE AddStatus(v)
    BY <2>4, AddsStep
  <2>5. CASE SaveStatus(v)
    BY <2>5, SavesStep
  <2> QED BY <1>3, <2>1, <2>2, <2>3, <2>4, <2>5
<1> QED BY <1>1, <1>2, <1>3 DEF NoteNext

(* The invariant.                                                          *)
THEOREM NoteInvariance == ASSUME NoteConstants PROVE NoteSpec => []NoteInv
<1>1. NoteInit => NoteInv
  BY NoteBegins
<1>2. NoteInv /\ [NoteNext]_noteVars => NoteInv'
  BY NoteSteps
<1> QED BY <1>1, <1>2, PTL DEF NoteSpec

(* DeletedStaysHidden, for any number of requests, users and notifications *)
(* and any owners: get_notifications does not show a user what she deleted *)
(* of her own, however often listings generate and remove it, unless two   *)
(* requests met at it.                                                     *)
THEOREM HiddenTheorem == ASSUME NoteConstants PROVE NoteSpec => []DeletedStaysHidden
<1>1. NoteInv => DeletedStaysHidden
  <2>1. ASSUME NoteInv, NEW u \in Users, NEW n \in Notes, OwnerOf[n] = u,
               <<u, n>> \in dismissed, n \in Shown(u), <<u, n>> \notin torn
        PROVE  FALSE
    <3>1. /\ OwnStatuses(u, n) # {}
          /\ \A i \in OwnStatuses(u, n) : statuses[i].deleted
      BY <2>1 DEF NoteInv, WholeInv, WholeAt
    <3>2. PICK i \in StatusesOf(n) : ~statuses[i].deleted
      BY <2>1, <3>1 DEF Shown, OwnStatuses
    <3>3. i \in StatusIds /\ statuses[i].note = n /\ NoteTypes /\ RowsReach
      BY <2>1, <3>2 DEF StatusesOf, NoteInv
    <3>4. statuses[i] \in Status /\ statuses[i] # NoStatus
      BY <3>3, RowsOfTable
    <3>5. n \in Reach(statuses[i].user)
      BY <3>3, <3>4 DEF RowsReach
    <3>6. statuses[i].user = u
      BY <2>1, <3>5 DEF Reach, NoteConstants
    <3> QED BY <3>1, <3>2, <3>6 DEF OwnStatuses
  <2> QED BY <2>1 DEF DeletedStaysHidden
<1> QED BY <1>1, NoteInvariance, PTL

(* OneStatusEach, for the same: get_or_create finds at most one status of  *)
(* a notification, unless two requests met at it.                          *)
THEOREM OneStatusTheorem == ASSUME NoteConstants PROVE NoteSpec => []OneStatusEach
<1>1. NoteInv => OneStatusEach
  <2>1. ASSUME NoteInv, NEW u \in Users, NEW n \in Notes,
               Cardinality(OwnStatuses(u, n)) > 1, <<u, n>> \notin torn
        PROVE  FALSE
    <3>1. \A i, j \in OwnStatuses(u, n) : i = j
      BY <2>1 DEF NoteInv, WholeInv, WholeAt
    <3>2. CASE OwnStatuses(u, n) = {}
      BY <2>1, <3>2, FS_EmptySet
    <3>3. CASE OwnStatuses(u, n) # {}
      <4>1. PICK i : OwnStatuses(u, n) = {i}
        BY <3>1, <3>3
      <4> QED BY <2>1, <4>1, FS_Singleton
    <3> QED BY <3>2, <3>3
  <2> QED BY <2>1 DEF OneStatusEach
<1> QED BY <1>1, NoteInvariance, PTL

-----------------------------------------------------------------------------
(***************************************************************************)
(* Cached reads: what a level of the cache adds to the age of an answer.   *)
(***************************************************************************)
ReadSpec == ReadInit /\ [][ReadNext]_readVars

(* A value is kept for some time, and a request may take some.             *)
ReadConstants ==
  /\ Life \in Nat \ {0} /\ Limit \in Nat
  /\ LastTime \in Nat /\ LastSource \in Nat \ {0}

ReadSteps == {"idle", "look", "fetch", "store", "derive", "answered", "failed"}
Reading == [step : ReadSteps, level : Levels, value : Int, begun : Int]
Entry == [value : Int, expires : Int]

ReadTypes ==
  /\ clock \in Nat /\ source \in 1..LastSource
  /\ until \in [1..LastSource -> Int] /\ until[source] = clock
  /\ caches \in [Levels -> Entry]
  /\ reads \in [Readers -> Reading]

(* How much older than its request what each level answers may be.         *)
Older(level) == IF level = 1 THEN Life - 1 + Limit
                ELSE Life - 1 + Limit + Life - 1 + Limit

(* Until when a value was seen, if it was.                                 *)
SeenSince(value, time) == value \in 1..source /\ until[value] >= time

(* What is in a cache was stored by a request that was in time.            *)
CacheInv ==
  \A l \in Levels :
    Cached(l) => SeenSince(caches[l].value, caches[l].expires - 1 - Older(l))

(* What a request has is of its time, or comes from a cache.               *)
ReadInv ==
  \A r \in Readers :
    LET x == reads[r] IN
    /\ x.step # "idle" => x.begun <= clock /\ clock <= x.begun + Limit
    /\ x.step = "store" => SeenSince(x.value, x.begun)
    /\ x.step = "derive" => x.level = 2 /\ SeenSince(x.value, x.begun - Older(1))
    /\ x.step = "answered" => SeenSince(x.value, x.begun - Older(x.level))

FreshInv == ReadTypes /\ CacheInv /\ ReadInv

(* The levels, and their bounds.                                           *)
LEMMA Bounds ==
  ASSUME ReadConstants
  PROVE  /\ \A l \in Levels : l = 1 \/ l = 2
         /\ 1 \in Levels /\ 2 \in Levels
         /\ Older(1) \in Int /\ Older(2) \in Int /\ 0 <= Older(1) /\ Older(1) <= Older(2)
         /\ Older(1) = Life - 1 + Limit
         /\ Older(2) = Older(1) + Life - 1 + Limit
BY DEF ReadConstants, Levels, Older

(* What was seen since a time was seen since any time before it.           *)
LEMMA SeenBefore ==
  ASSUME ReadConstants, ReadTypes, NEW value, NEW t \in Int, NEW s \in Int, s <= t, SeenSince(value, t)
  PROVE  SeenSince(value, s)
<1>1. value \in 1..source /\ value \in 1..LastSource
  BY DEF SeenSince, ReadTypes, ReadConstants
<1>2. until[value] \in Int /\ until[value] >= t
  BY <1>1 DEF SeenSince, ReadTypes
<1> QED BY <1>1, <1>2 DEF SeenSince

(* Time, or the source, goes on: what was seen stays seen.                 *)
LEMMA SeenStays ==
  ASSUME ReadConstants, ReadTypes, ReadTick \/ ChangeSource
  PROVE  /\ ReadTypes'
         /\ \A value, t \in Int : SeenSince(value, t) => SeenSince(value, t)'
         /\ clock <= clock' /\ clock' <= clock + 1
         /\ UNCHANGED <<caches, reads>>
<1>1. CASE ReadTick
  <2>1. /\ clock' = clock + 1 /\ source' = source /\ UNCHANGED <<caches, reads>>
        /\ until' = [until EXCEPT ![source] = clock + 1]
    BY <1>1 DEF ReadTick
  <2>2. ReadTypes'
    BY <2>1 DEF ReadTypes
  <2>3. \A value, t \in Int : SeenSince(value, t) => SeenSince(value, t)'
    BY <2>1 DEF ReadTypes, SeenSince
  <2> QED BY <2>1, <2>2, <2>3 DEF ReadTypes
<1>2. CASE ChangeSource
  <2>1. /\ clock' = clock /\ source' = source + 1 /\ UNCHANGED <<caches, reads>>
        /\ until' = [until EXCEPT ![source + 1] = clock] /\ source < LastSource
    BY <1>2 DEF ChangeSource
  <2>2. ReadTypes'
    BY <2>1 DEF ReadTypes, ReadConstants
  <2>3. \A value, t \in Int : SeenSince(value, t) => SeenSince(value, t)'
    BY <2>1 DEF ReadTypes, SeenSince
  <2> QED BY <2>1, <2>2, <2>3 DEF ReadTypes
<1> QED BY <1>1, <1>2

(* Where the clock goes on, no request is at its limit.                    *)
LEMMA TimePasses ==
  ASSUME ReadConstants, FreshInv, ReadTick \/ ChangeSource
  PROVE  FreshInv'
<1> USE DEF FreshInv
<1>1. /\ ReadTypes' /\ clock <= clock' /\ UNCHANGED <<caches, reads>>
      /\ \A value, t \in Int : SeenSince(value, t) => SeenSince(value, t)'
      /\ clock \in Nat /\ clock' \in Nat
  BY SeenStays DEF ReadTypes
<1>2. CacheInv'
  <2>1. ASSUME NEW l \in Levels, clock' < caches[l].expires
        PROVE  SeenSince(caches[l].value, caches[l].expires - 1 - Older(l))'
    <3>1. caches[l].value \in Int /\ caches[l].expires \in Int
      BY DEF ReadTypes, Entry
    <3>2. caches[l].expires - 1 - Older(l) \in Int
      BY <3>1, Bounds
    <3>3. clock < caches[l].expires
      BY <1>1, <2>1, <3>1
    <3>4. SeenSince(caches[l].value, caches[l].expires - 1 - Older(l))
      BY <3>3 DEF CacheInv, Cached
    <3>5. PICK t, l2 : t = caches[l].expires - 1 - Older(l) /\ l2 = caches[l].value
      OBVIOUS
    <3>6. SeenSince(l2, t)'
      BY <1>1, <3>1, <3>2, <3>4, <3>5
    <3> QED BY <1>1, <3>5, <3>6 DEF Older, SeenSince
  <2> QED BY <1>1, <2>1 DEF CacheInv, Cached, Older, SeenSince
<1>3. ASSUME NEW r \in Readers
      PROVE  LET x == reads[r] IN
             /\ x.step # "idle" => x.begun <= clock' /\ clock' <= x.begun + Limit
             /\ x.step = "store" => SeenSince(x.value, x.begun)'
             /\ x.step = "derive" => x.level = 2 /\ SeenSince(x.value, x.begun - Older(1))'
             /\ x.step = "answered" => SeenSince(x.value, x.begun - Older(x.level))'
  <2>1. /\ reads[r].value \in Int /\ reads[r].begun \in Int /\ reads[r].level \in Levels
    BY DEF ReadTypes, Reading
  <2>2. reads[r].begun - Older(1) \in Int /\ reads[r].begun - Older(reads[r].level) \in Int
    BY <2>1, Bounds
  <2>3. reads[r].step # "idle" => reads[r].begun <= clock' /\ clock' <= reads[r].begun + Limit
    <3>1. reads[r].step # "idle" => reads[r].begun <= clock /\ clock <= reads[r].begun + Limit
      BY DEF ReadInv
    <3>2. \/ clock' = clock
          \/ clock' = clock + 1 /\ (reads[r].step # "idle" => clock - reads[r].begun < Limit)
      BY DEF ReadTick, ChangeSource
    <3> QED BY <1>1, <2>1, <3>1, <3>2 DEF ReadConstants
  <2> QED BY <1>1, <2>1, <2>2, <2>3 DEF ReadInv
<1>4. ReadInv'
  BY <1>1, <1>3 DEF ReadInv, Older, SeenSince
<1> QED BY <1>1, <1>2, <1>4

(* A request goes on: what it has then, and what it leaves in the caches.  *)
LEMMA RequestGoesOn ==
  ASSUME ReadConstants, FreshInv, NEW r \in Readers, NEW y \in Reading,
         reads' = [reads EXCEPT ![r] = y], UNCHANGED <<clock, source, until>>,
         caches' \in [Levels -> Entry],
         \A l \in Levels : caches'[l] = caches[l] \/
           SeenSince(caches'[l].value, caches'[l].expires - 1 - Older(l)),
         y.step # "idle" => y.begun <= clock /\ clock <= y.begun + Limit,
         y.step = "store" => SeenSince(y.value, y.begun),
         y.step = "derive" => y.level = 2 /\ SeenSince(y.value, y.begun - Older(1)),
         y.step = "answered" => SeenSince(y.value, y.begun - Older(y.level))
  PROVE  FreshInv'
<1> USE DEF FreshInv
<1>1. /\ \A q \in Readers : q # r => reads'[q] = reads[q]
      /\ reads'[r] = y /\ reads' \in [Readers -> Reading]
  BY DEF ReadTypes
<1>2. ReadTypes'
  BY <1>1 DEF ReadTypes
<1>3. \A value, t : SeenSince(value, t)' <=> value \in 1..source /\ until[value] >= t'
  BY DEF SeenSince
<1>4. CacheInv'
  <2>1. ASSUME NEW l \in Levels, clock < caches'[l].expires
        PROVE  SeenSince(caches'[l].value, caches'[l].expires - 1 - Older(l))
    BY <2>1 DEF CacheInv, Cached
  <2> QED BY <2>1 DEF CacheInv, Cached, SeenSince, Older
<1>5. ReadInv'
  <2>1. ASSUME NEW q \in Readers
        PROVE  LET x == reads'[q] IN
               /\ x.step # "idle" => x.begun <= clock /\ clock <= x.begun + Limit
               /\ x.step = "store" => SeenSince(x.value, x.begun)
               /\ x.step = "derive" => x.level = 2 /\ SeenSince(x.value, x.begun - Older(1))
               /\ x.step = "answered" => SeenSince(x.value, x.begun - Older(x.level))
    BY <1>1 DEF ReadInv
  <2> QED BY <2>1 DEF ReadInv, SeenSince, Older
<1> QED BY <1>2, <1>4, <1>5

(* What a request takes from a cache is not older than the level allows.   *)
LEMMA TakenFromCache ==
  ASSUME ReadConstants, FreshInv, NEW l \in Levels, Cached(l), NEW b \in Int, b <= clock
  PROVE  SeenSince(caches[l].value, b - Older(l)) /\ caches[l].value \in Int
<1> USE DEF FreshInv
<1>1. caches[l].value \in Int /\ caches[l].expires \in Int /\ clock \in Int
  BY DEF ReadTypes, Entry
<1>2. Older(l) \in Int
  BY Bounds
<1>3. b - Older(l) <= caches[l].expires - 1 - Older(l)
  BY <1>1, <1>2 DEF Cached
<1>4. SeenSince(caches[l].value, caches[l].expires - 1 - Older(l))
  BY DEF CacheInv
<1> QED BY <1>1, <1>2, <1>3, <1>4, SeenBefore

(* A request begins, and may find its answer at once.                      *)
LEMMA BeginStep ==
  ASSUME ReadConstants, FreshInv, NEW r \in Readers, BeginRead(r)
  PROVE  FreshInv'
<1> USE DEF FreshInv
<1>1. PICK level \in Levels :
        /\ On(r, "idle", [NoRead EXCEPT !.level = level, !.begun = clock,
               !.step = IF level = 2 /\ Cached(2) THEN "answered" ELSE "look",
               !.value = IF level = 2 /\ Cached(2) THEN caches[2].value ELSE 0])
        /\ UNCHANGED caches
  BY DEF BeginRead
<1>2. PICK step : step = IF level = 2 /\ Cached(2) THEN "answered" ELSE "look"
  OBVIOUS
<1>3. PICK value : value = IF level = 2 /\ Cached(2) THEN caches[2].value ELSE 0
  OBVIOUS
<1>4. /\ clock \in Int /\ 2 \in Levels /\ step \in ReadSteps /\ NoRead \in Reading
      /\ value \in Int /\ clock <= clock
  BY <1>2, <1>3 DEF ReadTypes, Entry, Levels, ReadSteps, NoRead, Reading
<1>5. PICK y : y = [NoRead EXCEPT !.level = level, !.begun = clock, !.step = step,
                                  !.value = value]
  OBVIOUS
<1>6. /\ y \in Reading /\ y.step = step /\ y.level = level /\ y.value = value
      /\ y.begun = clock
  <2>1. PICK q \in Reading : q = NoRead
    BY <1>4
  <2>2. y = [q EXCEPT !.level = level, !.begun = clock, !.step = step, !.value = value]
    BY <1>5, <2>1
  <2> QED BY <1>4, <2>2 DEF Reading
<1>7. reads' = [reads EXCEPT ![r] = y] /\ UNCHANGED <<clock, source, until, caches>>
  BY <1>1, <1>2, <1>3, <1>5 DEF On
<1>8. step = "answered" => level = 2 /\ SeenSince(value, clock - Older(2))
  BY <1>2, <1>3, <1>4, TakenFromCache
<1>9. step \in {"answered", "look"}
  BY <1>2
<1>10. clock <= clock + Limit /\ caches' \in [Levels -> Entry]
  BY <1>7 DEF ReadTypes, ReadConstants
<1> QED BY <1>4, <1>6, <1>7, <1>8, <1>9, <1>10, RequestGoesOn

(* A request looks into the first cache.                                   *)
LEMMA LookStep ==
  ASSUME ReadConstants, FreshInv, NEW r \in Readers, LookInCache(r)
  PROVE  FreshInv'
<1> USE DEF FreshInv
<1>1. PICK x : x = reads[r]
  OBVIOUS
<1>2. /\ x \in Reading /\ x.step = "look" /\ x.begun <= clock /\ clock <= x.begun + Limit
      /\ x.begun \in Int /\ x.level \in Levels /\ x.value \in Int
  BY <1>1 DEF ReadTypes, Reading, ReadInv, LookInCache, On
<1>3. UNCHANGED <<clock, source, until, caches>> /\ caches' \in [Levels -> Entry]
  BY DEF LookInCache, On, ReadTypes
<1>4. PICK got : got = Got(r)
  OBVIOUS
<1>5. /\ got \in ReadSteps /\ "fetch" \in ReadSteps
      /\ \/ got = "answered" /\ x.level = 1
         \/ got = "derive" /\ x.level = 2
  BY <1>1, <1>2, <1>4, Bounds DEF Got, ReadSteps
<1>6. CASE ~Cached(1)
  <2>1. PICK y : y = [x EXCEPT !.step = "fetch"]
    OBVIOUS
  <2>2. reads' = [reads EXCEPT ![r] = y]
    BY <1>1, <1>6, <2>1 DEF LookInCache, On, Then
  <2>3. y \in Reading /\ y.step = "fetch" /\ y.begun = x.begun
    BY <1>2, <1>5, <2>1 DEF Reading
  <2> QED BY <1>2, <1>3, <2>2, <2>3, RequestGoesOn
<1>7. CASE Cached(1)
  <2>1. PICK value : value = caches[1].value
    OBVIOUS
  <2>2. SeenSince(value, x.begun - Older(1)) /\ value \in Int
    BY <1>2, <1>7, <2>1, Bounds, TakenFromCache
  <2>3. PICK y : y = [x EXCEPT !.step = got, !.value = value]
    OBVIOUS
  <2>4. reads' = [reads EXCEPT ![r] = y]
    <3>1. [[x EXCEPT !.step = got] EXCEPT !.value = value] = y
      BY <1>2, <2>3 DEF Reading
    <3> QED BY <1>1, <1>4, <1>7, <2>1, <3>1 DEF LookInCache, On, Then
  <2>5. /\ y \in Reading /\ y.step = got /\ y.begun = x.begun /\ y.value = value
        /\ y.level = x.level
    BY <1>2, <1>5, <2>2, <2>3 DEF Reading
  <2> QED BY <1>2, <1>3, <1>5, <2>2, <2>4, <2>5, RequestGoesOn
<1> QED BY <1>6, <1>7

(* A request fetches what there is, or fails.                              *)
LEMMA FetchStep ==
  ASSUME ReadConstants, FreshInv, NEW r \in Readers, Fetch(r)
  PROVE  FreshInv'
<1> USE DEF FreshInv
<1>1. PICK x : x = reads[r]
  OBVIOUS
<1>2. /\ x \in Reading /\ x.step = "fetch" /\ x.begun <= clock /\ clock <= x.begun + Limit
      /\ x.begun \in Int /\ x.level \in Levels /\ x.value \in Int
  BY <1>1 DEF ReadTypes, Reading, ReadInv, Fetch, On
<1>3. UNCHANGED <<clock, source, until, caches>> /\ caches' \in [Levels -> Entry]
  BY DEF Fetch, On, ReadTypes
<1>4. "store" \in ReadSteps /\ "failed" \in ReadSteps
  BY DEF ReadSteps
<1>5. source \in Int /\ SeenSince(source, x.begun)
  BY <1>2 DEF SeenSince, ReadTypes
<1>6. \/ reads' = [reads EXCEPT ![r] = [[x EXCEPT !.step = "store"] EXCEPT !.value = source]]
      \/ reads' = [reads EXCEPT ![r] = [x EXCEPT !.step = "failed"]]
  BY <1>1 DEF Fetch, On, Then
<1>7. CASE reads' = [reads EXCEPT ![r] = [[x EXCEPT !.step = "store"] EXCEPT !.value = source]]
  <2>1. PICK y : y = [[x EXCEPT !.step = "store"] EXCEPT !.value = source]
    OBVIOUS
  <2>2. y \in Reading /\ y.step = "store" /\ y.begun = x.begun /\ y.value = source
    BY <1>2, <1>4, <1>5, <2>1 DEF Reading
  <2> QED BY <1>2, <1>3, <1>5, <1>7, <2>1, <2>2, RequestGoesOn
<1>8. CASE reads' = [reads EXCEPT ![r] = [x EXCEPT !.step = "failed"]]
  <2>1. PICK y : y = [x EXCEPT !.step = "failed"]
    OBVIOUS
  <2>2. y \in Reading /\ y.step = "failed" /\ y.begun = x.begun
    BY <1>2, <1>4, <2>1 DEF Reading
  <2> QED BY <1>2, <1>3, <1>8, <2>1, <2>2, RequestGoesOn
<1> QED BY <1>6, <1>7, <1>8

(* A request stores what it has, in the first cache or in the second.      *)
LEMMA StoreStep ==
  ASSUME ReadConstants, FreshInv, NEW r \in Readers, StoreFetched(r) \/ StoreDerived(r)
  PROVE  FreshInv'
<1> USE DEF FreshInv
<1>1. PICK x : x = reads[r]
  OBVIOUS
<1>2. PICK to : to = IF StoreFetched(r) THEN Got(r) ELSE "answered"
  OBVIOUS
<1>3. PICK l : l = IF StoreFetched(r) THEN 1 ELSE 2
  OBVIOUS
<1>4. PICK e : e = [value |-> x.value, expires |-> clock + Life]
  OBVIOUS
<1>5. /\ x \in Reading /\ x.step \in {"store", "derive"}
      /\ x.begun <= clock /\ clock <= x.begun + Limit
      /\ x.begun \in Int /\ x.level \in Levels /\ x.value \in Int /\ clock \in Int
  BY <1>1 DEF ReadTypes, Reading, ReadInv, StoreFetched, StoreDerived, On
<1>6. /\ UNCHANGED <<clock, source, until>>
      /\ caches' = [caches EXCEPT ![l] = e]
      /\ reads' = [reads EXCEPT ![r] = [x EXCEPT !.step = to]]
  BY <1>1, <1>2, <1>3, <1>4 DEF StoreFetched, StoreDerived, On, Then, Store
<1>7. l \in Levels /\ e \in Entry /\ e.value = x.value /\ e.expires = clock + Life
  BY <1>3, <1>4, <1>5, Bounds DEF Entry, ReadTypes, ReadConstants
<1>8. caches' \in [Levels -> Entry] /\ \A k \in Levels : k # l => caches'[k] = caches[k]
  BY <1>6, <1>7 DEF ReadTypes
<1>9. caches'[l] = e
  BY <1>6, <1>7 DEF ReadTypes
<1>10. \/ l = 1 /\ SeenSince(x.value, x.begun)
       \/ l = 2 /\ x.level = 2 /\ to = "answered" /\ SeenSince(x.value, x.begun - Older(1))
  BY <1>1, <1>2, <1>3 DEF StoreFetched, StoreDerived, On, ReadInv
<1>11. /\ to \in ReadSteps
       /\ to = "answered" \/ (to = "derive" /\ x.level = 2)
       /\ l = 1 => to = "derive" \/ x.level = 1
  BY <1>1, <1>2, <1>3, <1>5, Bounds DEF Got, ReadSteps
<1>12. SeenSince(x.value, e.expires - 1 - Older(l))
  <2>1. l = 1 => e.expires - 1 - Older(l) <= x.begun
    BY <1>5, <1>7, Bounds DEF ReadConstants
  <2>2. l = 2 => e.expires - 1 - Older(l) <= x.begun - Older(1)
    BY <1>5, <1>7, Bounds DEF ReadConstants
  <2>3. e.expires - 1 - Older(l) \in Int /\ x.begun - Older(1) \in Int
    BY <1>5, <1>7, Bounds DEF ReadConstants
  <2> QED BY <1>5, <1>10, <2>1, <2>2, <2>3, SeenBefore
<1>13. SeenSince(x.value, x.begun - Older(1)) /\ SeenSince(x.value, x.begun - Older(2))
  <2>1. /\ x.begun - Older(2) <= x.begun - Older(1) /\ x.begun - Older(1) <= x.begun
        /\ x.begun - Older(1) \in Int /\ x.begun - Older(2) \in Int
    BY <1>5, Bounds
  <2>2. SeenSince(x.value, x.begun - Older(1))
    BY <1>5, <1>10, <2>1, SeenBefore
  <2> QED BY <2>1, <2>2, SeenBefore
<1>14. PICK y : y = [x EXCEPT !.step = to]
  OBVIOUS
<1>15. /\ y \in Reading /\ y.step = to /\ y.begun = x.begun /\ y.value = x.value
       /\ y.level = x.level
  BY <1>5, <1>11, <1>14 DEF Reading
<1>16. to = "derive" => y.level = 2 /\ SeenSince(y.value, y.begun - Older(1))
  BY <1>11, <1>13, <1>15
<1>17. to = "answered" => SeenSince(y.value, y.begun - Older(y.level))
  BY <1>5, <1>13, <1>15, Bounds
<1>18. \A k \in Levels : caches'[k] = caches[k] \/
         SeenSince(caches'[k].value, caches'[k].expires - 1 - Older(k))
  BY <1>7, <1>8, <1>9, <1>12
<1> QED BY <1>5, <1>6, <1>8, <1>11, <1>14, <1>15, <1>16, <1>17, <1>18, RequestGoesOn

(* No step of a request, of the clock or of a cache makes an answer older  *)
(* than its level allows.                                                  *)
LEMMA FreshSteps ==
  ASSUME ReadConstants, FreshInv, [ReadNext]_readVars
  PROVE  FreshInv'
<1> USE DEF FreshInv
<1>1. CASE ReadTick \/ ChangeSource
  BY <1>1, TimePasses
<1>2. CASE Evict
  <2>1. PICK l \in Levels : caches' = [caches EXCEPT ![l] = NotCached]
    BY <1>2 DEF Evict
  <2>2. UNCHANGED <<clock, source, until, reads>>
    BY <1>2 DEF Evict
  <2>3. NotCached \in Entry /\ NotCached.expires = 0
    BY DEF NotCached, Entry
  <2>4. ReadTypes'
    BY <2>1, <2>2, <2>3 DEF ReadTypes
  <2>5. \A k \in Levels : Cached(k)' => Cached(k) /\ caches'[k] = caches[k]
    BY <2>1, <2>2, <2>3 DEF Cached, ReadTypes
  <2>6. CacheInv' /\ ReadInv'
    BY <2>2, <2>5 DEF CacheInv, ReadInv, SeenSince, Older
  <2> QED BY <2>4, <2>6
<1>3. ASSUME NEW r \in Readers, EndRead(r) PROVE FreshInv'
  <2>1. /\ reads' = [reads EXCEPT ![r] = NoRead]
        /\ UNCHANGED <<clock, source, until, caches>>
    BY <1>3 DEF EndRead, On
  <2>2. NoRead \in Reading /\ NoRead.step = "idle"
    BY DEF NoRead, Reading, ReadSteps, Levels
  <2>3. caches' \in [Levels -> Entry]
    BY <2>1 DEF ReadTypes
  <2> QED BY <2>1, <2>2, <2>3, RequestGoesOn
<1>4. CASE UNCHANGED readVars
  BY <1>4 DEF readVars, ReadTypes, CacheInv, ReadInv, SeenSince, Older, Cached
<1> QED BY <1>1, <1>2, <1>3, <1>4, BeginStep, LookStep, FetchStep, StoreStep DEF ReadNext

(* AnswersAreFresh, for any number of requests, any life of a value and    *)
(* any limit on a request: each level of the cache adds a life and a       *)
(* request to the age of what is answered.                                 *)
THEOREM FreshTheorem == ASSUME ReadConstants PROVE ReadSpec => []AnswersAreFresh
<1>1. ReadInit => FreshInv
  <2>1. ASSUME ReadInit PROVE FreshInv
    <3>1. NoRead \in Reading /\ NoRead.step = "idle" /\ NotCached \in Entry
      BY DEF NoRead, Reading, ReadSteps, Levels, NotCached, Entry
    <3>2. ReadTypes
      BY <2>1, <3>1 DEF ReadInit, ReadTypes, ReadConstants
    <3>3. \A l \in Levels : ~Cached(l)
      BY <2>1 DEF ReadInit, Cached, NotCached
    <3> QED BY <2>1, <3>1, <3>2, <3>3 DEF ReadInit, FreshInv, CacheInv, ReadInv
  <2> QED BY <2>1
<1>2. FreshInv /\ [ReadNext]_readVars => FreshInv'
  BY FreshSteps
<1>3. FreshInv => AnswersAreFresh
  <2>1. ASSUME FreshInv, NEW r \in Readers, reads[r].step = "answered"
        PROVE  until[reads[r].value] >=
                 clock - (reads[r].level * (Life - 1) + (reads[r].level + 1) * Limit)
    <3>1. PICK x : x = reads[r]
      OBVIOUS
    <3>2. /\ x.level \in Levels /\ x.begun \in Int /\ clock \in Int
          /\ x.value \in 1..source /\ until[x.value] >= x.begun - Older(x.level)
          /\ clock <= x.begun + Limit
      BY <2>1, <3>1 DEF FreshInv, ReadInv, ReadTypes, Reading, SeenSince
    <3>3. until[x.value] \in Int
      <4>1. source \in 1..LastSource /\ until \in [1..LastSource -> Int]
        BY <2>1 DEF FreshInv, ReadTypes
      <4>2. x.value \in 1..LastSource
        BY <3>2, <4>1 DEF ReadConstants
      <4> QED BY <4>1, <4>2
    <3>4. CASE x.level = 1
      <4>1. x.level * (Life - 1) + (x.level + 1) * Limit = Older(1) + Limit
        BY <3>4, Bounds DEF ReadConstants
      <4> QED BY <3>1, <3>2, <3>3, <3>4, <4>1, Bounds DEF ReadConstants
    <3>5. CASE x.level = 2
      <4>1. x.level * (Life - 1) + (x.level + 1) * Limit = Older(2) + Limit
        BY <3>5, Bounds DEF ReadConstants
      <4> QED BY <3>1, <3>2, <3>3, <3>5, <4>1, Bounds DEF ReadConstants
    <3> QED BY <3>2, <3>4, <3>5, Bounds
  <2> QED BY <2>1 DEF AnswersAreFresh
<1> QED BY <1>1, <1>2, <1>3, PTL DEF ReadSpec

-----------------------------------------------------------------------------
(***************************************************************************)
(* Lists of addresses: what an import that ended has left behind.          *)
(***************************************************************************)
ListSpec == ListInit /\ [][ListNext]_listVars

(* Lines that are not addresses are blank or too long.                     *)
ListConstants ==
  /\ Files \subseteq Seq(Addresses \cup {Blank, TooLong})
  /\ Blank \notin Addresses /\ TooLong \notin Addresses

ImportRecord == [file : Seq(Addresses \cup {Blank, TooLong}), row : Nat]

ListTypes ==
  /\ listed \in BOOLEAN
  /\ members \subseteq Addresses
  /\ importing \in [Imports -> ImportRecord]
  /\ dropped \in [Imports -> SUBSET Addresses]

(* An import has put what it has come past on the list, but for what was   *)
(* removed since it began; with the list went everything.                  *)
Behind(m) ==
  \A n \in DOMAIN importing[m].file :
    n < importing[m].row /\ importing[m].file[n] \in Addresses =>
      importing[m].file[n] \in members \cup dropped[m]

ListInv ==
  /\ ListTypes
  /\ \A m \in Imports : Behind(m)
  /\ ~listed => \A m \in Imports : importing[m].row > 0 => dropped[m] = Addresses
  /\ ListChecksAreRight

(* Removing addresses leaves each of them to what was removed.             *)
LEMMA DropStep ==
  ASSUME ListInv, NEW gone \in SUBSET Addresses, Drop(gone),
         \/ listed' = listed
         \/ gone = Addresses /\ listed' = FALSE
  PROVE  ListInv'
<1> USE DEF ListInv
<1>1. /\ members' = members \ gone /\ importing' = importing
      /\ dropped' = [m \in Imports |-> dropped[m] \cup gone]
      /\ onList' = NoAnswer
  BY DEF Drop
<1>2. ListTypes'
  BY <1>1 DEF ListTypes
<1>3. ASSUME NEW m \in Imports PROVE Behind(m)'
  <2>1. Behind(m) /\ dropped'[m] = dropped[m] \cup gone
    BY <1>1
  <2> QED BY <1>1, <2>1 DEF Behind
<1>4. ASSUME NEW m \in Imports, ~listed', importing'[m].row > 0
      PROVE  dropped'[m] = Addresses
  <2>1. dropped'[m] = dropped[m] \cup gone /\ dropped[m] \subseteq Addresses
    BY <1>1 DEF ListTypes
  <2> QED BY <1>1, <1>4, <2>1
<1>5. ListChecksAreRight'
  BY <1>1 DEF ListChecksAreRight, NoAnswer
<1> QED BY <1>2, <1>3, <1>4, <1>5

(* An import goes on to another row, or ends, and what it passed stays.    *)
LEMMA ImportStep ==
  ASSUME ListInv, NEW m \in Imports, NEW x \in ImportRecord,
         importing' = [importing EXCEPT ![m] = x],
         UNCHANGED <<listed, dropped>>, onList' = NoAnswer,
         members \subseteq members', members' \subseteq Addresses,
         x.row > 0 => importing[m].row > 0,
         \A n \in DOMAIN x.file : n < x.row /\ x.file[n] \in Addresses =>
           x.file[n] \in members' \cup dropped[m]
  PROVE  ListInv'
<1> USE DEF ListInv
<1>1. /\ importing'[m] = x /\ importing' \in [Imports -> ImportRecord]
      /\ \A i \in Imports : i # m => importing'[i] = importing[i]
  BY DEF ListTypes
<1>2. ListTypes'
  BY <1>1 DEF ListTypes
<1>3. ASSUME NEW i \in Imports PROVE Behind(i)'
  <2>1. CASE i = m
    BY <1>1, <2>1 DEF Behind
  <2>2. CASE i # m
    <3>1. Behind(i) /\ importing'[i] = importing[i] /\ dropped'[i] = dropped[i]
      BY <1>1, <2>2
    <3> QED BY <3>1 DEF Behind
  <2> QED BY <2>1, <2>2
<1>4. \A i \in Imports : importing'[i].row > 0 => importing[i].row > 0
  BY <1>1
<1>5. ~listed' => \A i \in Imports : importing'[i].row > 0 => dropped'[i] = Addresses
  BY <1>4
<1>6. ListChecksAreRight'
  BY DEF ListChecksAreRight, NoAnswer
<1> QED BY <1>2, <1>3, <1>5, <1>6

(* An import comes to the next row.                                        *)
LEMMA RowStep ==
  ASSUME ListConstants, ListInv, NEW m \in Imports, ImportRow(m)
  PROVE  ListInv'
<1>1. PICK x : x = importing[m]
  OBVIOUS
<1>2. PICK line : line = x.file[x.row]
  OBVIOUS
<1>3. /\ x \in ImportRecord /\ x.row \in Nat /\ x.row \in DOMAIN x.file
      /\ x.file \in Seq(Addresses \cup {Blank, TooLong})
      /\ line \in Addresses \cup {Blank, TooLong} /\ x.row > 0
  BY <1>1, <1>2 DEF ListInv, ListTypes, ImportRecord, ImportRow, ImportRowOr
<1>4. /\ importing' = [importing EXCEPT ![m] = IF line = Blank THEN Idle
                                               ELSE [@ EXCEPT !.row = x.row + 1]]
      /\ members' = IF line \in {Blank, TooLong} \/ ~listed
                    THEN members ELSE members \cup {line}
      /\ onList' = NoAnswer /\ UNCHANGED <<listed, dropped>>
  BY <1>1, <1>2 DEF ImportRow, ImportRowOr, Current
<1>5. members \subseteq members' /\ members' \subseteq Addresses
  BY <1>3, <1>4 DEF ListInv, ListTypes
<1>6. line \in Addresses => line \in members' \cup dropped[m]
  BY <1>1, <1>3, <1>4 DEF ListConstants, ListInv
<1>7. CASE line = Blank
  <2>0. Idle \in ImportRecord /\ Idle.row = 0 /\ DOMAIN Idle.file = {}
    BY DEF Idle, ImportRecord
  <2>1. PICK y \in ImportRecord : y = Idle /\ y.row = 0 /\ DOMAIN y.file = {}
    BY <2>0
  <2>2. importing' = [importing EXCEPT ![m] = y]
    BY <1>4, <1>7, <2>1
  <2>3. \A n \in DOMAIN y.file : n < y.row /\ y.file[n] \in Addresses =>
          y.file[n] \in members' \cup dropped[m]
    BY <2>1
  <2>4. y.row > 0 => importing[m].row > 0
    BY <2>1
  <2> QED BY <1>4, <1>5, <2>2, <2>3, <2>4, ImportStep
<1>8. CASE line # Blank
  <2>1. PICK y : y = [x EXCEPT !.row = x.row + 1]
    OBVIOUS
  <2>2. y \in ImportRecord /\ y.row = x.row + 1 /\ y.file = x.file
    BY <1>3, <2>1 DEF ImportRecord
  <2>3. importing' = [importing EXCEPT ![m] = y]
    BY <1>1, <1>4, <1>8, <2>1
  <2>4. ASSUME NEW n \in DOMAIN y.file, n < y.row, y.file[n] \in Addresses
        PROVE  y.file[n] \in members' \cup dropped[m]
    <3>1. n \in Nat
      BY <1>3, <2>2, <2>4
    <3>2. n = x.row \/ n < x.row
      BY <1>3, <2>2, <2>4, <3>1
    <3>3. CASE n = x.row
      BY <1>2, <1>6, <2>2, <2>4, <3>3
    <3>4. CASE n < x.row
      BY <1>1, <1>5, <2>2, <2>4, <3>4 DEF ListInv, Behind
    <3> QED BY <3>2, <3>3, <3>4
  <2> QED BY <1>1, <1>3, <1>4, <1>5, <2>2, <2>3, <2>4, ImportStep
<1> QED BY <1>7, <1>8

(* No step of an import, an admin or a check breaks the invariant.         *)
LEMMA ListSteps ==
  ASSUME ListConstants, ListInv, [ListNext]_listVars
  PROVE  ListInv'
<1>1. CASE RemoveMember
  <2>1. PICK a \in members : Drop({a}) /\ listed' = listed
    BY <1>1 DEF RemoveMember
  <2>2. {a} \in SUBSET Addresses
    BY DEF ListInv, ListTypes
  <2> QED BY <2>1, <2>2, DropStep
<1>2. CASE DeleteList
  BY <1>2, DropStep DEF DeleteList
<1>3. CASE CheckAllowList \/ CheckAllowListInRust
  <2>1. UNCHANGED <<listed, members, importing, dropped>>
    BY <1>3 DEF CheckAllowList, CheckAllowListInRust, Check
  <2>2. ASSUME CheckAllowList PROVE ListChecksAreRight'
    <3>1. PICK a \in Addresses : Check(a, TRUE, a \in members)
      BY <2>2 DEF CheckAllowList
    <3>2. PICK t \in BOOLEAN : t <=> a \in members
      OBVIOUS
    <3>3. onList' = [said |-> t, is |-> t, lower |-> TRUE]
      BY <3>1, <3>2 DEF Check
    <3>4. onList'.said = t /\ onList'.is = t
      BY <3>3
    <3> QED BY <3>4 DEF ListChecksAreRight
  <2>3. ASSUME CheckAllowListInRust PROVE ListChecksAreRight'
    <3>1. PICK a \in Addresses, lower \in BOOLEAN :
            Check(a, lower, lower /\ a \in members)
      BY <2>3 DEF CheckAllowListInRust
    <3>2. PICK t \in BOOLEAN, s \in BOOLEAN :
            (t <=> a \in members) /\ (s <=> lower /\ t)
      OBVIOUS
    <3>3. onList' = [said |-> s, is |-> t, lower |-> lower]
      BY <3>1, <3>2 DEF Check
    <3>4. onList'.said = s /\ onList'.is = t /\ onList'.lower = lower
      BY <3>3
    <3> QED BY <3>2, <3>4 DEF ListChecksAreRight
  <2>4. ListChecksAreRight'
    BY <1>3, <2>2, <2>3
  <2> QED BY <2>1, <2>4 DEF ListInv, ListTypes, Behind
<1>4. ASSUME NEW m \in Imports, StartImport(m) PROVE ListInv'
  <2>1. PICK file \in Files :
          importing' = [importing EXCEPT ![m] = [file |-> file, row |-> 1]]
    BY <1>4 DEF StartImport
  <2>2. PICK x : x = [file |-> file, row |-> 1]
    OBVIOUS
  <2>3. x \in ImportRecord /\ x.row = 1 /\ x.file = file
    BY <2>2 DEF ListConstants, ImportRecord
  <2>4. /\ importing' = [importing EXCEPT ![m] = x] /\ listed /\ listed' = listed
        /\ members' = members /\ onList' = NoAnswer
        /\ dropped' = [dropped EXCEPT ![m] = {}]
    BY <1>4, <2>1, <2>2 DEF StartImport
  <2>5. /\ importing'[m] = x
        /\ \A i \in Imports : i # m => importing'[i] = importing[i] /\ dropped'[i] = dropped[i]
    BY <2>4 DEF ListInv, ListTypes
  <2>6. ListTypes'
    BY <2>3, <2>4 DEF ListInv, ListTypes
  <2>7. ASSUME NEW i \in Imports PROVE Behind(i)'
    <3>1. CASE i = m
      <4>1. DOMAIN x.file \subseteq Nat \ {0}
        BY <2>3 DEF ImportRecord
      <4> QED BY <2>3, <2>5, <3>1, <4>1 DEF Behind
    <3>2. CASE i # m
      <4>1. Behind(i)
        BY DEF ListInv
      <4> QED BY <2>4, <2>5, <3>2, <4>1 DEF Behind
    <3> QED BY <3>1, <3>2
  <2>8. ListChecksAreRight'
    BY <2>4 DEF ListChecksAreRight, NoAnswer
  <2> QED BY <2>4, <2>6, <2>7, <2>8 DEF ListInv
<1>5. ASSUME NEW m \in Imports, ReportImport(m) \/ ImportDies(m) PROVE ListInv'
  <2>1. Idle \in ImportRecord /\ Idle.row = 0 /\ DOMAIN Idle.file = {}
    BY DEF Idle, ImportRecord
  <2> QED BY <1>5, <2>1, ImportStep DEF ReportImport, ImportDies, ListInv, ListTypes
<1>6. CASE UNCHANGED listVars
  BY <1>6 DEF listVars, ListInv, ListTypes, Behind, ListChecksAreRight
<1> QED BY <1>1, <1>2, <1>3, <1>4, <1>5, <1>6, RowStep DEF ListNext

(* The invariant of the lists, for any number of imports of any files.     *)
THEOREM ListInvariance == ASSUME ListConstants PROVE ListSpec => []ListInv
<1>1. ListInit => ListInv
  <2>1. Idle \in ImportRecord /\ Idle.row = 0 /\ DOMAIN Idle.file = {}
    BY DEF Idle, ImportRecord
  <2> QED BY <2>1 DEF ListInit, ListInv, ListTypes, Behind, ListChecksAreRight, NoAnswer
<1>2. ListInv /\ [ListNext]_listVars => ListInv'
  BY ListSteps
<1> QED BY <1>1, <1>2, PTL DEF ListSpec

(* ImportsAreWhole, for any number of imports of any files: an import that *)
(* comes to its end has left no address behind, though rows that are there *)
(* or fail are passed over, others import the same rows, and rows or the   *)
(* list are deleted meanwhile.                                             *)
THEOREM ImportsTheorem == ASSUME ListConstants PROVE ListSpec => []ImportsAreWhole
<1>1. ListInv => ImportsAreWhole
  <2>1. ASSUME ListInv, NEW m \in Imports, importing[m].row = Over(m),
               NEW n \in DOMAIN importing[m].file, importing[m].file[n] \in Addresses
        PROVE  importing[m].file[n] \in members \cup dropped[m]
    <3>1. importing[m].file \in Seq(Addresses \cup {Blank, TooLong})
      BY <2>1 DEF ListInv, ListTypes, ImportRecord
    <3>2. n < importing[m].row
      BY <2>1, <3>1 DEF Over
    <3> QED BY <2>1, <3>2 DEF ListInv, Behind
  <2> QED BY <2>1 DEF ImportsAreWhole
<1> QED BY <1>1, ListInvariance, PTL

(* ListChecksAreRight, for any number of imports and addresses.            *)
THEOREM ListChecksTheorem ==
  ASSUME ListConstants PROVE ListSpec => []ListChecksAreRight
<1>1. ListInv => ListChecksAreRight
  BY DEF ListInv
<1> QED BY <1>1, ListInvariance, PTL

-----------------------------------------------------------------------------
(***************************************************************************)
(* Sums over finite sets, which MapThenSumSet takes recursively: what is   *)
(* true of all finite sets is proved from a smallest counterexample.       *)
(***************************************************************************)
Pick(s) == CHOOSE x \in s : TRUE
IsTotal(g, F, S) ==
  g = [s \in SUBSET S |-> IF s = {} THEN 0 ELSE F[Pick(s)] + g[s \ {Pick(s)}]]
Totals(F, S) == CHOOSE g : IsTotal(g, F, S)
Total(F, S) == Totals(F, S)[S]

(* Of some subsets of a finite set one has none of the others in it.       *)
LEMMA SmallestSet ==
  ASSUME NEW S, IsFiniteSet(S), NEW Bad \in SUBSET SUBSET S, Bad # {}
  PROVE  \E T \in Bad : \A U \in Bad : U \subseteq T => U = T
<1>1. Bad \in SUBSET FiniteSubsetsOf(S)
  BY FS_Subset DEF FiniteSubsetsOf
<1>2. PICK T \in Bad : \A U \in Bad : <<U, T>> \notin StrictSubsetOrdering(S)
  BY <1>1, FS_StrictSubsetOrderingWellFounded, WFMin
<1>3. ASSUME NEW U \in Bad, U \subseteq T, U # T PROVE FALSE
  BY <1>1, <1>2, <1>3 DEF StrictSubsetOrdering, FiniteSubsetsOf
<1> QED BY <1>3

(* What is picked of a set is in it.                                       *)
LEMMA PickIs ==
  ASSUME NEW s, s # {}
  PROVE  Pick(s) \in s
BY DEF Pick

(* Two ways to sum agree on the sets that both sum.                        *)
LEMMA TotalsAgree ==
  ASSUME NEW S, IsFiniteSet(S), NEW T \in SUBSET S, NEW F, NEW g, NEW h,
         IsTotal(g, F, S), IsTotal(h, F, T)
  PROVE  \A s \in SUBSET T : g[s] = h[s]
<1> SUFFICES ASSUME ~\A s \in SUBSET T : g[s] = h[s]
             PROVE  FALSE
  OBVIOUS
<1>1. PICK Bad : Bad = {s \in SUBSET T : g[s] # h[s]}
  OBVIOUS
<1>2. IsFiniteSet(T)
  BY FS_Subset
<1>3. PICK s \in Bad : \A U \in Bad : U \subseteq s => U = s
  BY <1>1, <1>2, SmallestSet
<1>4. s \in SUBSET T /\ s \in SUBSET S /\ g[s] # h[s]
  BY <1>1, <1>3
<1>5. /\ g[s] = IF s = {} THEN 0 ELSE F[Pick(s)] + g[s \ {Pick(s)}]
      /\ h[s] = IF s = {} THEN 0 ELSE F[Pick(s)] + h[s \ {Pick(s)}]
  BY <1>4 DEF IsTotal
<1>6. s # {}
  BY <1>4, <1>5
<1>7. PICK u : u = s \ {Pick(s)}
  OBVIOUS
<1>8. u \subseteq s /\ u # s /\ u \in SUBSET T
  BY <1>4, <1>6, <1>7, PickIs
<1>9. g[u] = h[u]
  BY <1>1, <1>3, <1>8
<1> QED BY <1>4, <1>5, <1>6, <1>7, <1>9

(* There is a way to sum every finite set.                                 *)
LEMMA TotalsExist ==
  ASSUME NEW S, IsFiniteSet(S), NEW F
  PROVE  \E g : IsTotal(g, F, S)
<1> SUFFICES ASSUME ~\E g : IsTotal(g, F, S)
             PROVE  FALSE
  OBVIOUS
<1>1. PICK Bad : Bad = {T \in SUBSET S : ~\E g : IsTotal(g, F, T)}
  OBVIOUS
<1>0. Bad \in SUBSET SUBSET S /\ S \in Bad
  BY <1>1
<1>2. PICK T \in Bad : \A U \in Bad : U \subseteq T => U = T
  BY <1>0, SmallestSet
<1>3. T \in SUBSET S /\ ~\E g : IsTotal(g, F, T)
  BY <1>1, <1>2
<1>4. ASSUME NEW u \in SUBSET T, u # T PROVE IsTotal(Totals(F, u), F, u)
  <2>1. \E g : IsTotal(g, F, u)
    BY <1>1, <1>2, <1>3, <1>4
  <2> QED BY <2>1 DEF Totals
<1>5. PICK G : G = [u \in SUBSET T |-> Totals(F, u)[u]]
  OBVIOUS
<1>6. PICK g : g = [s \in SUBSET T |-> IF s = {} THEN 0
                                       ELSE F[Pick(s)] + G[s \ {Pick(s)}]]
  OBVIOUS
<1>7. ASSUME NEW s \in SUBSET T, s # {} PROVE g[s \ {Pick(s)}] = G[s \ {Pick(s)}]
  <2>1. PICK u : u = s \ {Pick(s)}
    OBVIOUS
  <2>2. u \in SUBSET T /\ u # T /\ u \in SUBSET S /\ IsFiniteSet(u)
    BY <1>3, <1>7, <2>1, PickIs, FS_Subset
  <2>3. g[u] = IF u = {} THEN 0 ELSE F[Pick(u)] + G[u \ {Pick(u)}]
    BY <1>6, <2>2
  <2>4. PICK h : h = Totals(F, u)
    OBVIOUS
  <2>5. IsTotal(h, F, u)
    BY <1>4, <2>2, <2>4
  <2>6. G[u] = IF u = {} THEN 0 ELSE F[Pick(u)] + h[u \ {Pick(u)}]
    BY <1>5, <2>2, <2>4, <2>5 DEF IsTotal
  <2>7. CASE u = {}
    BY <2>1, <2>3, <2>6, <2>7
  <2>8. CASE u # {}
    <3>1. PICK v : v = u \ {Pick(u)}
      OBVIOUS
    <3>2. v \in SUBSET u /\ v \in SUBSET T /\ v # T
      BY <2>2, <2>8, <3>1, PickIs
    <3>3. IsTotal(Totals(F, v), F, v)
      BY <1>4, <3>2
    <3>4. h[v] = Totals(F, v)[v]
      BY <2>2, <2>5, <3>2, <3>3, TotalsAgree
    <3>5. G[v] = h[v]
      BY <1>5, <3>2, <3>4
    <3> QED BY <2>1, <2>3, <2>6, <2>8, <3>1, <3>5
  <2> QED BY <2>7, <2>8
<1>8. IsTotal(g, F, T)
  BY <1>6, <1>7 DEF IsTotal
<1> QED BY <1>3, <1>8

(* The sum of nothing is 0; that of a set adds an element to the sum of    *)
(* the others.                                                             *)
LEMMA TotalIs ==
  ASSUME NEW S, IsFiniteSet(S), NEW F
  PROVE  Total(F, S) = IF S = {} THEN 0 ELSE F[Pick(S)] + Total(F, S \ {Pick(S)})
<1>1. PICK g : g = Totals(F, S)
  OBVIOUS
<1>2. IsTotal(g, F, S)
  BY <1>1, TotalsExist DEF Totals
<1>3. g[S] = IF S = {} THEN 0 ELSE F[Pick(S)] + g[S \ {Pick(S)}]
  BY <1>2 DEF IsTotal
<1>4. PICK u : u = S \ {Pick(S)}
  OBVIOUS
<1>5. u \in SUBSET S /\ IsFiniteSet(u)
  BY <1>4, FS_Subset
<1>6. IsTotal(Totals(F, u), F, u)
  BY <1>5, TotalsExist DEF Totals
<1>7. g[u] = Totals(F, u)[u]
  BY <1>2, <1>5, <1>6, TotalsAgree
<1> QED BY <1>1, <1>3, <1>4, <1>7 DEF Total

(* A sum of integers is one.                                               *)
LEMMA TotalInt ==
  ASSUME NEW S, IsFiniteSet(S), NEW F, \A x \in S : F[x] \in Int
  PROVE  Total(F, S) \in Int
<1> SUFFICES ASSUME Total(F, S) \notin Int
             PROVE  FALSE
  OBVIOUS
<1>1. PICK Bad : Bad = {T \in SUBSET S : Total(F, T) \notin Int}
  OBVIOUS
<1>2. PICK T \in Bad : \A U \in Bad : U \subseteq T => U = T
  BY <1>1, SmallestSet
<1>3. T \in SUBSET S /\ Total(F, T) \notin Int /\ IsFiniteSet(T)
  BY <1>1, <1>2, FS_Subset
<1>4. PICK u : u = T \ {Pick(T)}
  OBVIOUS
<1>5. Total(F, T) = IF T = {} THEN 0 ELSE F[Pick(T)] + Total(F, u)
  BY <1>3, <1>4, TotalIs
<1>6. T # {}
  BY <1>3, <1>5
<1>7. Pick(T) \in T /\ u \subseteq T /\ u # T
  BY <1>4, <1>6, PickIs
<1>8. Total(F, u) \in Int
  BY <1>1, <1>2, <1>3, <1>7
<1>9. F[Pick(T)] \in Int
  BY <1>3, <1>7
<1> QED BY <1>3, <1>5, <1>6, <1>8, <1>9

(* Any element may be added last.                                          *)
LEMMA TotalRemove ==
  ASSUME NEW S, IsFiniteSet(S), NEW F, \A x \in S : F[x] \in Int, NEW x \in S
  PROVE  Total(F, S) = F[x] + Total(F, S \ {x})
<1> SUFFICES ASSUME Total(F, S) # F[x] + Total(F, S \ {x})
             PROVE  FALSE
  OBVIOUS
<1>1. PICK Bad : Bad = {T \in SUBSET S : \E y \in T : Total(F, T) # F[y] + Total(F, T \ {y})}
  OBVIOUS
<1>0. Bad \in SUBSET SUBSET S /\ S \in Bad
  BY <1>1
<1>2. PICK T \in Bad : \A U \in Bad : U \subseteq T => U = T
  BY <1>0, SmallestSet
<1>3. PICK y \in T : Total(F, T) # F[y] + Total(F, T \ {y})
  BY <1>1, <1>2
<1>4. T \in SUBSET S /\ IsFiniteSet(T) /\ T # {}
  BY <1>1, <1>2, <1>3, FS_Subset
<1>5. PICK p \in T : p = Pick(T)
  BY <1>4, PickIs
<1>6. Total(F, T) = F[p] + Total(F, T \ {p})
  BY <1>4, <1>5, TotalIs
<1>7. y # p
  BY <1>3, <1>6
<1>8. \A U \in SUBSET T : U # T => \A z \in U : Total(F, U) = F[z] + Total(F, U \ {z})
  BY <1>1, <1>2, <1>4
<1>9. PICK rest : rest = T \ {p, y}
  OBVIOUS
<1>10. (T \ {p}) \ {y} = rest /\ (T \ {y}) \ {p} = rest
  BY <1>9
<1>11. Total(F, T \ {p}) = F[y] + Total(F, rest)
  BY <1>3, <1>5, <1>7, <1>8, <1>10
<1>12. Total(F, T \ {y}) = F[p] + Total(F, rest)
  BY <1>3, <1>5, <1>7, <1>8, <1>10
<1>13. F[p] \in Int /\ F[y] \in Int /\ Total(F, rest) \in Int
  <2>1. rest \in SUBSET S /\ IsFiniteSet(rest)
    BY <1>4, <1>9, FS_Subset
  <2>2. Total(F, rest) \in Int
    BY <2>1, TotalInt
  <2> QED BY <1>3, <1>4, <1>5, <2>2
<1> QED BY <1>3, <1>6, <1>11, <1>12, <1>13

(* One to one, the sums are the same.                                      *)
LEMMA TotalRenamed ==
  ASSUME NEW A, IsFiniteSet(A), NEW F, NEW G, NEW f, \A a \in A : F[a] \in Int,
         \A a, b \in A : f[a] = f[b] => a = b, \A a \in A : G[f[a]] = F[a]
  PROVE  Total(F, A) = Total(G, {f[a] : a \in A})
<1> DEFINE Of(s) == {f[a] : a \in s}
<1> SUFFICES ASSUME Total(F, A) # Total(G, Of(A))
             PROVE  FALSE
  OBVIOUS
<1>1. PICK Bad : Bad = {s \in SUBSET A : Total(F, s) # Total(G, Of(s))}
  OBVIOUS
<1>2. Bad \in SUBSET SUBSET A /\ A \in Bad
  BY <1>1
<1>3. PICK s \in Bad : \A U \in Bad : U \subseteq s => U = s
  BY <1>2, SmallestSet
<1>4. s \in SUBSET A /\ IsFiniteSet(s) /\ Total(F, s) # Total(G, Of(s))
  BY <1>1, <1>3, FS_Subset
<1>5. s # {}
  <2>1. ASSUME s = {} PROVE FALSE
    <3>1. Of(s) = {} /\ IsFiniteSet({})
      BY <2>1, FS_EmptySet
    <3>2. Total(F, {}) = 0 /\ Total(G, {}) = 0
      BY <3>1, TotalIs
    <3> QED BY <1>4, <2>1, <3>1, <3>2
  <2> QED BY <2>1
<1>6. PICK a \in s : TRUE
  BY <1>5
<1>7. PICK u : u = s \ {a}
  OBVIOUS
<1>8. u \in SUBSET A /\ u \subseteq s /\ u # s
  BY <1>4, <1>6, <1>7
<1>9. Total(F, u) = Total(G, Of(u))
  BY <1>1, <1>3, <1>8
<1>10. Total(F, s) = F[a] + Total(F, u)
  <2>1. \A x \in s : F[x] \in Int
    BY <1>4
  <2> QED BY <1>4, <1>6, <1>7, <2>1, TotalRemove
<1>11. Total(G, Of(s)) = G[f[a]] + Total(G, Of(u))
  <2>1. IsFiniteSet(Of(s))
    <3>1. PICK e : e = [b \in s |-> f[b]]
      OBVIOUS
    <3>2. e \in Surjection(s, Of(s))
      BY <3>1 DEF Surjection
    <3> QED BY <1>4, <3>2, FS_Surjection
  <2>2. f[a] \in Of(s) /\ \A x \in Of(s) : G[x] \in Int
    BY <1>4, <1>6
  <2>3. Of(s) \ {f[a]} = Of(u)
    BY <1>4, <1>6, <1>7
  <2>4. PICK these : these = Of(s)
    OBVIOUS
  <2>5. PICK y : y = f[a]
    OBVIOUS
  <2>6. Total(G, these) = G[y] + Total(G, these \ {y})
    BY <2>1, <2>2, <2>4, <2>5, TotalRemove
  <2> QED BY <2>3, <2>4, <2>5, <2>6
<1> QED BY <1>4, <1>6, <1>9, <1>10, <1>11

(* What is nowhere greater, over fewer elements, has no greater sum.       *)
LEMMA TotalLess ==
  ASSUME NEW S, IsFiniteSet(S), NEW F, NEW G, NEW T \in SUBSET S,
         \A x \in S : G[x] \in Nat, \A x \in T : F[x] \in Int /\ F[x] <= G[x]
  PROVE  Total(F, T) <= Total(G, S)
<1> SUFFICES ASSUME ~(Total(F, T) <= Total(G, S))
             PROVE  FALSE
  OBVIOUS
<1>1. PICK Bad : Bad = {s \in SUBSET S : ~(Total(F, s \cap T) <= Total(G, s))}
  OBVIOUS
<1>2. Bad \in SUBSET SUBSET S /\ S \in Bad
  <2>1. S \cap T = T
    OBVIOUS
  <2> QED BY <1>1, <2>1
<1>3. PICK s \in Bad : \A U \in Bad : U \subseteq s => U = s
  BY <1>2, SmallestSet
<1>4. /\ s \in SUBSET S /\ IsFiniteSet(s) /\ IsFiniteSet(s \cap T)
      /\ ~(Total(F, s \cap T) <= Total(G, s))
  BY <1>1, <1>3, FS_Subset
<1>5. s # {}
  <2>1. ASSUME s = {} PROVE FALSE
    <3>1. s \cap T = {} /\ IsFiniteSet({})
      BY <2>1, FS_EmptySet
    <3>2. Total(F, {}) = 0 /\ Total(G, {}) = 0
      BY <3>1, TotalIs
    <3> QED BY <1>4, <2>1, <3>1, <3>2
  <2> QED BY <2>1
<1>6. PICK a \in s : TRUE
  BY <1>5
<1>7. PICK u : u = s \ {a}
  OBVIOUS
<1>8. u \in SUBSET S /\ u \subseteq s /\ u # s /\ IsFiniteSet(u) /\ IsFiniteSet(u \cap T)
  BY <1>4, <1>6, <1>7, FS_Subset
<1>9. Total(F, u \cap T) <= Total(G, u)
  BY <1>1, <1>3, <1>8
<1>10. /\ \A x \in s : G[x] \in Int
       /\ \A x \in s \cap T : F[x] \in Int
  BY <1>4
<1>11. Total(G, u) \in Int /\ Total(F, u \cap T) \in Int
  BY <1>7, <1>8, <1>10, TotalInt
<1>12. Total(G, s) = G[a] + Total(G, u)
  BY <1>4, <1>6, <1>7, <1>10, TotalRemove
<1>13. G[a] \in Nat
  BY <1>4, <1>6
<1>14. CASE a \in T
  <2>1. PICK these : these = s \cap T
    OBVIOUS
  <2>2. a \in these /\ IsFiniteSet(these) /\ \A x \in these : F[x] \in Int
    BY <1>4, <1>6, <1>10, <1>14, <2>1
  <2>3. Total(F, these) = F[a] + Total(F, these \ {a})
    BY <2>2, TotalRemove
  <2>4. these \ {a} = u \cap T
    BY <1>7, <2>1
  <2>5. F[a] \in Int /\ F[a] <= G[a]
    BY <1>14
  <2>6. Total(F, s \cap T) = F[a] + Total(F, u \cap T)
    BY <2>1, <2>3, <2>4
  <2> QED BY <1>4, <1>9, <1>11, <1>12, <1>13, <2>5, <2>6
<1>15. CASE a \notin T
  <2>1. s \cap T = u \cap T
    BY <1>7, <1>15
  <2> QED BY <1>4, <1>9, <1>11, <1>12, <1>13, <2>1
<1> QED BY <1>14, <1>15

-----------------------------------------------------------------------------
(***************************************************************************)
(* Weighing: what a stamp weighs, while weights and customizations change, *)
(* and what the weights of the stamps amount to.                           *)
(***************************************************************************)
WeighSpec == WeighInit /\ [][WeighNext]_weighVars

(* What deduplication keeps are sequences of stamps, and weights numbers.   *)
Stamp == [provider : Providers, expires : Nat]
Weights(w) == \A p \in Providers : w[p] \in Nat
WeighConstants ==
  KeptStamps \subseteq Seq(Stamp) /\ CustomWeight \in Nat /\ \A w \in WeightSets : Weights(w)

(* Of some numbers one is the smallest.                                    *)
LEMMA SmallestNumber ==
  ASSUME NEW S \in SUBSET Nat, S # {}
  PROVE  \E m \in S : \A n \in S : m <= n
<1> DEFINE T == {1..m : m \in S}
<1>1. T \in SUBSET FiniteSubsetsOf(Nat) /\ T # {}
  <2>1. \A m \in S : 1..m \in SUBSET Nat /\ IsFiniteSet(1..m)
    BY FS_Interval
  <2> QED BY <2>1 DEF FiniteSubsetsOf
<1>2. PICK x \in T : \A y \in T : <<y, x>> \notin StrictSubsetOrdering(Nat)
  BY <1>1, FS_StrictSubsetOrderingWellFounded, WFMin
<1>3. PICK m \in S : x = 1..m
  OBVIOUS
<1>4. ASSUME NEW n \in S, n < m PROVE FALSE
  <2>1. 1..n \subseteq 1..m /\ m \in 1..m /\ m \notin 1..n
    BY <1>4
  <2>2. <<1..n, x>> \in StrictSubsetOrdering(Nat)
    BY <1>3, <2>1 DEF StrictSubsetOrdering
  <2> QED BY <1>2, <2>2
<1> QED BY <1>4

(* One stamp of each provider counts.                                      *)
LEMMA OneCounts ==
  ASSUME NEW kept \in Seq(Stamp)
  PROVE  /\ Counted(kept) \subseteq DOMAIN kept /\ IsFiniteSet(DOMAIN kept)
         /\ \A i \in DOMAIN kept : kept[i] \in Stamp
         /\ ProvidersOf(kept) \subseteq Providers
         /\ \A p \in ProvidersOf(kept) : \E i \in Counted(kept) : kept[i].provider = p
         /\ \A i, j \in Counted(kept) : kept[i].provider = kept[j].provider => i = j
         /\ Repeated(kept) = {} => Counted(kept) = DOMAIN kept
<1>1. DOMAIN kept = 1..Len(kept) /\ Len(kept) \in Nat
  OBVIOUS
<1>2. Counted(kept) \subseteq DOMAIN kept /\ IsFiniteSet(DOMAIN kept)
  BY <1>1, FS_Interval DEF Counted
<1>3. \A i \in DOMAIN kept : kept[i] \in Stamp
  OBVIOUS
<1>4. ProvidersOf(kept) \subseteq Providers
  BY <1>3 DEF ProvidersOf, Stamp
<1>5. ASSUME NEW p \in ProvidersOf(kept) PROVE \E i \in Counted(kept) : kept[i].provider = p
  <2>1. PICK S : S = {i \in DOMAIN kept : kept[i].provider = p}
    OBVIOUS
  <2>2. S \in SUBSET Nat /\ S # {}
    BY <1>1, <1>5, <2>1 DEF ProvidersOf
  <2>3. PICK i \in S : \A j \in S : i <= j
    BY <2>2, SmallestNumber
  <2>4. i \in DOMAIN kept /\ kept[i].provider = p
    BY <2>1
  <2>5. ASSUME NEW j \in 1..(i - 1) PROVE kept[j].provider # p
    <3>1. j \in DOMAIN kept /\ ~(i <= j)
      BY <1>1, <2>4, <2>5
    <3> QED BY <2>1, <2>3, <3>1
  <2> QED BY <2>4, <2>5 DEF Counted
<1>6. ASSUME NEW i \in Counted(kept), NEW j \in Counted(kept),
             kept[i].provider = kept[j].provider, i # j
      PROVE  FALSE
  <2>1. i \in Nat /\ j \in Nat /\ i >= 1 /\ j >= 1
    BY <1>1, <1>2
  <2>2. j \in 1..(i - 1) \/ i \in 1..(j - 1)
    BY <1>6, <2>1
  <2> QED BY <1>6, <2>2 DEF Counted
<1>7. ASSUME Repeated(kept) = {} PROVE Counted(kept) = DOMAIN kept
  BY <1>2, <1>7 DEF Repeated
<1> QED BY <1>2, <1>3, <1>4, <1>5, <1>6, <1>7

(* The stamp of a provider that counts.                                    *)
LEMMA CountedOfIs ==
  ASSUME NEW kept \in Seq(Stamp), NEW p \in ProvidersOf(kept)
  PROVE  \E i \in Counted(kept) : kept[i].provider = p /\ CountedOf(kept, p) = kept[i]
BY OneCounts DEF CountedOf

(* A sum over the stamps that count is one over their providers.           *)
LEMMA SumIs ==
  ASSUME NEW kept \in Seq(Stamp), NEW w, Weights(w)
  PROVE  /\ IsFiniteSet(ProvidersOf(kept))
         /\ SumOfWeights(w, kept) = Total([p \in Providers |-> w[p]], ProvidersOf(kept))
<1>1. PICK f : f = [i \in DOMAIN kept |-> kept[i].provider]
  OBVIOUS
<1>2. PICK F : F = [i \in DOMAIN kept |-> w[kept[i].provider]]
  OBVIOUS
<1>3. PICK G : G = [p \in Providers |-> w[p]]
  OBVIOUS
<1>4. PICK A \in SUBSET DOMAIN kept : A = Counted(kept)
  BY OneCounts
<1>5. IsFiniteSet(A)
  BY OneCounts, FS_Subset
<1>6. SumOfWeights(w, kept) = Total(F, A)
  <2>1. \A s \in SUBSET A : s # {} => Pick(s) \in DOMAIN kept
    BY DEF Pick
  <2>2. MapThenSumSet(LAMBDA i : w[kept[i].provider], A)
          = Total([i \in DOMAIN kept |-> w[kept[i].provider]], A)
    BY ZenonT(60) DEF MapThenSumSet, MapThenFoldSet, Total, Totals, IsTotal, Pick
  <2>3. SumOfWeights(w, kept) = MapThenSumSet(LAMBDA i : w[kept[i].provider], A)
    BY <1>4 DEF SumOfWeights
  <2> QED BY <1>2, <2>2, <2>3
<1>7. \A i \in A : f[i] \in Providers /\ F[i] \in Int /\ G[f[i]] = F[i]
  <2>1. ASSUME NEW i \in A PROVE f[i] \in Providers /\ F[i] \in Int /\ G[f[i]] = F[i]
    <3>1. kept[i].provider \in Providers
      BY OneCounts DEF Stamp
    <3> QED BY <1>1, <1>2, <1>3, <3>1 DEF Weights
  <2> QED BY <2>1
<1>8. \A i, j \in A : f[i] = f[j] => i = j
  BY <1>1, <1>4, OneCounts
<1>9. Total(F, A) = Total(G, {f[i] : i \in A})
  BY <1>5, <1>7, <1>8, TotalRenamed
<1>10. {f[i] : i \in A} = ProvidersOf(kept)
  <2>1. \A i \in A : f[i] \in ProvidersOf(kept)
    BY <1>1 DEF ProvidersOf
  <2>2. ASSUME NEW p \in ProvidersOf(kept) PROVE \E i \in A : f[i] = p
    BY <1>1, <1>4, <2>2, OneCounts
  <2> QED BY <2>1, <2>2
<1>11. IsFiniteSet({f[i] : i \in A})
  <2>1. PICK e : e = [i \in A |-> f[i]]
    OBVIOUS
  <2>2. e \in Surjection(A, {f[i] : i \in A})
    BY <2>1 DEF Surjection
  <2> QED BY <1>5, <2>2, FS_Surjection
<1> QED BY <1>3, <1>6, <1>9, <1>10, <1>11

(* In another order the stamps are the same, and no other providers have   *)
(* two of them.                                                            *)
LEMMA OrderIs ==
  ASSUME NEW kept \in Seq(Stamp), NEW order \in Orders(kept)
  PROVE  /\ order \in Seq(Stamp) /\ DOMAIN order = DOMAIN kept
         /\ ProvidersOf(order) = ProvidersOf(kept) /\ Repeated(order) \subseteq Repeated(kept)
         /\ \A i \in DOMAIN kept : \E j \in DOMAIN kept : order[i] = kept[j]
         /\ \A j \in DOMAIN kept : \E i \in DOMAIN kept : order[i] = kept[j]
<1>1. PICK f \in Bijection(DOMAIN kept, DOMAIN kept) :
        order = [i \in DOMAIN kept |-> kept[f[i]]]
  BY DEF Orders
<1>2. /\ f \in [DOMAIN kept -> DOMAIN kept]
      /\ \A i, j \in DOMAIN kept : f[i] = f[j] => i = j
      /\ \A j \in DOMAIN kept : \E i \in DOMAIN kept : f[i] = j
  BY <1>1 DEF Bijection, Injection, Surjection, IsInjective
<1>3. DOMAIN kept = 1..Len(kept) /\ Len(kept) \in Nat
  OBVIOUS
<1>4. /\ order \in Seq(Stamp) /\ DOMAIN order = DOMAIN kept
      /\ \A i \in DOMAIN kept : \E j \in DOMAIN kept : order[i] = kept[j]
      /\ \A j \in DOMAIN kept : \E i \in DOMAIN kept : order[i] = kept[j]
  <2>1. \A i \in DOMAIN kept : f[i] \in DOMAIN kept /\ order[i] = kept[f[i]]
    BY <1>1, <1>2
  <2>2. order \in [1..Len(kept) -> Stamp]
    BY <1>1, <1>3, <2>1
  <2> QED BY <1>2, <1>3, <2>1, <2>2
<1>5. ProvidersOf(order) = ProvidersOf(kept)
  <2>1. ASSUME NEW p \in ProvidersOf(order) PROVE p \in ProvidersOf(kept)
    <3>1. PICK i \in DOMAIN order : order[i].provider = p
      BY <2>1 DEF ProvidersOf
    <3>2. PICK j \in DOMAIN kept : order[i] = kept[j]
      BY <1>4
    <3> QED BY <3>1, <3>2 DEF ProvidersOf
  <2>2. ASSUME NEW p \in ProvidersOf(kept) PROVE p \in ProvidersOf(order)
    <3>1. PICK j \in DOMAIN kept : kept[j].provider = p
      BY <2>2 DEF ProvidersOf
    <3>2. PICK i \in DOMAIN order : order[i] = kept[j]
      BY <1>4
    <3> QED BY <3>1, <3>2 DEF ProvidersOf
  <2> QED BY <2>1, <2>2
<1>6. ASSUME NEW p \in Repeated(order) PROVE p \in Repeated(kept)
  <2>1. PICK i \in DOMAIN order \ Counted(order) : order[i].provider = p
    BY <1>6 DEF Repeated
  <2>2. PICK j \in 1..(i - 1) : order[j].provider = order[i].provider
    BY <2>1 DEF Counted
  <2>3. i \in 1..Len(kept) /\ j \in 1..Len(kept) /\ i # j
    BY <1>1, <1>3, <2>1, <2>2
  <2>4. /\ f[i] \in 1..Len(kept) /\ f[j] \in 1..Len(kept) /\ f[i] # f[j]
        /\ kept[f[i]].provider = p /\ kept[f[j]].provider = p
    BY <1>1, <1>2, <1>3, <2>1, <2>2, <2>3
  <2>5. ASSUME NEW m \in 1..Len(kept), NEW n \in 1..Len(kept), n < m,
               kept[m].provider = p, kept[n].provider = p
        PROVE  p \in Repeated(kept)
    <3>1. n \in 1..(m - 1)
      BY <1>3, <2>5
    <3>2. m \in DOMAIN kept \ Counted(kept)
      BY <1>3, <2>5, <3>1 DEF Counted
    <3> QED BY <2>5, <3>2 DEF Repeated
  <2>6. CASE f[i] < f[j]
    BY <2>4, <2>5, <2>6
  <2>7. CASE f[j] < f[i]
    BY <2>4, <2>5, <2>7
  <2> QED BY <1>3, <2>4, <2>6, <2>7
<1> QED BY <1>4, <1>5, <1>6

(* Without repeated stamps, the one of a provider is the only one.         *)
LEMMA PlainIs ==
  ASSUME NEW kept \in Seq(Stamp), Repeated(kept) = {}
  PROVE  /\ \A i \in DOMAIN kept : CountedOf(kept, kept[i].provider) = kept[i]
         /\ {kept[i].expires : i \in Counted(kept)}
              = {CountedOf(kept, p).expires : p \in ProvidersOf(kept)}
<1>1. Counted(kept) = DOMAIN kept
  BY OneCounts
<1>2. ASSUME NEW i \in DOMAIN kept PROVE CountedOf(kept, kept[i].provider) = kept[i]
  <2>1. kept[i].provider \in ProvidersOf(kept)
    BY DEF ProvidersOf
  <2>2. PICK j \in Counted(kept) : /\ kept[j].provider = kept[i].provider
                                   /\ CountedOf(kept, kept[i].provider) = kept[j]
    BY <2>1, CountedOfIs
  <2>3. i = j
    BY <1>1, <2>2, OneCounts
  <2> QED BY <2>2, <2>3
<1>3. \A i \in Counted(kept) : \E p \in ProvidersOf(kept) :
        kept[i].expires = CountedOf(kept, p).expires
  BY <1>1, <1>2 DEF ProvidersOf
<1>4. \A p \in ProvidersOf(kept) : \E i \in Counted(kept) :
        kept[i].expires = CountedOf(kept, p).expires
  BY CountedOfIs
<1> QED BY <1>2, <1>3, <1>4

(* The order of stamps without repetition makes no difference.             *)
LEMMA PlainOrder ==
  ASSUME NEW kept \in Seq(Stamp), Repeated(kept) = {}, NEW order \in Orders(kept),
         NEW w, Weights(w)
  PROVE  /\ \A p \in ProvidersOf(kept) : CountedOf(order, p) = CountedOf(kept, p)
         /\ Earliest(order) = Earliest(kept) /\ SumOfWeights(w, order) = SumOfWeights(w, kept)
<1>1. /\ order \in Seq(Stamp) /\ DOMAIN order = DOMAIN kept
      /\ ProvidersOf(order) = ProvidersOf(kept) /\ Repeated(order) = {}
      /\ \A j \in DOMAIN kept : \E i \in DOMAIN kept : order[i] = kept[j]
  BY OrderIs
<1>2. ASSUME NEW p \in ProvidersOf(kept) PROVE CountedOf(order, p) = CountedOf(kept, p)
  <2>1. PICK j \in DOMAIN kept : kept[j].provider = p
    BY <1>2 DEF ProvidersOf
  <2>2. PICK i \in DOMAIN order : order[i] = kept[j]
    BY <1>1
  <2>3. CountedOf(order, order[i].provider) = order[i]
    BY <1>1, PlainIs
  <2>4. CountedOf(kept, kept[j].provider) = kept[j]
    BY PlainIs
  <2> QED BY <2>1, <2>2, <2>3, <2>4
<1>3. {order[i].expires : i \in Counted(order)} = {kept[i].expires : i \in Counted(kept)}
  <2>1. {order[i].expires : i \in Counted(order)}
          = {CountedOf(order, p).expires : p \in ProvidersOf(kept)}
    BY <1>1, PlainIs
  <2>2. {kept[i].expires : i \in Counted(kept)}
          = {CountedOf(kept, p).expires : p \in ProvidersOf(kept)}
    BY PlainIs
  <2>3. {CountedOf(order, p).expires : p \in ProvidersOf(kept)}
          = {CountedOf(kept, p).expires : p \in ProvidersOf(kept)}
    BY <1>2
  <2> QED BY <2>1, <2>2, <2>3
<1>4. kept = <<>> <=> order = <<>>
  BY <1>1
<1>5. SumOfWeights(w, order) = SumOfWeights(w, kept)
  BY <1>1, SumIs
<1> QED BY <1>2, <1>3, <1>4, <1>5 DEF Earliest

(* The two programs make the same row.                                     *)
LEMMA RowsAgree ==
  ASSUME NEW kept \in Seq(Stamp), NEW clashing, Plain(kept, clashing),
         NEW order \in Orders(kept), NEW w, Weights(w), NEW limit
  PROVE  PythonRow(w, limit, order, clashing) = RustRow(w, limit, kept, clashing)
<1>1. ProvidersOf(order) = ProvidersOf(kept) /\ Repeated(order) = {} /\ Repeated(kept) = {}
  BY OrderIs DEF Plain
<1>2. /\ \A p \in ProvidersOf(kept) : CountedOf(order, p) = CountedOf(kept, p)
      /\ Earliest(order) = Earliest(kept) /\ SumOfWeights(w, order) = SumOfWeights(w, kept)
  BY <1>1, PlainOrder
<1>3. PICK points : points = [p \in ProvidersOf(order) |->
                               IF p \in Repeated(order) THEN 0 ELSE w[p]]
  OBVIOUS
<1>4. points = [p \in ProvidersOf(kept) |-> w[p]]
  BY <1>1, <1>3
<1>5. PICK this :
        this = [p \in ProvidersOf(order) \cup DOMAIN clashing |->
                  ShownAs(IF p \in DOMAIN points THEN points[p] ELSE 0,
                        p \in DOMAIN clashing,
                        IF p \in DOMAIN clashing THEN clashing[p]
                        ELSE CountedOf(order, p).expires)]
  OBVIOUS
<1>6. PICK that :
        that = [p \in ProvidersOf(kept) \cup DOMAIN clashing |->
                  IF p \in DOMAIN clashing THEN ShownAs(0, TRUE, clashing[p])
                  ELSE IF p \in Repeated(kept) THEN ShownAs(0, TRUE, LastOf(kept, p).expires)
                  ELSE ShownAs(w[p], FALSE, CountedOf(kept, p).expires)]
  OBVIOUS
<1>7. this = that
  <2>1. ASSUME NEW p \in DOMAIN clashing PROVE this[p] = that[p]
    <3>1. p \notin DOMAIN points
      BY <1>4 DEF Plain
    <3>2. this[p] = ShownAs(0, TRUE, clashing[p])
      BY <1>5, <3>1 DEF ShownAs
    <3> QED BY <1>6, <3>2
  <2>2. ASSUME NEW p \in ProvidersOf(kept), p \notin DOMAIN clashing
        PROVE  this[p] = that[p]
    <3>1. p \in DOMAIN points /\ points[p] = w[p]
      BY <1>4
    <3>2. this[p] = ShownAs(w[p], FALSE, CountedOf(order, p).expires)
      <4>1. (p \in DOMAIN clashing) = FALSE
        BY <2>2
      <4>2. this[p] = ShownAs(IF p \in DOMAIN points THEN points[p] ELSE 0,
                              p \in DOMAIN clashing,
                              IF p \in DOMAIN clashing THEN clashing[p]
                              ELSE CountedOf(order, p).expires)
        BY <1>1, <1>5, <2>2
      <4> QED BY <3>1, <4>1, <4>2
    <3>3. that[p] = ShownAs(w[p], FALSE, CountedOf(kept, p).expires)
      BY <1>1, <1>6, <2>2
    <3> QED BY <1>2, <3>2, <3>3
  <2> QED BY <1>1, <1>5, <1>6, <2>1, <2>2
<1>8. PythonRow(w, limit, order, clashing)
        = RowWith(w, limit, order, Earliest(order), points, this)
  BY <1>3, <1>5 DEF PythonRow
<1>9. RustRow(w, limit, kept, clashing)
        = RowWith(w, limit, kept, Earliest(kept), points, that)
  BY <1>4, <1>6 DEF RustRow
<1> QED BY <1>2, <1>7, <1>8, <1>9 DEF RowWith

(* RowsAddUp, of one row.                                                  *)
AddsUp(row, kept, clashing) ==
  LET counted == {p \in DOMAIN row.stamps : ~row.stamps[p].dedup}
      total == MapThenSumSet(LAMBDA p : row.stamps[p].score, counted) IN
  /\ (row.success <=> row.raw >= row.threshold)
  /\ total <= row.raw
  /\ Plain(kept, clashing) =>
       /\ total = row.raw
       /\ counted = DOMAIN row.points
       /\ \A p \in counted : row.expires <= row.stamps[p].expires
       /\ counted # {} => \E p \in counted : row.expires = row.stamps[p].expires

(* A row that one of the programs makes.                                   *)
IsRow(row, w, limit, kept, clashing) ==
  \/ row = PythonRow(w, limit, kept, clashing)
  \/ row = RustRow(w, limit, kept, clashing)

(* What both programs say in it.                                           *)
Says(row, w, kept, clashing) ==
  /\ (row.success <=> row.raw >= row.threshold)
  /\ row.raw = SumOfWeights(w, kept) /\ row.expires = Earliest(kept)
  /\ DOMAIN row.points = ProvidersOf(kept)
  /\ DOMAIN row.stamps = ProvidersOf(kept) \cup DOMAIN clashing
  /\ \A p \in DOMAIN clashing : row.stamps[p].dedup
  /\ \A p \in ProvidersOf(kept) \ DOMAIN clashing :
       /\ row.stamps[p].dedup \/ row.stamps[p].score \in {0, w[p]}
       /\ p \notin Repeated(kept) =>
            row.stamps[p] = ShownAs(w[p], FALSE, CountedOf(kept, p).expires)

(* What both programs make of stamps.                                      *)
LEMMA RowIs ==
  ASSUME NEW kept \in Seq(Stamp), NEW w, Weights(w), NEW limit, NEW clashing, NEW row,
         IsRow(row, w, limit, kept, clashing)
  PROVE  Says(row, w, kept, clashing)
<1>1. CASE row = PythonRow(w, limit, kept, clashing)
  <2>1. PICK points : points = [p \in ProvidersOf(kept) |->
                                 IF p \in Repeated(kept) THEN 0 ELSE w[p]]
    OBVIOUS
  <2>2. PICK stamps :
          stamps = [p \in ProvidersOf(kept) \cup DOMAIN clashing |->
                      ShownAs(IF p \in DOMAIN points THEN points[p] ELSE 0,
                            p \in DOMAIN clashing,
                            IF p \in DOMAIN clashing THEN clashing[p]
                            ELSE CountedOf(kept, p).expires)]
    OBVIOUS
  <2>3. row = RowWith(w, limit, kept, Earliest(kept), points, stamps)
    BY <1>1, <2>1, <2>2 DEF PythonRow
  <2>4. row.points = points /\ row.stamps = stamps
    BY <2>3 DEF RowWith
  <2>5. row.raw = SumOfWeights(w, kept) /\ row.expires = Earliest(kept) /\ row.threshold = limit
    BY <2>3 DEF RowWith
  <2>6. row.success <=> row.raw >= row.threshold
    <3>1. row.success = (SumOfWeights(w, kept) >= limit)
      BY <2>3 DEF RowWith
    <3> QED BY <2>5, <3>1
  <2>7. ASSUME NEW p \in DOMAIN clashing PROVE row.stamps[p].dedup
    <3>1. stamps[p] = ShownAs(IF p \in DOMAIN points THEN points[p] ELSE 0,
                              p \in DOMAIN clashing,
                              IF p \in DOMAIN clashing THEN clashing[p]
                              ELSE CountedOf(kept, p).expires)
      BY <2>2
    <3>2. (p \in DOMAIN clashing) = TRUE
      OBVIOUS
    <3>3. PICK score, expires : stamps[p] = ShownAs(score, TRUE, expires)
      BY <3>1, <3>2
    <3> QED BY <2>4, <3>3 DEF ShownAs
  <2>8. ASSUME NEW p \in ProvidersOf(kept) \ DOMAIN clashing
        PROVE  /\ row.stamps[p].score \in {0, w[p]}
               /\ p \notin Repeated(kept) =>
                    row.stamps[p] = ShownAs(w[p], FALSE, CountedOf(kept, p).expires)
    <3>1. (p \in DOMAIN clashing) = FALSE
      OBVIOUS
    <3>2. stamps[p] = ShownAs(IF p \in DOMAIN points THEN points[p] ELSE 0,
                              p \in DOMAIN clashing,
                              IF p \in DOMAIN clashing THEN clashing[p]
                              ELSE CountedOf(kept, p).expires)
      BY <2>2
    <3>3. stamps[p] = ShownAs(points[p], FALSE, CountedOf(kept, p).expires)
      BY <2>1, <3>1, <3>2
    <3>4. points[p] = IF p \in Repeated(kept) THEN 0 ELSE w[p]
      BY <2>1
    <3>5. stamps[p].score = points[p]
      BY <3>3 DEF ShownAs
    <3> QED BY <2>4, <3>3, <3>4, <3>5
  <2>9. DOMAIN points = ProvidersOf(kept)
    BY <2>1
  <2>10. DOMAIN stamps = ProvidersOf(kept) \cup DOMAIN clashing
    BY <2>2
  <2> QED BY <2>4, <2>5, <2>6, <2>7, <2>8, <2>9, <2>10 DEF Says
<1>2. CASE row = RustRow(w, limit, kept, clashing)
  <2>1. PICK points : points = [p \in ProvidersOf(kept) |-> w[p]]
    OBVIOUS
  <2>2. PICK stamps :
          stamps = [p \in ProvidersOf(kept) \cup DOMAIN clashing |->
                      IF p \in DOMAIN clashing THEN ShownAs(0, TRUE, clashing[p])
                      ELSE IF p \in Repeated(kept)
                           THEN ShownAs(0, TRUE, LastOf(kept, p).expires)
                      ELSE ShownAs(w[p], FALSE, CountedOf(kept, p).expires)]
    OBVIOUS
  <2>3. row = RowWith(w, limit, kept, Earliest(kept), points, stamps)
    BY <1>2, <2>1, <2>2 DEF RustRow
  <2>4. row.points = points /\ row.stamps = stamps
    BY <2>3 DEF RowWith
  <2>5. row.raw = SumOfWeights(w, kept) /\ row.expires = Earliest(kept) /\ row.threshold = limit
    BY <2>3 DEF RowWith
  <2>6. row.success <=> row.raw >= row.threshold
    <3>1. row.success = (SumOfWeights(w, kept) >= limit)
      BY <2>3 DEF RowWith
    <3> QED BY <2>5, <3>1
  <2>7. ASSUME NEW p \in DOMAIN clashing PROVE row.stamps[p].dedup
    <3>1. stamps[p] = ShownAs(0, TRUE, clashing[p])
      BY <2>2
    <3> QED BY <2>4, <3>1 DEF ShownAs
  <2>8. ASSUME NEW p \in ProvidersOf(kept) \ DOMAIN clashing
        PROVE  /\ row.stamps[p].dedup \/ row.stamps[p].score \in {0, w[p]}
               /\ p \notin Repeated(kept) =>
                    row.stamps[p] = ShownAs(w[p], FALSE, CountedOf(kept, p).expires)
    <3>1. CASE p \in Repeated(kept)
      <4>1. stamps[p] = ShownAs(0, TRUE, LastOf(kept, p).expires)
        BY <2>2, <3>1
      <4>2. stamps[p].dedup
        BY <4>1 DEF ShownAs
      <4> QED BY <2>4, <3>1, <4>2
    <3>2. CASE p \notin Repeated(kept)
      <4>1. stamps[p] = ShownAs(w[p], FALSE, CountedOf(kept, p).expires)
        BY <2>2, <3>2
      <4>2. stamps[p].score = w[p]
        BY <4>1 DEF ShownAs
      <4> QED BY <2>4, <4>1, <4>2
    <3> QED BY <3>1, <3>2
  <2>9. DOMAIN points = ProvidersOf(kept)
    BY <2>1
  <2>10. DOMAIN stamps = ProvidersOf(kept) \cup DOMAIN clashing
    BY <2>2
  <2> QED BY <2>4, <2>5, <2>6, <2>7, <2>8, <2>9, <2>10 DEF Says
<1> QED BY <1>1, <1>2 DEF IsRow, Says

(* The row adds up.                                                        *)
LEMMA RowAddsUp ==
  ASSUME NEW kept \in Seq(Stamp), NEW w, Weights(w), NEW limit, NEW clashing, NEW row,
         IsRow(row, w, limit, kept, clashing)
  PROVE  AddsUp(row, kept, clashing)
<1>1. /\ (row.success <=> row.raw >= row.threshold)
      /\ row.raw = SumOfWeights(w, kept) /\ row.expires = Earliest(kept)
      /\ DOMAIN row.points = ProvidersOf(kept)
      /\ DOMAIN row.stamps = ProvidersOf(kept) \cup DOMAIN clashing
      /\ \A p \in DOMAIN clashing : row.stamps[p].dedup
      /\ \A p \in ProvidersOf(kept) \ DOMAIN clashing :
           /\ row.stamps[p].dedup \/ row.stamps[p].score \in {0, w[p]}
           /\ p \notin Repeated(kept) =>
                row.stamps[p] = ShownAs(w[p], FALSE, CountedOf(kept, p).expires)
  <2>1. Says(row, w, kept, clashing)
    BY RowIs
  <2> QED BY <2>1 DEF Says
<1>2. PICK C : C = {p \in DOMAIN row.stamps : ~row.stamps[p].dedup}
  OBVIOUS
<1>3. C \in SUBSET ProvidersOf(kept) /\ C \cap DOMAIN clashing = {}
  BY <1>1, <1>2
<1>4. PICK F : F = [p \in DOMAIN row.stamps |-> row.stamps[p].score]
  OBVIOUS
<1>5. PICK G : G = [p \in Providers |-> w[p]]
  OBVIOUS
<1>6. /\ IsFiniteSet(ProvidersOf(kept)) /\ row.raw = Total(G, ProvidersOf(kept))
      /\ ProvidersOf(kept) \subseteq Providers
  BY <1>1, <1>5, SumIs, OneCounts
<1>7. \A p \in ProvidersOf(kept) : G[p] = w[p] /\ G[p] \in Nat
  BY <1>5, <1>6 DEF Weights
<1>8. PICK total : total = MapThenSumSet(LAMBDA p : row.stamps[p].score, C)
  OBVIOUS
<1>9. total = Total(F, C)
  <2>1. C \in SUBSET DOMAIN row.stamps
    BY <1>2
  <2>2. \A s \in SUBSET C : s # {} => Pick(s) \in DOMAIN row.stamps
    BY <2>1 DEF Pick
  <2>3. MapThenSumSet(LAMBDA p : row.stamps[p].score, C)
          = Total([p \in DOMAIN row.stamps |-> row.stamps[p].score], C)
    BY <2>2, ZenonT(60) DEF MapThenSumSet, MapThenFoldSet, Total, Totals, IsTotal, Pick
  <2> QED BY <1>4, <1>8, <2>3
<1>10. \A p \in C : F[p] = row.stamps[p].score /\ F[p] \in Int /\ F[p] <= G[p]
  <2>1. ASSUME NEW p \in C
        PROVE  F[p] = row.stamps[p].score /\ F[p] \in Int /\ F[p] <= G[p]
    <3>1. F[p] = row.stamps[p].score /\ row.stamps[p].score \in {0, w[p]}
      BY <1>1, <1>2, <1>3, <1>4
    <3> QED BY <1>3, <1>7, <3>1
  <2> QED BY <2>1
<1>11. total <= row.raw
  BY <1>3, <1>6, <1>7, <1>9, <1>10, TotalLess
<1>12. ASSUME Plain(kept, clashing)
       PROVE  /\ total = row.raw
              /\ C = DOMAIN row.points
              /\ \A p \in C : row.expires <= row.stamps[p].expires
              /\ C # {} => \E p \in C : row.expires = row.stamps[p].expires
  <2>1. Repeated(kept) = {} /\ ProvidersOf(kept) \cap DOMAIN clashing = {}
    BY <1>12 DEF Plain
  <2>2. ASSUME NEW p \in ProvidersOf(kept)
        PROVE  /\ p \in C /\ F[p] = w[p]
               /\ row.stamps[p].expires = CountedOf(kept, p).expires
    <3>1. row.stamps[p] = ShownAs(w[p], FALSE, CountedOf(kept, p).expires)
      BY <1>1, <2>1
    <3>2. /\ row.stamps[p].dedup = FALSE /\ row.stamps[p].score = w[p]
          /\ row.stamps[p].expires = CountedOf(kept, p).expires
      BY <3>1 DEF ShownAs
    <3> QED BY <1>1, <1>2, <1>4, <3>2
  <2>3. C = ProvidersOf(kept)
    BY <1>3, <2>2
  <2>4. total = row.raw
    <3>1. /\ \A p \in C : F[p] = G[p] /\ F[p] \in Nat /\ F[p] \in Int
          /\ \A p \in C : G[p] \in Int /\ G[p] <= F[p]
      BY <1>7, <2>2, <2>3
    <3>2. C \in SUBSET C /\ IsFiniteSet(C)
      BY <1>6, <2>3
    <3>3. Total(G, C) <= Total(F, C)
      BY <3>1, <3>2, TotalLess
    <3>4. Total(G, C) \in Int /\ Total(F, C) \in Int
      BY <3>1, <3>2, TotalInt
    <3> QED BY <1>6, <1>9, <1>11, <2>3, <3>3, <3>4
  <2>5. PICK D : D = {CountedOf(kept, p).expires : p \in ProvidersOf(kept)}
    OBVIOUS
  <2>6. D \in SUBSET Nat
    <3>1. ASSUME NEW p \in ProvidersOf(kept) PROVE CountedOf(kept, p).expires \in Nat
      <4>1. PICK i \in Counted(kept) : CountedOf(kept, p) = kept[i]
        BY CountedOfIs
      <4>2. kept[i] \in Stamp
        BY OneCounts
      <4> QED BY <4>1, <4>2 DEF Stamp
    <3> QED BY <2>5, <3>1
  <2>7. ASSUME C # {} PROVE row.expires \in D /\ \A d \in D : row.expires <= d
    <3>1. kept # <<>> /\ D # {}
      <4>1. PICK p \in ProvidersOf(kept) : TRUE
        BY <2>3, <2>7
      <4>2. CountedOf(kept, p).expires \in D
        BY <2>5
      <4>3. PICK i \in DOMAIN kept : kept[i].provider = p
        BY DEF ProvidersOf
      <4> QED BY <4>2, <4>3
    <3>2. row.expires = Min(D)
      BY <1>1, <2>1, <2>5, <3>1, PlainIs DEF Earliest
    <3>3. PICK m \in D : \A n \in D : m <= n
      BY <2>6, <3>1, SmallestNumber
    <3> QED BY <3>2, <3>3 DEF Min
  <2>8. \A p \in C : row.expires <= row.stamps[p].expires
    BY <2>2, <2>3, <2>5, <2>7
  <2>9. C # {} => \E p \in C : row.expires = row.stamps[p].expires
    BY <2>2, <2>3, <2>5, <2>7
  <2> QED BY <1>1, <2>3, <2>4, <2>8, <2>9
<1> QED BY <1>1, <1>2, <1>8, <1>11, <1>12 DEF AddsUp

(* The customized providers that a scoring in Python has looked up.        *)
Met == IF scoring.step = "stamps" THEN Customized
       ELSE IF scoring.step = "credentials" THEN ListStamps ELSE {}
WeightOf(p) ==
  IF scoring.program = "python" /\ p \in Met /\ custom[p] # NoWeight
  THEN custom[p] ELSE weights[p]

(* The weights that were read are those of now, but where they changed.    *)
WeighInv ==
  /\ weights \in WeightSets
  /\ custom \in [Customized -> {NoWeight, CustomWeight}]
  /\ sure \subseteq Providers
  /\ scoring = [program |-> scoring.program, step |-> scoring.step,
                kept |-> scoring.kept, clashing |-> scoring.clashing,
                weights |-> scoring.weights, threshold |-> scoring.threshold]
  /\ scoring.step \in {"ready", "lists", "credentials", "stamps", "save"}
  /\ scoring.step # "ready" =>
       scoring.kept \in KeptStamps /\ scoring.program \in {"python", "rust"}
  /\ scoring.step \in {"lists", "credentials"} => scoring.program = "python"
  /\ scoring.step \in {"lists", "credentials", "stamps"} =>
       \A p \in sure : scoring.weights[p] = WeightOf(p)
  /\ scoring.step # "ready" => Weights(scoring.weights)
  /\ WeightsAreTheirs
  /\ Saving => AddsUp(fields, scoring.kept, scoring.clashing)

(* RowsAddUp says that the row being saved adds up.                        *)
LEMMA RowsAddUpIs ==
  RowsAddUp <=> (Saving => AddsUp(fields, scoring.kept, scoring.clashing))
BY DEF RowsAddUp, AddsUp

(* An administrator changes the weights, or a customization.               *)
LEMMA WeightsChange ==
  ASSUME WeighConstants, WeighInv, ChangeWeights \/ ChangeCustom
  PROVE  WeighInv'
<1>1. /\ UNCHANGED <<scoring, fields>> /\ sure' \subseteq sure
      /\ weights' \in WeightSets
      /\ custom' \in [Customized -> {NoWeight, CustomWeight}]
      /\ \A p \in sure' : weights'[p] = weights[p]
      /\ \A p \in sure' : p \in Customized => custom'[p] = custom[p]
  BY DEF WeighInv, ChangeWeights, ChangeCustom
<1>2. Met' = Met /\ Met \subseteq Customized
  BY <1>1 DEF Met, Customized
<1>3. \A p \in sure' : WeightOf(p)' = WeightOf(p)
  BY <1>1, <1>2 DEF WeightOf
<1>4. WeightsAreTheirs'
  BY <1>1 DEF WeighInv, WeightsAreTheirs, Saving
<1>5. scoring.step \in {"lists", "credentials", "stamps"} =>
        \A p \in sure' : scoring'.weights[p] = WeightOf(p)'
  BY <1>1, <1>3 DEF WeighInv
<1>6. (Saving => AddsUp(fields, scoring.kept, scoring.clashing))'
  BY <1>1 DEF WeighInv, Saving
<1> QED BY <1>1, <1>4, <1>5, <1>6 DEF WeighInv

(* A scoring begins.                                                       *)
LEMMA ScorerIsRead ==
  ASSUME WeighConstants, WeighInv, ReadPythonScorer \/ ReadRustScorer
  PROVE  WeighInv'
<1>0. PICK program, next :
        /\ \/ program = "python" /\ next = "lists"
           \/ program = "rust" /\ next = "stamps"
        /\ ReadScorer(program, next)
  BY DEF ReadPythonScorer, ReadRustScorer
<1>1. PICK kept \in KeptStamps, clashing \in ClashSets :
        scoring' = [program |-> program, step |-> next, kept |-> kept,
                    clashing |-> clashing, weights |-> weights,
                    threshold |-> threshold]
  BY <1>0 DEF ReadScorer
<1>2. sure' = Providers /\ UNCHANGED <<weights, custom>>
  BY <1>0 DEF ReadScorer
<1>3. \A p : WeightOf(p)' = weights[p]
  BY <1>0, <1>1, <1>2 DEF WeightOf, Met
<1>4. WeightsAreTheirs'
  BY <1>0, <1>1 DEF WeightsAreTheirs, Saving
<1>5. ~Saving'
  BY <1>0, <1>1 DEF Saving
<1>6. Weights(weights)
  BY DEF WeighConstants, WeighInv
<1> QED BY <1>0, <1>1, <1>2, <1>3, <1>4, <1>5, <1>6 DEF WeighInv, Weights

(* A customization is looked up.                                           *)
LEMMA CustomIsRead ==
  ASSUME WeighConstants, WeighInv, ReadLists \/ ReadCredentials
  PROVE  WeighInv'
<1>1. PICK from, next :
        /\ \/ scoring.step = "lists" /\ from = ListStamps /\ next = "credentials"
           \/ scoring.step = "credentials" /\ from = RuleStamps /\ next = "stamps"
        /\ scoring' = [scoring EXCEPT !.step = next, !.weights = Overridden(from)]
  BY DEF ReadLists, ReadCredentials, ReadCustom
<1>2. UNCHANGED <<weights, custom, sure>>
  BY DEF ReadLists, ReadCredentials, ReadCustom
<1>3. PICK read : read = Overridden(from)
  OBVIOUS
<1>4. scoring' = [program |-> scoring.program, step |-> next, kept |-> scoring.kept,
                  clashing |-> scoring.clashing, weights |-> read,
                  threshold |-> scoring.threshold]
  BY <1>1, <1>3 DEF WeighInv
<1>5. /\ scoring'.step = next /\ scoring'.weights = read
      /\ scoring'.program = scoring.program /\ scoring'.kept = scoring.kept
  BY <1>4
<1>6. Met' = Met \cup from /\ scoring.program \in {"python", "rust"}
  BY <1>1, <1>5 DEF Met, Customized, WeighInv
<1>7. ASSUME scoring.program = "python", NEW p \in sure PROVE read[p] = WeightOf(p)'
  <2>1. p \in Providers /\ scoring.weights[p] = WeightOf(p)
    BY <1>1, <1>7 DEF WeighInv
  <2>2. read[p] = IF p \in from /\ custom[p] # NoWeight THEN custom[p]
                  ELSE scoring.weights[p]
    BY <1>3, <2>1 DEF Overridden
  <2> QED BY <1>2, <1>5, <1>6, <1>7, <2>1, <2>2 DEF WeightOf
<1>8. WeightsAreTheirs'
  BY <1>1, <1>5 DEF WeightsAreTheirs, Saving
<1>9. ~Saving'
  BY <1>1, <1>5 DEF Saving
<1>10. Weights(read)
  <2>1. ASSUME NEW p \in Providers PROVE read[p] \in Nat
    <3>1. read[p] = IF p \in from /\ custom[p] # NoWeight THEN custom[p]
                    ELSE scoring.weights[p]
      BY <1>3 DEF Overridden
    <3>2. scoring.weights[p] \in Nat
      BY <1>1 DEF WeighInv, Weights
    <3>3. p \in from => custom[p] \in {NoWeight, CustomWeight}
      BY <1>1 DEF WeighInv, Customized
    <3> QED BY <3>1, <3>2, <3>3 DEF WeighConstants
  <2> QED BY <2>1 DEF Weights
<1>11. Weights(scoring'.weights)
  BY <1>5, <1>10
<1> QED
  BY <1>1, <1>2, <1>4, <1>5, <1>6, <1>7, <1>8, <1>9, <1>11 DEF WeighInv, Weights

(* The stamps are weighed.                                                 *)
LEMMA WeighStep ==
  ASSUME WeighConstants, WeighInv, Weigh
  PROVE  WeighInv'
<1>0. /\ scoring.kept \in KeptStamps /\ scoring.kept \in Seq(Stamp)
      /\ Weights(scoring.weights)
  BY DEF Weigh, WeighInv, WeighConstants
<1>1. PICK kept :
        /\ fields'.points = [p \in ProvidersOf(kept) |->
                            IF p \in Repeated(kept) /\ scoring.program = "python" THEN 0
                            ELSE scoring.weights[p]]
        /\ Repeated(kept) \subseteq Repeated(scoring.kept)
        /\ ProvidersOf(kept) = ProvidersOf(scoring.kept) /\ kept \in Seq(Stamp)
        /\ IsRow(fields', scoring.weights, scoring.threshold, kept, scoring.clashing)
  <2>1. CASE scoring.program = "python"
    <3>1. PICK kept \in Orders(scoring.kept) :
            fields' = PythonRow(scoring.weights, scoring.threshold, kept, scoring.clashing)
      BY <2>1 DEF Weigh
    <3>2. fields'.points = [p \in ProvidersOf(kept) |->
                           IF p \in Repeated(kept) THEN 0 ELSE scoring.weights[p]]
      BY <3>1 DEF PythonRow, RowWith
    <3>3. /\ Repeated(kept) \subseteq Repeated(scoring.kept)
          /\ ProvidersOf(kept) = ProvidersOf(scoring.kept) /\ kept \in Seq(Stamp)
      BY <1>0, OrderIs
    <3>4. IsRow(fields', scoring.weights, scoring.threshold, kept, scoring.clashing)
      BY <3>1 DEF IsRow
    <3> QED BY <2>1, <3>2, <3>3, <3>4
  <2>2. CASE scoring.program = "rust"
    <3>1. fields' = RustRow(scoring.weights, scoring.threshold, scoring.kept, scoring.clashing)
      BY <2>2 DEF Weigh
    <3>2. fields'.points = [p \in ProvidersOf(scoring.kept) |-> scoring.weights[p]]
      BY <3>1 DEF RustRow, RowWith
    <3>3. IsRow(fields', scoring.weights, scoring.threshold, scoring.kept, scoring.clashing)
      BY <3>1 DEF IsRow
    <3> QED BY <1>0, <2>2, <3>2, <3>3
  <2> QED BY <2>1, <2>2 DEF Weigh
<1>2. /\ scoring.step = "stamps" /\ scoring' = [scoring EXCEPT !.step = "save"]
      /\ UNCHANGED <<weights, threshold, custom, sure>>
  BY DEF Weigh
<1>3. /\ scoring' = [program |-> scoring.program, step |-> "save", kept |-> scoring.kept,
                     clashing |-> scoring.clashing, weights |-> scoring.weights,
                     threshold |-> scoring.threshold]
      /\ scoring.program \in {"python", "rust"} /\ scoring.kept \in KeptStamps
      /\ \A p \in sure : scoring.weights[p] = WeightOf(p)
  BY <1>2 DEF WeighInv
<1>4. ASSUME NEW p \in DOMAIN fields'.points \cap (sure \ Repeated(scoring.kept))
      PROVE  fields'.points[p] = IF scoring.program = "python" /\ p \in Customized
                                   /\ custom[p] # NoWeight
                              THEN custom[p] ELSE weights[p]
  <2>1. p \in ProvidersOf(kept) /\ p \notin Repeated(kept) /\ p \in sure
    BY <1>1, <1>4
  <2>2. fields'.points[p] = scoring.weights[p]
    BY <1>1, <2>1
  <2> QED BY <1>2, <1>3, <2>1, <2>2 DEF WeightOf, Met
<1>5. WeightsAreTheirs'
  BY <1>2, <1>3, <1>4 DEF WeightsAreTheirs
<1>6. AddsUp(fields, scoring.kept, scoring.clashing)'
  <2>1. AddsUp(fields', kept, scoring.clashing)
    BY <1>0, <1>1, RowAddsUp
  <2>2. Plain(scoring.kept, scoring.clashing) => Plain(kept, scoring.clashing)
    BY <1>1 DEF Plain
  <2>3. AddsUp(fields', scoring.kept, scoring.clashing)
    BY <2>1, <2>2 DEF AddsUp
  <2>4. scoring'.kept = scoring.kept /\ scoring'.clashing = scoring.clashing
    BY <1>3
  <2> QED BY <2>3, <2>4
<1> QED BY <1>0, <1>2, <1>3, <1>5, <1>6 DEF WeighInv, Weights

(* The invariant holds in every state.                                     *)
LEMMA WeighInvariance ==
  ASSUME WeighConstants
  PROVE  WeighSpec => []WeighInv
<1>1. ASSUME WeighInit PROVE WeighInv
  BY <1>1 DEF WeighInit, WeighInv, NoScoring, WeightsAreTheirs, Saving
<1>2. ASSUME WeighInv, [WeighNext]_weighVars PROVE WeighInv'
  <2>1. CASE SaveRow
    BY <1>2, <2>1 DEF SaveRow, WeighInv, NoScoring, WeightsAreTheirs, Saving
  <2>2. CASE UNCHANGED weighVars
    BY <1>2, <2>2 DEF weighVars, WeighInv, WeightsAreTheirs, Saving, WeightOf, Met
  <2> QED
    BY <1>2, <2>1, <2>2, WeightsChange, ScorerIsRead, CustomIsRead, WeighStep DEF WeighNext
<1> QED BY <1>1, <1>2, PTL DEF WeighSpec

(* WeightsAreTheirs, for any weights, customizations and stamps, and in    *)
(* every order in which the table gives the stamps.                        *)
THEOREM WeightsTheorem ==
  ASSUME WeighConstants
  PROVE  WeighSpec => []WeightsAreTheirs
<1>1. ASSUME WeighInv PROVE WeightsAreTheirs
  BY <1>1 DEF WeighInv
<1> QED BY <1>1, WeighInvariance, PTL


(* RowsAddUp: whatever stamps deduplication keeps and takes out, the row   *)
(* that either program saves adds up.                                      *)
THEOREM RowsTheorem ==
  ASSUME WeighConstants
  PROVE  WeighSpec => []RowsAddUp
<1>1. ASSUME WeighInv PROVE RowsAddUp
  BY <1>1, RowsAddUpIs DEF WeighInv
<1> QED BY <1>1, WeighInvariance, PTL

(* ProgramsAgree, by the weights of every state and for all stamps.        *)
THEOREM ProgramsTheorem ==
  ASSUME WeighConstants
  PROVE  WeighSpec => []ProgramsAgree
<1>1. ASSUME WeighInv PROVE ProgramsAgree
  <2>1. Weights(weights) /\ \A kept \in KeptStamps : kept \in Seq(Stamp)
    BY <1>1 DEF WeighInv, WeighConstants
  <2>2. ASSUME NEW kept \in KeptStamps, NEW clashing \in ClashSets,
               Plain(kept, clashing), NEW order \in Orders(kept)
        PROVE  PythonRow(weights, threshold, order, clashing)
                 = RustRow(weights, threshold, kept, clashing)
    BY <2>1, <2>2, RowsAgree
  <2> QED BY <2>2 DEF ProgramsAgree
<1> QED BY <1>1, WeighInvariance, PTL

-----------------------------------------------------------------------------
(***************************************************************************)
(* PointTotals: what an address is told of its points, read in queries of  *)
(* their own.                                                              *)
(***************************************************************************)
TotalSpec == TotalInit /\ [][TotalNext]_totalVars

(* An address has finitely many awards, each worth a number of points.     *)
TotalConstants ==
  IsFiniteSet(Awards) /\ \A p \in Awards : p[1] \in Actions /\ PointsOf[p[1]] \in Nat

TotalSteps == {"ready", "multiplier", "eligible", "possible", "done"}
ActiveRows == {p \in reading.rows : p[1] \in active}

(* What a reading has seen is what there was, but where tables changed.    *)
TotalInv ==
  /\ awarded \subseteq Awards /\ active \subseteq Actions
  /\ multiplied \in BOOLEAN /\ qualified \in BOOLEAN
  /\ reading \in [program : {"none", "python", "rust"}, step : TotalSteps,
                  rows : SUBSET Awards, total : Int, multiplier : {1, Multiplier},
                  eligible : BOOLEAN, possible : SUBSET Actions]
  /\ reading.step # "ready" /\ "config" \notin changed =>
       /\ ActiveRows \subseteq ActiveAwards /\ reading.total = SumOf(ActiveRows)
       /\ "points" \notin changed => ActiveRows = ActiveAwards
       /\ reading.step = "done" => reading.possible = active
  /\ reading.eligible => qualified
  /\ reading.step \in {"possible", "done"} /\ "qualified" \notin changed =>
       reading.eligible = qualified
  /\ reading.step \in {"eligible", "possible", "done"} /\ "multipliers" \notin changed =>
       \/ reading.multiplier = OwnMultiplier
       \/ reading.program = "python" /\ reading.rows = {}

(* The sum of some awards is a number, and no more than that of more.      *)
LEMMA SumOfAwards ==
  ASSUME TotalConstants, NEW S \in SUBSET Awards, NEW T \in SUBSET S
  PROVE  SumOf(S) \in Int /\ SumOf(T) <= SumOf(S)
<1>1. PICK F : F = [p \in Awards |-> PointsOf[p[1]]]
  OBVIOUS
<1>2. \A s \in SUBSET Awards : SumOf(s) = Total(F, s)
  <2>1. ASSUME NEW s \in SUBSET Awards
        PROVE  SumOf(s) = Total([p \in Awards |-> PointsOf[p[1]]], s)
    BY ZenonT(60) DEF SumOf, MapThenSumSet, MapThenFoldSet, Total, Totals, IsTotal, Pick
  <2> QED BY <1>1, <2>1
<1>3. IsFiniteSet(S) /\ T \in SUBSET Awards
  BY FS_Subset DEF TotalConstants
<1>4. \A p \in S : F[p] \in Nat /\ F[p] \in Int
  BY <1>1 DEF TotalConstants
<1>5. Total(F, S) \in Int
  BY <1>3, <1>4, TotalInt
<1>6. \A p \in T : F[p] \in Int /\ F[p] <= F[p]
  BY <1>4
<1>7. Total(F, T) <= Total(F, S)
  BY <1>3, <1>4, <1>6, TotalLess
<1> QED BY <1>2, <1>3, <1>5, <1>7

(* Points are awarded, the address qualifies, or tables are edited.        *)
LEMMA TablesChange ==
  ASSUME TotalInv, Award \/ Qualify \/ EditConfig \/ EditMultiplier
  PROVE  TotalInv'
<1>1. /\ reading' = reading /\ changed \subseteq changed'
      /\ awarded \subseteq awarded' /\ awarded' \subseteq Awards
      /\ "points" \notin changed' => awarded' = awarded
      /\ active' \subseteq Actions /\ ("config" \notin changed' => active' = active)
      /\ multiplied' \in BOOLEAN
      /\ "multipliers" \notin changed' => multiplied' = multiplied
      /\ qualified' \in BOOLEAN /\ (qualified => qualified')
      /\ "qualified" \notin changed' => qualified' = qualified
  BY DEF TotalInv, Award, Qualify, EditConfig, EditMultiplier, Alter
<1>2. ASSUME "config" \notin changed' PROVE ActiveRows' = ActiveRows
  BY <1>1, <1>2 DEF ActiveRows
<1>3. ASSUME "config" \notin changed'
      PROVE  /\ ActiveAwards \subseteq ActiveAwards'
             /\ "points" \notin changed' => ActiveAwards' = ActiveAwards
  BY <1>1, <1>3 DEF ActiveAwards, CountedAwards
<1>4. "multipliers" \notin changed' => OwnMultiplier' = OwnMultiplier
  BY <1>1 DEF OwnMultiplier
<1>5. \A x : x \notin changed' => x \notin changed
  BY <1>1
<1>6. ASSUME reading'.step # "ready", "config" \notin changed'
      PROVE  /\ ActiveRows' \subseteq ActiveAwards' /\ reading'.total = SumOf(ActiveRows')
             /\ "points" \notin changed' => ActiveRows' = ActiveAwards'
             /\ reading'.step = "done" => reading'.possible = active'
  <2>1. reading.step # "ready" /\ "config" \notin changed
    BY <1>1, <1>5, <1>6
  <2>2. /\ ActiveRows \subseteq ActiveAwards /\ reading.total = SumOf(ActiveRows)
        /\ "points" \notin changed => ActiveRows = ActiveAwards
        /\ reading.step = "done" => reading.possible = active
    BY <2>1 DEF TotalInv
  <2> QED BY <1>1, <1>2, <1>3, <1>5, <1>6, <2>2
<1> QED BY <1>1, <1>4, <1>5, <1>6 DEF TotalInv

(* The points are read, the first query.                                   *)
LEMMA PointsAreRead ==
  ASSUME TotalConstants, TotalInv, PythonPoints \/ RustPoints
  PROVE  TotalInv'
<1>1. /\ UNCHANGED tables /\ changed' = {} /\ reading = NoReading
      /\ ActiveAwards \subseteq CountedAwards /\ CountedAwards \in SUBSET Awards
  BY DEF PythonPoints, RustPoints, FirstQuery, ActiveAwards, CountedAwards, TotalInv
<1>2. UNCHANGED <<awarded, active, multiplied, qualified>>
  BY <1>1 DEF tables
<1>3. PICK program, step, rows, total, multiplier :
        /\ reading' = [program |-> program, step |-> step, rows |-> rows, total |-> total,
                       multiplier |-> multiplier, eligible |-> FALSE, possible |-> {}]
        /\ total = SumOf(ActiveAwards)
        /\ \/ /\ program = "python" /\ step = "eligible" /\ rows = ActiveAwards
              /\ multiplier = IF ActiveAwards = {} THEN 1 ELSE OwnMultiplier
           \/ program = "rust" /\ step = "multiplier" /\ rows = CountedAwards /\ multiplier = 1
  <2>1. CASE PythonPoints
    <3>1. reading' = [program |-> "python", step |-> "eligible", rows |-> ActiveAwards,
                      total |-> SumOf(ActiveAwards),
                      multiplier |-> IF ActiveAwards = {} THEN 1 ELSE OwnMultiplier,
                      eligible |-> FALSE, possible |-> {}]
      BY <2>1 DEF PythonPoints, FirstQuery, NoReading
    <3> QED BY <3>1
  <2>2. CASE RustPoints
    <3>1. reading' = [program |-> "rust", step |-> "multiplier", rows |-> CountedAwards,
                      total |-> SumOf(ActiveAwards), multiplier |-> 1,
                      eligible |-> FALSE, possible |-> {}]
      BY <2>2 DEF RustPoints, FirstQuery, NoReading
    <3> QED BY <3>1
  <2> QED BY <2>1, <2>2
<1>4. /\ reading'.program = program /\ reading'.step = step /\ reading'.rows = rows
      /\ reading'.total = total /\ reading'.multiplier = multiplier
      /\ reading'.eligible = FALSE /\ reading'.possible = {}
  BY <1>3
<1>5. total \in Int
  BY <1>1, <1>3, SumOfAwards
<1>6. OwnMultiplier \in {1, Multiplier} /\ OwnMultiplier' = OwnMultiplier
  BY <1>2 DEF OwnMultiplier
<1>7. ActiveAwards' = ActiveAwards
  BY <1>2 DEF ActiveAwards, CountedAwards
<1>8. ActiveRows' = ActiveAwards
  BY <1>2, <1>3, <1>4 DEF ActiveRows, ActiveAwards
<1>9. /\ reading'.total = SumOf(ActiveRows') /\ step \notin {"done", "possible", "ready"}
      /\ ActiveRows' = ActiveAwards'
  BY <1>3, <1>4, <1>7, <1>8
<1>10. reading' \in [program : {"none", "python", "rust"}, step : TotalSteps,
                     rows : SUBSET Awards, total : Int, multiplier : {1, Multiplier},
                     eligible : BOOLEAN, possible : SUBSET Actions]
  BY <1>1, <1>3, <1>5, <1>6 DEF TotalSteps
<1>11. step = "eligible" => \/ multiplier = OwnMultiplier
                            \/ program = "python" /\ rows = {}
  BY <1>3
<1> QED BY <1>2, <1>4, <1>6, <1>9, <1>10, <1>11 DEF TotalInv

(* A later query.                                                          *)
LEMMA MoreIsRead ==
  ASSUME TotalInv, RustMultiplier \/ ReadEligible \/ ReadPossible \/ TellTotals
  PROVE  TotalInv'
<1>1. UNCHANGED <<awarded, active, multiplied, qualified, changed>>
  BY DEF RustMultiplier, ReadEligible, ReadPossible, TellTotals, NextQuery, tables
<1>2. /\ OwnMultiplier' = OwnMultiplier /\ OwnMultiplier \in {1, Multiplier}
      /\ ActiveAwards' = ActiveAwards
  BY <1>1 DEF OwnMultiplier, ActiveAwards, CountedAwards
<1>3. CASE TellTotals
  <2>1. reading' = NoReading
    BY <1>3 DEF TellTotals, NextQuery
  <2> QED BY <1>1, <2>1 DEF TotalInv, NoReading, TotalSteps
<1>4. CASE RustMultiplier
  <2>1. /\ reading.step = "multiplier"
        /\ reading' = [reading EXCEPT !.step = "eligible", !.multiplier = OwnMultiplier]
    BY <1>4 DEF RustMultiplier, NextQuery
  <2>2. /\ reading' = [program |-> reading.program, step |-> "eligible",
                       rows |-> reading.rows, total |-> reading.total,
                       multiplier |-> OwnMultiplier, eligible |-> reading.eligible,
                       possible |-> reading.possible]
    BY <2>1 DEF TotalInv
  <2>3. ActiveRows' = ActiveRows
    BY <1>1, <2>2 DEF ActiveRows
  <2> QED BY <1>1, <1>2, <2>1, <2>2, <2>3 DEF TotalInv, TotalSteps
<1>5. CASE ReadEligible
  <2>1. /\ reading.step = "eligible"
        /\ reading' = [reading EXCEPT !.step = "possible", !.eligible = qualified]
    BY <1>5 DEF ReadEligible, NextQuery
  <2>2. PICK eligible \in BOOLEAN : eligible = qualified
    BY DEF TotalInv
  <2>3. reading' = [program |-> reading.program, step |-> "possible",
                    rows |-> reading.rows, total |-> reading.total,
                    multiplier |-> reading.multiplier, eligible |-> eligible,
                    possible |-> reading.possible]
    BY <2>1, <2>2 DEF TotalInv
  <2>4. ActiveRows' = ActiveRows
    BY <1>1, <2>3 DEF ActiveRows
  <2> QED BY <1>1, <1>2, <2>1, <2>2, <2>3, <2>4 DEF TotalInv, TotalSteps
<1>6. CASE ReadPossible
  <2>1. /\ reading.step = "possible"
        /\ reading' = [reading EXCEPT !.step = "done", !.possible = active]
    BY <1>6 DEF ReadPossible, NextQuery
  <2>2. reading' = [program |-> reading.program, step |-> "done",
                    rows |-> reading.rows, total |-> reading.total,
                    multiplier |-> reading.multiplier, eligible |-> reading.eligible,
                    possible |-> active]
    BY <2>1 DEF TotalInv
  <2>3. ActiveRows' = ActiveRows
    BY <1>1, <2>2 DEF ActiveRows
  <2> QED BY <1>1, <1>2, <2>1, <2>2, <2>3 DEF TotalInv, TotalSteps
<1> QED BY <1>3, <1>4, <1>5, <1>6

(* The invariant holds in every state.                                     *)
LEMMA TotalInvariance ==
  ASSUME TotalConstants
  PROVE  TotalSpec => []TotalInv
<1>1. ASSUME TotalInit PROVE TotalInv
  <2>1. reading.step = "ready" /\ reading.eligible = FALSE /\ reading = NoReading
    BY <1>1 DEF TotalInit, NoReading
  <2>2. NoReading \in [program : {"none", "python", "rust"}, step : TotalSteps,
                       rows : SUBSET Awards, total : Int, multiplier : {1, Multiplier},
                       eligible : BOOLEAN, possible : SUBSET Actions]
    BY DEF NoReading, TotalSteps
  <2>3. /\ awarded \subseteq Awards /\ active \subseteq Actions
        /\ multiplied \in BOOLEAN /\ qualified \in BOOLEAN
    BY <1>1 DEF TotalInit
  <2> QED BY <2>1, <2>2, <2>3 DEF TotalInv
<1>2. ASSUME TotalInv, [TotalNext]_totalVars PROVE TotalInv'
  <2>1. CASE UNCHANGED totalVars
    BY <1>2, <2>1 DEF totalVars, TotalInv, ActiveRows, ActiveAwards, CountedAwards,
                      OwnMultiplier
  <2> QED BY <1>2, <2>1, TablesChange, PointsAreRead, MoreIsRead DEF TotalNext
<1> QED BY <1>1, <1>2, PTL DEF TotalSpec

(* TotalsAreTrue, for any awards, points and multiplier: both programs     *)
(* tell the points that there are, and never more than their rows show.    *)
THEOREM TotalsTheorem ==
  ASSUME TotalConstants
  PROVE  TotalSpec => []TotalsAreTrue
<1>1. ASSUME TotalInv PROVE TotalsAreTrue
  <2>1. ActiveAwards \in SUBSET Awards
    BY <1>1 DEF TotalInv, ActiveAwards, CountedAwards
  <2>2. ASSUME reading.step = "done", "config" \notin changed
        PROVE  /\ reading.total <= SumOf(ActiveAwards)
               /\ "points" \notin changed => reading.total = SumOf(ActiveAwards)
               /\ ActiveRows \subseteq ActiveAwards
               /\ reading.total = SumOf(ActiveRows)
               /\ reading.possible = active
    <3>1. /\ ActiveRows \subseteq ActiveAwards /\ reading.total = SumOf(ActiveRows)
          /\ "points" \notin changed => ActiveRows = ActiveAwards
          /\ reading.possible = active
      BY <1>1, <2>2 DEF TotalInv
    <3>2. SumOf(ActiveRows) <= SumOf(ActiveAwards)
      BY <2>1, <3>1, SumOfAwards
    <3> QED BY <3>1, <3>2
  <2>3. reading.eligible => qualified
    BY <1>1 DEF TotalInv
  <2>4. ASSUME reading.step = "done", {"qualified", "multipliers"} \cap changed = {}
        PROVE  /\ reading.eligible = qualified
               /\ \/ reading.multiplier = OwnMultiplier
                  \/ reading.program = "python" /\ reading.rows = {}
    BY <1>1, <2>4 DEF TotalInv
  <2> QED BY <2>2, <2>3, <2>4 DEF TotalsAreTrue, ActiveRows
<1> QED BY <1>1, TotalInvariance, PTL

-----------------------------------------------------------------------------
(***************************************************************************)
(* Analyses: the models behind an analysis answer in any order.            *)
(***************************************************************************)
AnalysisSpec == AnalysisInit /\ [][AnalysisNext]_analysisVars

AnyResponse == [kind : Kinds, score : Models \X Nat]

(* The aggregate is none of its submodels, and no response is no response. *)
AnalysisConstants ==
  /\ IsFiniteSet(Models) /\ Aggregate \in Models
  /\ SubModels \subseteq Models \ {Aggregate} /\ None \notin AnyResponse

ModelsOf(pairs) == {p.model : p \in pairs}
NamedModels == analysis.names \ {Aggregate}

(* The models that are called at a step, and those called by then.         *)
CalledAt(step) ==
  IF step = "fetch" THEN NamedModels
  ELSE IF step = "submodels" THEN SubModels \ analysis.names
  ELSE IF step = "aggregate" THEN {Aggregate} ELSE {}
CalledBy(step) ==
  IF step = "fetch" THEN NamedModels
  ELSE IF step = "submodels" THEN NamedModels \cup SubModels ELSE {}

(* The calls are one of each model, and bear what their model said.        *)
CallsAre(models) ==
  /\ fetches = [i \in DOMAIN fetches |-> fetches[i]]
  /\ \A i \in DOMAIN fetches : /\ fetches[i] = Pair(fetches[i].model, fetches[i].response)
                               /\ fetches[i].model \in models
  /\ \A m \in models : \E i \in DOMAIN fetches : fetches[i].model = m
  /\ \A i, j \in DOMAIN fetches : fetches[i].model = fetches[j].model => i = j
  /\ \A i \in DOMAIN fetches :
       IF fetches[i].response = None THEN said[fetches[i].model] = <<>>
       ELSE said[fetches[i].model] = <<fetches[i].response>>

(* Each pair is what its model said, and all that it said.                 *)
Quotes(pairs) ==
  \A p \in pairs :
    /\ p = Pair(p.model, p.response) /\ p.model \in Models
    /\ said[p.model] = <<p.response>>

AnalysisInv ==
  /\ analysis = [step |-> analysis.step, names |-> analysis.names,
                 single |-> analysis.single]
  /\ analysis.step \in {"ready", "fetch", "submodels", "aggregate", "build",
                        "answered", "refused", "error"}
  /\ analysis.names \subseteq Models
  /\ said = [m \in Models |-> said[m]]
  /\ CallsAre(CalledAt(analysis.step))
  /\ Quotes(paired) /\ Quotes(payload)
  /\ analysis.step \in {"ready", "fetch", "submodels"} =>
       \A m \in Models \ CalledBy(analysis.step) : said[m] = <<>>
  /\ analysis.step = "ready" => fetches = <<>>
  /\ analysis.step \in {"ready", "fetch"} => paired = {}
  /\ analysis.step \in {"submodels", "aggregate"} =>
       Aggregate \in analysis.names /\ ModelsOf(paired) = NamedModels
  /\ analysis.step \in {"build", "answered"} => ModelsOf(paired) = analysis.names
  /\ analysis.step \in {"aggregate", "build", "answered"} /\ Aggregate \in analysis.names =>
       /\ ModelsOf(payload) = SubModels
       /\ \A p \in payload : p.model \in analysis.names => p \in paired
  /\ analysis.step = "answered" => \A p \in paired : p.response.kind = "ok"

(* A sequence of a set that repeats nothing has every element of it.       *)
LEMMA SequenceHasAll ==
  ASSUME NEW S, IsFiniteSet(S), NEW q \in SetToSeqs(S)
  PROVE  /\ q \in [1..Cardinality(S) -> S] /\ \A i, j \in DOMAIN q : q[i] = q[j] => i = j
         /\ \A x \in S : \E i \in DOMAIN q : q[i] = x
<1>1. PICK n : n = Cardinality(S)
  OBVIOUS
<1>2. n \in Nat /\ IsFiniteSet(1..n) /\ Cardinality(1..n) = n
  <2>1. n \in Nat
    BY <1>1, FS_CardinalityType
  <2>2. IsFiniteSet(1..n) /\ Cardinality(1..n) = IF 1 > n THEN 0 ELSE n - 1 + 1
    BY <2>1, FS_Interval
  <2> QED BY <2>1, <2>2
<1>3. q \in [1..n -> S] /\ \A i, j \in 1..n : i # j => q[i] # q[j]
  BY <1>1 DEF SetToSeqs
<1>4. q \in Injection(1..n, S)
  BY <1>3 DEF Injection, IsInjective
<1>5. q \in Surjection(1..n, S)
  BY <1>1, <1>2, <1>4, FS_Injection
<1>6. \A x \in S : \E i \in 1..n : q[i] = x
  BY <1>5 DEF Surjection
<1> QED BY <1>1, <1>3, <1>6

(* Models that have said nothing are called.                               *)
LEMMA AllAreCalled ==
  ASSUME AnalysisConstants, NEW models \in SUBSET Models, CallAll(models),
         UNCHANGED said, \A m \in models : said[m] = <<>>
  PROVE  CallsAre(models)'
<1>1. IsFiniteSet(models)
  BY FS_Subset DEF AnalysisConstants
<1>2. PICK order \in SetToSeqs(models) :
        fetches' = [i \in DOMAIN order |-> Pair(order[i], None)]
  BY DEF CallAll
<1>3. /\ \A i \in DOMAIN order : order[i] \in models
      /\ \A i, j \in DOMAIN order : order[i] = order[j] => i = j
      /\ \A m \in models : \E i \in DOMAIN order : order[i] = m
  <2>1. /\ order \in [1..Cardinality(models) -> models]
        /\ \A i, j \in DOMAIN order : order[i] = order[j] => i = j
        /\ \A x \in models : \E i \in DOMAIN order : order[i] = x
    BY <1>1, <1>2, SequenceHasAll
  <2>2. \A i \in DOMAIN order : order[i] \in models
    BY <2>1
  <2> QED BY <2>1, <2>2
<1>4. /\ DOMAIN fetches' = DOMAIN order /\ fetches' = [i \in DOMAIN fetches' |-> fetches'[i]]
      /\ \A i \in DOMAIN order : /\ fetches'[i] = Pair(order[i], None)
                                 /\ fetches'[i].model = order[i]
                                 /\ fetches'[i].response = None
  BY <1>2 DEF Pair
<1> QED BY <1>3, <1>4 DEF CallsAre

(* No model is called.                                                     *)
LEMMA NoneIsCalled ==
  ASSUME fetches' = <<>>
  PROVE  CallsAre({})'
BY DEF CallsAre

(* What was gathered is what the models said.                              *)
LEMMA GatheredAre ==
  ASSUME NEW models \in SUBSET Models, CallsAre(models), Gathered
  PROVE  Quotes(Zipped) /\ ModelsOf(Zipped) = models
<1>1. ASSUME NEW p \in Zipped
      PROVE  /\ p = Pair(p.model, p.response) /\ p.model \in models
             /\ said[p.model] = <<p.response>>
  <2>1. PICK i \in DOMAIN fetches : p = fetches[i]
    BY <1>1 DEF Zipped
  <2> QED BY <2>1 DEF CallsAre, Gathered
<1>2. \A m \in models : \E p \in Zipped : p.model = m
  BY DEF CallsAre, Zipped
<1> QED BY <1>1, <1>2 DEF Quotes, ModelsOf

(* A client asks.                                                          *)
LEMMA AskStep ==
  ASSUME AnalysisConstants, AnalysisInv, Ask
  PROVE  AnalysisInv'
<1>1. PICK names \in Asked :
        IF names \subseteq Models /\ (analysis.single => \A m, n \in names : m = n)
        THEN /\ analysis' = [analysis EXCEPT !.step = "fetch", !.names = names]
             /\ CallAll(names \ {Aggregate})
        ELSE Goto("refused") /\ UNCHANGED fetches
  BY DEF Ask
<1>2. /\ analysis.step = "ready" /\ UNCHANGED <<paired, payload, said>>
      /\ paired = {} /\ fetches = <<>> /\ \A m \in Models : said[m] = <<>>
      /\ said = [m \in Models |-> said[m]] /\ Quotes(paired) /\ Quotes(payload)
  BY DEF Ask, AnalysisInv, CalledBy
<1>3. Quotes(paired)' /\ Quotes(payload)'
  BY <1>2 DEF Quotes
<1>4. CASE /\ names \subseteq Models
           /\ analysis' = [analysis EXCEPT !.step = "fetch", !.names = names]
           /\ CallAll(names \ {Aggregate})
  <2>1. analysis' = [step |-> "fetch", names |-> names, single |-> analysis.single]
    BY <1>4 DEF AnalysisInv
  <2>2. PICK models \in SUBSET Models : models = names \ {Aggregate}
    BY <1>4
  <2>3. CallsAre(models)'
    BY <1>2, <1>4, <2>2, AllAreCalled
  <2>4. CalledAt(analysis.step)' = models /\ CalledBy(analysis.step)' = models
    BY <2>1, <2>2 DEF CalledAt, CalledBy, NamedModels
  <2> QED BY <1>2, <1>3, <1>4, <2>1, <2>3, <2>4 DEF AnalysisInv
<1>5. CASE Goto("refused") /\ UNCHANGED fetches
  <2>1. analysis' = [step |-> "refused", names |-> analysis.names, single |-> analysis.single]
    BY <1>5 DEF Goto, AnalysisInv
  <2>2. CallsAre({})' /\ CalledAt(analysis.step)' = {}
    BY <1>2, <1>5, <2>1, NoneIsCalled DEF CalledAt
  <2> QED BY <1>2, <1>3, <2>1, <2>2 DEF AnalysisInv
<1> QED BY <1>1, <1>4, <1>5

(* A model answers.                                                        *)
LEMMA RespondStep ==
  ASSUME AnalysisConstants, AnalysisInv, ModelAnswers
  PROVE  AnalysisInv'
<1>1. PICK i \in DOMAIN fetches, kind \in Kinds : Respond(i, kind)
  BY DEF ModelAnswers
<1>2. PICK m : m = fetches[i].model
  OBVIOUS
<1>3. PICK response : response = [kind |-> kind, score |-> <<m, Len(said[m]) + 1>>]
  OBVIOUS
<1>4. PICK models : models = CalledAt(analysis.step)
  OBVIOUS
<1>5. /\ fetches[i].response = None /\ CallsAre(models) /\ m \in models
      /\ fetches' = [fetches EXCEPT ![i].response = response]
      /\ said' = [said EXCEPT ![m] = Append(@, response)]
      /\ UNCHANGED <<analysis, paired, payload>>
      /\ Quotes(paired) /\ Quotes(payload) /\ said = [x \in Models |-> said[x]]
  BY <1>1, <1>2, <1>3, <1>4 DEF Respond, AnalysisInv, CallsAre
<1>6. models \subseteq Models
  BY <1>4 DEF CalledAt, NamedModels, AnalysisInv, AnalysisConstants
<1>7. said[m] = <<>> /\ Len(said[m]) = 0
  BY <1>2, <1>5 DEF CallsAre
<1>8. response \in AnyResponse /\ response # None
  <2>1. response = [kind |-> kind, score |-> <<m, 1>>]
    BY <1>3, <1>7
  <2>2. response \in AnyResponse
    BY <1>5, <1>6, <2>1 DEF AnyResponse
  <2> QED BY <2>2 DEF AnalysisConstants
<1>9. /\ said' = [x \in Models |-> said'[x]] /\ said'[m] = <<response>>
      /\ \A x \in Models : x # m => said'[x] = said[x]
  <2>1. said' = [said EXCEPT ![m] = <<response>>]
    <3>1. said' = [said EXCEPT ![m] = Append(said[m], response)]
      BY <1>5
    <3>2. Append(<<>>, response) = <<response>>
      OBVIOUS
    <3> QED BY <1>7, <3>1, <3>2
  <2> QED BY <1>5, <1>6, <2>1
<1>10. /\ DOMAIN fetches' = DOMAIN fetches
       /\ fetches' = [j \in DOMAIN fetches' |-> fetches'[j]]
       /\ fetches'[i] = Pair(m, response)
       /\ \A j \in DOMAIN fetches : j # i => fetches'[j] = fetches[j]
  <2>1. fetches[i] = Pair(m, None)
    BY <1>2, <1>5 DEF CallsAre
  <2>2. [fetches[i] EXCEPT !.response = response] = Pair(m, response)
    BY <2>1 DEF Pair
  <2>3. fetches' = [fetches EXCEPT ![i] = Pair(m, response)]
    BY <1>5, <2>2
  <2>4. fetches = [j \in DOMAIN fetches |-> fetches[j]]
    BY <1>5 DEF CallsAre
  <2> QED BY <2>3, <2>4
<1>11. fetches'[i].model = m /\ fetches'[i].response = response
  BY <1>10 DEF Pair
<1>12. \A j \in DOMAIN fetches : j # i => fetches[j].model # m /\ fetches[j].model \in Models
  BY <1>2, <1>5, <1>6 DEF CallsAre
<1>13. \A j \in DOMAIN fetches : fetches'[j].model = fetches[j].model
  BY <1>2, <1>10, <1>11
<1>14. CallsAre(models)'
  <2>0. \A j \in DOMAIN fetches : fetches'[j] = Pair(fetches'[j].model, fetches'[j].response)
    BY <1>5, <1>10, <1>11 DEF CallsAre
  <2>1. /\ \A j \in DOMAIN fetches : fetches'[j].model \in models
        /\ \A x \in models : \E j \in DOMAIN fetches : fetches'[j].model = x
        /\ \A j, k \in DOMAIN fetches : fetches'[j].model = fetches'[k].model => j = k
    BY <1>5, <1>13 DEF CallsAre
  <2>2. ASSUME NEW j \in DOMAIN fetches
        PROVE  IF fetches'[j].response = None THEN said'[fetches'[j].model] = <<>>
               ELSE said'[fetches'[j].model] = <<fetches'[j].response>>
    <3>1. CASE j = i
      BY <1>8, <1>9, <1>11, <3>1
    <3>2. CASE j # i
      <4>1. fetches'[j] = fetches[j] /\ said'[fetches[j].model] = said[fetches[j].model]
        BY <1>9, <1>10, <1>12, <3>2
      <4> QED BY <1>5, <4>1 DEF CallsAre
    <3> QED BY <3>1, <3>2
  <2> QED BY <1>10, <2>0, <2>1, <2>2 DEF CallsAre
<1>15. Quotes(paired)' /\ Quotes(payload)'
  <2>1. ASSUME NEW p \in paired \cup payload PROVE p.model # m /\ p.model \in Models
    <3>1. p.model \in Models /\ said[p.model] = <<p.response>>
      BY <1>5 DEF Quotes
    <3>2. \A r : <<r>> # <<>>
      OBVIOUS
    <3> QED BY <1>7, <3>1, <3>2
  <2> QED BY <1>5, <1>9, <2>1 DEF Quotes
<1>16. CalledAt(analysis.step)' = models /\ CalledBy(analysis.step)' = CalledBy(analysis.step)
  BY <1>4, <1>5 DEF CalledAt, CalledBy, NamedModels
<1>17. analysis.step \in {"ready", "fetch", "submodels"} => m \in CalledBy(analysis.step)
  BY <1>4, <1>5 DEF CalledAt, CalledBy
<1>18. analysis.step \in {"ready", "fetch", "submodels"} =>
         \A x \in Models \ CalledBy(analysis.step) : said'[x] = <<>>
  BY <1>9, <1>17 DEF AnalysisInv
<1>19. analysis.step # "ready"
  BY <1>4, <1>5 DEF CalledAt
<1> QED
  BY <1>5, <1>9, <1>14, <1>15, <1>16, <1>18, <1>19 DEF AnalysisInv, NamedModels

(* The models that were asked for have answered.                           *)
LEMMA GatherAskedStep ==
  ASSUME AnalysisConstants, AnalysisInv, GatherAsked
  PROVE  AnalysisInv'
<1>1. /\ analysis.step = "fetch" /\ Gathered /\ paired' = Zipped
      /\ UNCHANGED <<payload, said>> /\ analysis.names \subseteq Models
      /\ analysis = [step |-> analysis.step, names |-> analysis.names,
                     single |-> analysis.single]
      /\ said = [m \in Models |-> said[m]] /\ Quotes(payload)
  BY DEF GatherAsked, AnalysisInv
<1>2. NamedModels \in SUBSET Models /\ CallsAre(NamedModels)
  BY <1>1 DEF NamedModels, AnalysisInv, CalledAt
<1>3. Quotes(Zipped) /\ ModelsOf(Zipped) = NamedModels
  BY <1>1, <1>2, GatheredAre
<1>4. Quotes(paired)' /\ Quotes(payload)' /\ ModelsOf(paired') = NamedModels
  BY <1>1, <1>3 DEF Quotes
<1>5. \A m \in Models \ NamedModels : said[m] = <<>>
  BY <1>1 DEF AnalysisInv, CalledBy
<1>6. CASE Goto("error") /\ fetches' = <<>>
  <2>1. analysis' = [step |-> "error", names |-> analysis.names, single |-> analysis.single]
    BY <1>1, <1>6 DEF Goto
  <2>2. CallsAre({})' /\ CalledAt(analysis.step)' = {}
    BY <1>6, <2>1, NoneIsCalled DEF CalledAt
  <2> QED BY <1>1, <1>4, <2>1, <2>2 DEF AnalysisInv
<1>7. CASE /\ Aggregate \in analysis.names
           /\ Goto("submodels") /\ CallAll(SubModels \ analysis.names)
  <2>1. analysis' = [step |-> "submodels", names |-> analysis.names,
                     single |-> analysis.single]
    BY <1>1, <1>7 DEF Goto
  <2>2. PICK models \in SUBSET Models : models = SubModels \ analysis.names
    BY DEF AnalysisConstants
  <2>3. CallsAre(models)'
    BY <1>1, <1>5, <1>7, <2>2, AllAreCalled DEF NamedModels
  <2>4. /\ CalledAt(analysis.step)' = models /\ NamedModels' = NamedModels
        /\ CalledBy(analysis.step)' = NamedModels \cup SubModels
    BY <2>1, <2>2 DEF CalledAt, CalledBy, NamedModels
  <2>5. \A m \in Models \ (NamedModels \cup SubModels) : said'[m] = <<>>
    BY <1>1, <1>5
  <2> QED BY <1>1, <1>4, <1>7, <2>1, <2>3, <2>4, <2>5 DEF AnalysisInv
<1>8. CASE Aggregate \notin analysis.names /\ Goto("build") /\ fetches' = <<>>
  <2>1. analysis' = [step |-> "build", names |-> analysis.names, single |-> analysis.single]
    BY <1>1, <1>8 DEF Goto
  <2>2. CallsAre({})' /\ CalledAt(analysis.step)' = {}
    BY <1>8, <2>1, NoneIsCalled DEF CalledAt
  <2>3. NamedModels = analysis.names
    BY <1>8 DEF NamedModels
  <2> QED BY <1>1, <1>4, <1>8, <2>1, <2>2, <2>3 DEF AnalysisInv
<1> QED BY <1>6, <1>7, <1>8 DEF GatherAsked

(* The submodels have answered, and the aggregate is told.                 *)
LEMMA TellAggregateStep ==
  ASSUME AnalysisConstants, AnalysisInv, TellAggregate
  PROVE  AnalysisInv'
<1>1. PICK told : told = {p \in paired : p.model \in SubModels} \cup Zipped
  OBVIOUS
<1>2. /\ analysis.step = "submodels" /\ Gathered /\ UNCHANGED <<paired, said>>
      /\ \/ Goto("aggregate") /\ payload' = told /\ CallAll({Aggregate})
         \/ Goto("error") /\ fetches' = <<>> /\ UNCHANGED payload
  BY <1>1 DEF TellAggregate
<1>3. /\ Aggregate \in analysis.names /\ analysis.names \subseteq Models
      /\ analysis = [step |-> analysis.step, names |-> analysis.names,
                     single |-> analysis.single]
      /\ said = [m \in Models |-> said[m]] /\ Quotes(paired) /\ Quotes(payload)
      /\ ModelsOf(paired) = NamedModels
      /\ \A m \in Models \ (NamedModels \cup SubModels) : said[m] = <<>>
  BY <1>2 DEF AnalysisInv, CalledBy
<1>4. PICK models \in SUBSET Models : models = SubModels \ analysis.names
  BY DEF AnalysisConstants
<1>5. CallsAre(models)
  BY <1>2, <1>4 DEF AnalysisInv, CalledAt
<1>6. Quotes(Zipped) /\ ModelsOf(Zipped) = models
  BY <1>2, <1>5, GatheredAre
<1>7. Quotes(told)
  BY <1>1, <1>3, <1>6 DEF Quotes
<1>8. ModelsOf(told) = SubModels
  <2>1. \A p \in told : p.model \in SubModels
    BY <1>1, <1>4, <1>6 DEF ModelsOf
  <2>2. ASSUME NEW m \in SubModels PROVE \E p \in told : p.model = m
    <3>1. m # Aggregate
      BY DEF AnalysisConstants
    <3>2. m \in ModelsOf(paired) \cup ModelsOf(Zipped)
      BY <1>3, <1>4, <1>6, <3>1 DEF NamedModels
    <3> QED BY <1>1, <3>2 DEF ModelsOf
  <2> QED BY <2>1, <2>2 DEF ModelsOf
<1>9. \A p \in told : p.model \in analysis.names => p \in paired
  BY <1>1, <1>4, <1>6 DEF ModelsOf
<1>10. Quotes(paired)'
  BY <1>2, <1>3 DEF Quotes
<1>11. CASE Goto("aggregate") /\ payload' = told /\ CallAll({Aggregate})
  <2>1. analysis' = [step |-> "aggregate", names |-> analysis.names,
                     single |-> analysis.single]
    BY <1>3, <1>11 DEF Goto
  <2>2. PICK those \in SUBSET Models : those = {Aggregate}
    BY DEF AnalysisConstants
  <2>3. \A m \in those : said[m] = <<>>
    BY <1>3, <2>2 DEF NamedModels, AnalysisConstants
  <2>4. CallsAre(those)'
    BY <1>2, <1>11, <2>2, <2>3, AllAreCalled
  <2>5. CalledAt(analysis.step)' = those /\ NamedModels' = NamedModels
    BY <2>1, <2>2 DEF CalledAt, NamedModels
  <2>6. Quotes(payload)'
    BY <1>2, <1>7, <1>11 DEF Quotes
  <2> QED
    BY <1>2, <1>3, <1>8, <1>9, <1>10, <1>11, <2>1, <2>4, <2>5, <2>6 DEF AnalysisInv
<1>12. CASE Goto("error") /\ fetches' = <<>> /\ UNCHANGED payload
  <2>1. analysis' = [step |-> "error", names |-> analysis.names, single |-> analysis.single]
    BY <1>3, <1>12 DEF Goto
  <2>2. CallsAre({})' /\ CalledAt(analysis.step)' = {}
    BY <1>12, <2>1, NoneIsCalled DEF CalledAt
  <2>3. Quotes(payload)'
    BY <1>2, <1>3, <1>12 DEF Quotes
  <2> QED BY <1>2, <1>3, <1>10, <2>1, <2>2, <2>3 DEF AnalysisInv
<1> QED BY <1>2, <1>11, <1>12

(* The aggregate has answered.                                             *)
LEMMA GatherAggregateStep ==
  ASSUME AnalysisConstants, AnalysisInv, GatherAggregate
  PROVE  AnalysisInv'
<1>1. PICK next \in {"build", "error"} : Goto(next)
  BY DEF GatherAggregate
<1>2. /\ analysis.step = "aggregate" /\ Gathered /\ paired' = paired \cup Zipped
      /\ fetches' = <<>> /\ UNCHANGED <<payload, said>>
  BY DEF GatherAggregate
<1>3. /\ Aggregate \in analysis.names /\ analysis.names \subseteq Models
      /\ analysis = [step |-> analysis.step, names |-> analysis.names,
                     single |-> analysis.single]
      /\ said = [m \in Models |-> said[m]] /\ Quotes(paired) /\ Quotes(payload)
      /\ ModelsOf(paired) = NamedModels /\ ModelsOf(payload) = SubModels
      /\ \A p \in payload : p.model \in analysis.names => p \in paired
  BY <1>2 DEF AnalysisInv
<1>4. PICK those \in SUBSET Models : those = {Aggregate}
  BY DEF AnalysisConstants
<1>5. CallsAre(those)
  BY <1>2, <1>4 DEF AnalysisInv, CalledAt
<1>6. Quotes(Zipped) /\ ModelsOf(Zipped) = those
  BY <1>2, <1>5, GatheredAre
<1>7. analysis' = [step |-> next, names |-> analysis.names, single |-> analysis.single]
  BY <1>1, <1>3 DEF Goto
<1>8. CallsAre({})' /\ CalledAt(analysis.step)' = {}
  BY <1>1, <1>2, <1>7, NoneIsCalled DEF CalledAt
<1>9. Quotes(paired)' /\ Quotes(payload)'
  BY <1>2, <1>3, <1>6 DEF Quotes
<1>10. ModelsOf(paired') = analysis.names
  <2>1. ModelsOf(paired') = ModelsOf(paired) \cup ModelsOf(Zipped)
    BY <1>2 DEF ModelsOf
  <2> QED BY <1>3, <1>4, <1>6, <2>1 DEF NamedModels
<1> QED BY <1>1, <1>2, <1>3, <1>7, <1>8, <1>9, <1>10 DEF AnalysisInv

(* The answer is built.                                                    *)
LEMMA BuildAnswerStep ==
  ASSUME AnalysisInv, BuildAnswer
  PROVE  AnalysisInv'
<1>1. PICK next \in {"answered", "error"} :
        Goto(next) /\ (next = "answered" => \A p \in paired : p.response.kind = "ok")
  BY DEF BuildAnswer
<1>2. /\ analysis.step = "build" /\ UNCHANGED <<fetches, paired, payload, said>>
      /\ analysis' = [step |-> next, names |-> analysis.names, single |-> analysis.single]
  BY <1>1 DEF BuildAnswer, Goto, AnalysisInv
<1>3. /\ CallsAre(CalledAt(analysis.step)) /\ Quotes(paired) /\ Quotes(payload)
      /\ said = [m \in Models |-> said[m]] /\ analysis.names \subseteq Models
      /\ ModelsOf(paired) = analysis.names
      /\ Aggregate \in analysis.names =>
           /\ ModelsOf(payload) = SubModels
           /\ \A p \in payload : p.model \in analysis.names => p \in paired
  BY <1>2 DEF AnalysisInv
<1>4. Quotes(paired)' /\ Quotes(payload)' /\ CallsAre({})' /\ CalledAt(analysis.step)' = {}
  BY <1>1, <1>2, <1>3 DEF Quotes, CallsAre, CalledAt
<1> QED BY <1>1, <1>2, <1>3, <1>4 DEF AnalysisInv

(* The invariant holds in every state.                                     *)
LEMMA AnalysisInvariance ==
  ASSUME AnalysisConstants
  PROVE  AnalysisSpec => []AnalysisInv
<1>1. ASSUME AnalysisInit PROVE AnalysisInv
  <2>1. PICK single \in BOOLEAN :
          analysis = [step |-> "ready", names |-> {}, single |-> single]
    BY <1>1 DEF AnalysisInit
  <2>2. /\ CallsAre({}) /\ CalledAt(analysis.step) = {}
        /\ Quotes(paired) /\ Quotes(payload)
    BY <1>1, <2>1 DEF AnalysisInit, CallsAre, CalledAt, Quotes
  <2>3. \A m \in Models : said[m] = <<>>
    BY <1>1 DEF AnalysisInit
  <2>4. said = [m \in Models |-> said[m]] /\ fetches = <<>> /\ paired = {}
    BY <1>1 DEF AnalysisInit
  <2> QED BY <2>1, <2>2, <2>3, <2>4 DEF AnalysisInv
<1>2. ASSUME AnalysisInv, [AnalysisNext]_analysisVars PROVE AnalysisInv'
  <2>1. CASE UNCHANGED analysisVars
    BY <1>2, <2>1, SMTT(30)
    DEF analysisVars, AnalysisInv, Quotes, CallsAre, CalledAt, CalledBy, NamedModels
  <2> QED
    BY <1>2, <2>1, AskStep, RespondStep, GatherAskedStep, TellAggregateStep,
       GatherAggregateStep, BuildAnswerStep DEF AnalysisNext
<1> QED BY <1>1, <1>2, PTL DEF AnalysisSpec

(* AnalysesAreTheirs, for any models and any requests: in whatever order   *)
(* the models answer, an answer has what each model that was asked for     *)
(* said, and the aggregate was told what its submodels said.               *)
THEOREM AnalysesTheorem ==
  ASSUME AnalysisConstants
  PROVE  AnalysisSpec => []AnalysesAreTheirs
<1>1. ASSUME AnalysisInv PROVE AnalysesAreTheirs
  <2>1. ASSUME analysis.step = "answered"
        PROVE  /\ ModelsOf(paired) = analysis.names
               /\ \A p \in paired :
                    /\ \A q \in paired : q.model = p.model => q = p
                    /\ p.response.kind = "ok" /\ \E i \in DOMAIN said[p.model] :
                         said[p.model][i] = p.response
               /\ Aggregate \in analysis.names =>
                    /\ ModelsOf(payload) = SubModels
                    /\ \A p \in payload :
                         /\ said[p.model] = <<p.response>>
                         /\ p.model \in analysis.names => p \in paired
    <3>1. Quotes(paired) /\ Quotes(payload)
      BY <1>1 DEF AnalysisInv
    <3>2. ASSUME NEW p \in paired, NEW q \in paired, q.model = p.model PROVE q = p
      <4>1. <<p.response>> = <<q.response>>
        BY <3>1, <3>2 DEF Quotes
      <4>2. \A r, s : <<r>> = <<s>> => r = s
        OBVIOUS
      <4> QED BY <3>1, <3>2, <4>1, <4>2 DEF Quotes
    <3>3. ASSUME NEW p \in paired
          PROVE  \E i \in DOMAIN said[p.model] : said[p.model][i] = p.response
      <4>1. said[p.model] = <<p.response>>
        BY <3>1 DEF Quotes
      <4>2. \A r : 1 \in DOMAIN <<r>> /\ <<r>>[1] = r
        OBVIOUS
      <4> QED BY <4>1, <4>2
    <3>4. \A p \in paired : p.response.kind = "ok"
      BY <1>1, <2>1 DEF AnalysisInv
    <3>5. /\ ModelsOf(paired) = analysis.names
          /\ Aggregate \in analysis.names =>
               /\ ModelsOf(payload) = SubModels
               /\ \A p \in payload : p.model \in analysis.names => p \in paired
      BY <1>1, <2>1 DEF AnalysisInv
    <3>6. \A p \in payload : said[p.model] = <<p.response>>
      BY <3>1 DEF Quotes
    <3> QED BY <3>2, <3>3, <3>4, <3>5, <3>6
  <2> QED BY <2>1 DEF AnalysesAreTheirs, ModelsOf
<1> QED BY <1>1, AnalysisInvariance, PTL

=============================================================================
