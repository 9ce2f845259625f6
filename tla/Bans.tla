-------------------------------- MODULE Bans --------------------------------
(***************************************************************************)
(* The bans (src/api/ceramic_cache/models.py: Ban): how admins add, edit,  *)
(* upload and delete them, the admin action that revokes the matching      *)
(* credentials of the selected bans, and the checks of credentials against *)
(* them, in Python (src/api/internal/bans_revocations.py) and in Rust      *)
(* (src/rust-scorer/src/domain/bans.rs).  The action loads the bans once,  *)
(* and after revoking row by row what a ban matches it saves the ban, with *)
(* all its columns, as it was loaded.                                      *)
(***************************************************************************)
EXTENDS Integers, Sequences, FiniteSets

CONSTANTS
  Runs,       \* the runs of the admin action at a time
  Stamps,     \* the live rows of the ceramic cache: address, provider, hash
  Offered,    \* the bans that admins may enter
  OldBan,     \* a ban of a hash, from before these were disabled
  LastBan,    \* bound on the ids
  LastDay,    \* bound on the clock
  Empty,      \* the empty string
  Nothing     \* no row, no hash

VARIABLES
  banTime,   \* the clock
  bans,      \* the Ban row of each id, or Nothing
  revoked,   \* the stamps that have a Revocation
  marked,    \* for which ban last_run_revoke_matching was set
  acting,    \* the runs of the action
  verdict,   \* where the last check was wrong
  meant,     \* history: the bans as the admins left them
  overtaken  \* history: bans that changed after a run had loaded them

banVars ==
  <<banTime, bans, revoked, marked, acting, verdict, meant, overtaken>>

Ids == 1..LastBan
Forever == LastDay + 1
Live == {i \in Ids : bans[i] # Nothing}
Active(ban) == ban.until > banTime

NotActing == [step |-> "idle", queue |-> <<>>, found |-> {}]
Unasked == [inexact |-> FALSE, missed |-> {}, extra |-> {}]

BanTypeOK ==
  /\ banTime \in 0..LastDay
  /\ \A i \in Ids : bans[i] \in Offered \cup {OldBan, Nothing}
  /\ revoked \subseteq Stamps
  /\ \A i \in Ids : marked[i] \in Offered \cup {Nothing}
  /\ \A r \in Runs : /\ acting[r].step \in {"idle", "find", "revoke", "save"}
                     /\ Len(acting[r].queue) <= LastBan
                     /\ acting[r].found \subseteq Stamps
  /\ \A i \in Ids : meant[i] \in Offered \cup {OldBan, Nothing}
  /\ overtaken \subseteq Ids

BanInit ==
  /\ banTime = 0
  /\ bans = [i \in Ids |-> IF i = 1 THEN OldBan ELSE Nothing]
  /\ revoked = {}
  /\ marked = [i \in Ids |-> Nothing]
  /\ acting = [r \in Runs |-> NotActing]
  /\ verdict = Unasked
  /\ meant = bans
  /\ overtaken = {}

-----------------------------------------------------------------------------
(***************************************************************************)
(* The admins.                                                             *)
(***************************************************************************)
(* full_clean: the choices of the type, and clean.                         *)
Valid(ban) ==
  /\ ban.type \in {"account", "single_stamp"}
  /\ ban.address # Empty /\ ban.hash = Empty
  /\ (ban.type = "account") = (ban.provider = Empty)

Loaded(i) ==
  \E r \in Runs : \E n \in DOMAIN acting[r].queue : acting[r].queue[n][1] = i

Enter(changes) ==
  LET Left(old) == [i \in Ids |-> IF i \in DOMAIN changes THEN changes[i] ELSE old[i]] IN
  /\ bans' = Left(bans)
  /\ meant' = Left(meant)
  /\ overtaken' = overtaken \cup {i \in DOMAIN changes : Loaded(i)}
  /\ verdict' = Unasked
  /\ UNCHANGED <<banTime, revoked, marked, acting>>

(* A row that has an id never has had another one.                         *)
Unused == {i \in Ids : /\ bans[i] = Nothing /\ i \notin overtaken
                       /\ \A j \in Ids : j > i => bans[j] = Nothing}

AddBan ==
  \E i \in Unused, ban \in Offered :
    Valid(ban) /\ (\A j \in Unused : i <= j) /\ Enter([j \in {i} |-> ban])

EditBan ==
  \E i \in Live, ban \in Offered :
    Valid(ban) /\ ban # bans[i] /\ Enter([j \in {i} |-> ban])

DeleteBan == \E i \in Live : Enter([j \in {i} |-> Nothing])

(* A list is created in one transaction, if every line of it is valid.     *)
UploadBans ==
  \E lines \in [Unused -> Offered] :
    Unused # {} /\ (\A i \in Unused : Valid(lines[i])) /\ Enter(lines)

BanTick ==
  /\ banTime < LastDay
  /\ banTime' = banTime + 1
  /\ verdict' = Unasked
  /\ UNCHANGED <<bans, revoked, marked, acting, meant, overtaken>>

-----------------------------------------------------------------------------
(***************************************************************************)
(* revoke_matching_credentials_action; what else deletes and revokes       *)
(* stamps is in CeramicCache.                                              *)
(***************************************************************************)
RevokedElsewhere ==
  /\ \E s \in Stamps \ revoked : revoked' = revoked \cup {s}
  /\ verdict' = Unasked
  /\ UNCHANGED <<banTime, bans, marked, acting, meant, overtaken>>

Act(r, from, to) ==
  /\ acting[r].step = from
  /\ acting' = [acting EXCEPT ![r] = to]
  /\ verdict' = Unasked
  /\ UNCHANGED <<banTime, meant, overtaken>>

(* The queryset of the bans that are selected is read once.                *)
SelectBans(r) ==
  \E chosen \in (SUBSET Live) \ {{}} :
    LET queue == CHOOSE q \in [1..Cardinality(chosen) -> chosen] :
                   \A m, n \in DOMAIN q : m < n => q[m] < q[n] IN
    /\ Act(r, "idle", [NotActing EXCEPT !.step = "find",
                         !.queue = [n \in DOMAIN queue |-> <<queue[n], bans[queue[n]]>>]])
    /\ UNCHANGED <<bans, revoked, marked>>

Matches(ban, s) ==
  /\ ban.provider \in {Empty, s.provider}
  /\ ban.address \in {Empty, s.address}
  /\ ban.hash \in {Empty, s.hash}

FindMatching(r) ==
  LET ban == Head(acting[r].queue)[2] IN
  /\ Act(r, "find", [acting[r] EXCEPT !.step = "revoke",
                       !.found = {s \in Stamps \ revoked : Matches(ban, s)}])
  /\ UNCHANGED <<bans, revoked, marked>>

(* After a ban, saved or not, comes the next one.                          *)
NextBan(r) ==
  LET rest == Tail(acting[r].queue) IN
  [step |-> IF rest = <<>> THEN "idle" ELSE "find", queue |-> rest, found |-> {}]

RevokeStamp(r) ==
  /\ \E s \in acting[r].found :
       IF s \in revoked  \* the unique constraint: the error is reported
       THEN Act(r, "revoke", NextBan(r)) /\ UNCHANGED revoked
       ELSE /\ Act(r, "revoke", [acting[r] EXCEPT !.found = @ \ {s}])
            /\ revoked' = revoked \cup {s}
  /\ UNCHANGED <<bans, marked>>

AllRevoked(r) ==
  /\ acting[r].found = {}
  /\ Act(r, "revoke", [acting[r] EXCEPT !.step = "save"])
  /\ UNCHANGED <<bans, revoked, marked>>

(* save begins with full_clean, which refuses a ban of a hash; a ban that  *)
(* was deleted in the meantime is inserted again.                          *)
SaveBan(r) ==
  LET i == Head(acting[r].queue)[1]
      ban == Head(acting[r].queue)[2] IN
  /\ Act(r, "save", NextBan(r))
  /\ bans' = IF Valid(ban) THEN [bans EXCEPT ![i] = ban] ELSE bans
  /\ marked' = IF Valid(ban) THEN [marked EXCEPT ![i] = ban] ELSE marked
  /\ UNCHANGED revoked

(* Plausible bug: an error while revoking skips to the save.               *)
RevokeStampOrSave(r) ==
  /\ \E s \in acting[r].found :
       IF s \in revoked
       THEN Act(r, "revoke", [acting[r] EXCEPT !.step = "save"]) /\ UNCHANGED revoked
       ELSE /\ Act(r, "revoke", [acting[r] EXCEPT !.found = @ \ {s}])
            /\ revoked' = revoked \cup {s}
  /\ UNCHANGED <<bans, marked>>

(* The admin's request dies.                                               *)
ActionDies(r) ==
  /\ acting[r].step # "idle"
  /\ Act(r, acting[r].step, NotActing)
  /\ UNCHANGED <<bans, revoked, marked>>

-----------------------------------------------------------------------------
(***************************************************************************)
(* The checks.  All credentials of a request are of one address, which is  *)
(* written as it is stored or in another case; credentials may lack a hash.*)
(***************************************************************************)
Meant(ban, s) ==
  \/ ban.type = "account" /\ ban.address = s.address /\ ban.provider = Empty
  \/ ban.type = "hash" /\ ban.hash = s.hash
  \/ ban.type = "single_stamp" /\ ban.address = s.address /\ ban.provider = s.provider

Judge(inexact, asked, read) ==
  LET banned == {s \in asked : \E i \in read : Meant(bans[i], s)}
      due == {s \in asked : \E i \in Live : Active(bans[i]) /\ Meant(bans[i], s)} IN
  /\ verdict' = [inexact |-> inexact, missed |-> due \ banned, extra |-> banned \ due]
  /\ UNCHANGED <<banTime, bans, revoked, marked, acting, meant, overtaken>>

OfOneAddress(asked) == asked # {} /\ \A s, t \in asked : s.address = t.address
HashesOf(asked) == {s.hash : s \in asked}

(* get_bans compares addresses in any case.  An answer has a hash: without *)
(* one there is none, but an error.                                        *)
CheckBans ==
  \E asked \in SUBSET Stamps :
    /\ OfOneAddress(asked)
    /\ Nothing \notin HashesOf(asked)
    /\ Judge(FALSE, asked,
         {i \in Live : /\ Active(bans[i])
                       /\ \/ bans[i].hash \in HashesOf(asked)
                          \/ \E s \in asked : bans[i].address = s.address})

(* get_active_bans compares them as they are written, and an absent hash   *)
(* stands for the empty one, which every ban of an account has.            *)
CheckBansInRust ==
  \E asked \in SUBSET Stamps, exact \in BOOLEAN :
    LET hashes == {IF h = Nothing THEN Empty ELSE h : h \in HashesOf(asked)} IN
    /\ OfOneAddress(asked)
    /\ Judge(~exact, asked,
         {i \in Live : /\ Active(bans[i])
                       /\ \/ bans[i].hash \in hashes
                          \/ exact /\ \E s \in asked : bans[i].address = s.address})

BanNext ==
  \/ AddBan \/ EditBan \/ DeleteBan \/ UploadBans \/ BanTick
  \/ RevokedElsewhere
  \/ CheckBans \/ CheckBansInRust
  \/ \E r \in Runs :
       SelectBans(r) \/ FindMatching(r) \/ RevokeStamp(r) \/ AllRevoked(r)
       \/ SaveBan(r) \/ ActionDies(r)

-----------------------------------------------------------------------------
(* What admins did to a ban stays, whatever runs of the action save, and a *)
(* ban that they deleted does not come back, except where a run had loaded *)
(* the ban before that (revoke_matching_credentials saves every column).   *)
BansAreKept == \A i \in Ids : bans[i] # meant[i] => i \in overtaken

(* A ban that shows as revoked has had every stamp of it revoked, also if  *)
(* other runs revoked some of them or broke off.                           *)
MarkedBansRevoked ==
  \A i \in Ids :
    marked[i] # Nothing => {s \in Stamps : Matches(marked[i], s)} \subseteq revoked

(* A check finds a credential banned just if a ban that has not ended      *)
(* means it: what the two queries leave out decides nothing.  Where Rust   *)
(* is asked for an address that is not written in lower case it may miss a *)
(* ban, and finds none that is not there.                                  *)
ChecksAreRight ==
  verdict.extra = {} /\ (verdict.missed # {} => verdict.inexact)
=============================================================================
