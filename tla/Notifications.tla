--------------------------- MODULE Notifications ---------------------------
(***************************************************************************)
(* Notifications and their dismissal (src/api/passport_admin/api.py and    *)
(* notification_generators).  A listing first generates what is due for    *)
(* its user; a dismissal gets or creates a NotificationStatus and saves    *)
(* all of it.  Every ORM call commits by itself, and no constraint keeps   *)
(* a user from having two statuses of one notification.                    *)
(***************************************************************************)
EXTENDS Integers, FiniteSets

CONSTANTS
  Visits,      \* the requests that are served at a time
  Users,
  Notes,       \* notifications, by their deterministic notification_id
  OwnerOf,     \* the eth_address of each; Everyone for global ones
  MaxStatus,   \* bound on the rows of NotificationStatus
  Everyone

VARIABLES
  due,         \* whether the reason of each notification is not yet there,
               \* there, or over (the stamp was refreshed)
  notes,       \* Notification
  statuses,    \* NotificationStatus, by id; NoStatus where there is no row
  visit,       \* the request: what it does, its step, and what it has read
  dismissed,   \* history: <<user, note>> that the user was told is deleted
  torn         \* history: <<user, note>> that two requests dismissed at a time,
               \* or that a listing removed after it was dismissed

noteVars == <<due, notes, statuses, visit, dismissed, torn>>

StatusIds == 1..MaxStatus
Status == [note: Notes, user: Users, read: BOOLEAN, deleted: BOOLEAN]
NoStatus == [note |-> Everyone]
Quiet == [op |-> "none", step |-> "idle", user |-> Everyone, note |-> Everyone,
          todo |-> {}, obsolete |-> {}, id |-> 0, copy |-> NoStatus]

NoteTypeOK ==
  /\ due \in [Notes -> {"not", "due", "over"}]
  /\ notes \subseteq Notes
  /\ \A i \in StatusIds : statuses[i] # NoStatus =>
       statuses[i] \in Status /\ statuses[i].note \in notes
  /\ \A v \in Visits :
       /\ visit[v].op \in {"none", "list", "read", "delete", "all"}
       /\ visit[v].step \in {"idle", "create", "remove", "get", "add", "save"}
       /\ visit[v].step = "idle" <=> visit[v] = Quiet

NoteInit ==
  /\ due = [n \in Notes |-> "not"]
  /\ notes = {n \in Notes : OwnerOf[n] = Everyone}
  /\ statuses = [i \in StatusIds |-> NoStatus]
  /\ visit = [v \in Visits |-> Quiet]
  /\ dismissed = {}
  /\ torn = {}

-----------------------------------------------------------------------------
StatusesOf(n) == {i \in StatusIds : statuses[i].note = n}
OwnStatuses(u, n) == {i \in StatusesOf(n) : statuses[i].user = u}
Personal(u) == {n \in Notes : OwnerOf[n] = u}

(* The filter of get_notifications: it joins the statuses of every user.   *)
Shown(u) ==
  {n \in notes :
     /\ OwnerOf[n] \in {u, Everyone}
     /\ \/ StatusesOf(n) = {}
        \/ \E i \in StatusesOf(n) : ~statuses[i].deleted}

(* A stamp is deduplicated or expires; an expired one is renewed.          *)
Change ==
  /\ \E n \in Notes :
       /\ OwnerOf[n] # Everyone
       /\ \/ due[n] = "not" /\ due' = [due EXCEPT ![n] = "due"]
          \/ due[n] = "due" /\ due' = [due EXCEPT ![n] = "over"]
  /\ UNCHANGED <<notes, statuses, visit, dismissed, torn>>

Set(v, request) == visit' = [visit EXCEPT ![v] = request]

(* notification_exists: what a listing has to create.                      *)
Missing(u) == {n \in Personal(u) \ notes : due[n] = "due"}

(* existing_notifications_with_no_status: those of renewed stamps to which *)
(* the user has not reacted.                                               *)
Obsolete(u) ==
  {n \in Personal(u) \cap notes : due[n] = "over" /\ StatusesOf(n) = {}}

(* get_notifications begins with the generators.                           *)
List(v, u) ==
  /\ visit[v] = Quiet
  /\ Set(v, [Quiet EXCEPT !.op = "list", !.step = "create", !.user = u,
               !.todo = Missing(u), !.obsolete = Obsolete(u)])
  /\ UNCHANGED <<due, notes, statuses, dismissed, torn>>

(* notification_id is unique: what another listing has created is an error, *)
(* which the notifications made before it outlive.                         *)
CreateNotes(v) ==
  /\ visit[v].step = "create"
  /\ IF visit[v].todo \cap notes # {}
     THEN /\ Set(v, Quiet)
          /\ \E made \in SUBSET visit[v].todo : notes' = notes \cup made
     ELSE /\ notes' = notes \cup visit[v].todo
          /\ Set(v, [visit[v] EXCEPT !.step = "remove", !.todo = {}])
  /\ UNCHANGED <<due, statuses, dismissed, torn>>

(* Deletes cascade to the statuses that there are by now.                  *)
RemoveNotes(v) ==
  LET gone == {i \in StatusIds : statuses[i].note \in visit[v].obsolete} IN
  /\ visit[v].step = "remove"
  /\ notes' = notes \ visit[v].obsolete
  /\ statuses' = [i \in StatusIds |-> IF i \in gone THEN NoStatus ELSE statuses[i]]
  /\ torn' = torn \cup {<<statuses[i].user, statuses[i].note>> : i \in gone}
  /\ Set(v, Quiet)
  /\ UNCHANGED <<due, dismissed>>

(* dismiss_notification and delete_all_notifications.                      *)
Dismiss(v, u) ==
  /\ visit[v] = Quiet
  /\ \/ \E n \in Shown(u), op \in {"read", "delete"} :
          Set(v, [Quiet EXCEPT !.op = op, !.step = "get", !.user = u,
                               !.todo = {n}])
     \/ /\ notes \cap Personal(u) # {}
        /\ Set(v, [Quiet EXCEPT !.op = "all", !.step = "get", !.user = u,
                                !.todo = notes \cap Personal(u)])
  /\ UNCHANGED <<due, notes, statuses, dismissed, torn>>

(* Another request is between reading and saving the status of the note.   *)
Busy(v, u, n) ==
  \E w \in Visits \ {v} :
    visit[w].user = u /\ visit[w].note = n /\ visit[w].step \in {"add", "save"}

(* Plausible bug: a status is created for every dismissal.                 *)
GetNoStatus(v) ==
  /\ visit[v].step = "get"
  /\ \E n \in visit[v].todo :
       Set(v, [visit[v] EXCEPT !.note = n, !.step = "add", !.todo = @ \ {n}])
  /\ UNCHANGED <<due, notes, statuses, dismissed, torn>>

(* The first half of get_or_create: none, one, or two, which is an error.  *)
GetStatus(v) ==
  /\ visit[v].step = "get"
  /\ \E n \in visit[v].todo :
       LET u == visit[v].user
           own == OwnStatuses(u, n) IN
       /\ \/ /\ own = {}
             /\ Set(v, [visit[v] EXCEPT !.note = n, !.step = "add", !.todo = @ \ {n}])
          \/ \E i \in own :
               /\ own = {i}
               /\ Set(v, [visit[v] EXCEPT !.note = n, !.step = "save",
                            !.todo = @ \ {n}, !.id = i, !.copy = statuses[i]])
          \/ Cardinality(own) > 1 /\ Set(v, Quiet)
       /\ torn' = IF Busy(v, u, n) THEN torn \cup {<<u, n>>} ELSE torn
  /\ UNCHANGED <<due, notes, statuses, dismissed>>

(* On to the next notification of delete_all; or the answer.               *)
Proceed(v) ==
  LET x == visit[v] IN
  /\ Set(v, IF x.todo = {} THEN Quiet
            ELSE [x EXCEPT !.note = Everyone, !.step = "get", !.id = 0,
                           !.copy = NoStatus])
  /\ dismissed' = IF x.op = "read" THEN dismissed
                  ELSE dismissed \cup {<<x.user, x.note>>}

(* An id is not given out again, as far as a request can tell.             *)
FreshIds == {i \in StatusIds : statuses[i] = NoStatus /\ \A w \in Visits : visit[w].id # i}

(* The second half.  delete_all creates the status as deleted.             *)
AddStatus(v) ==
  LET x == visit[v]
      row == [note |-> x.note, user |-> x.user, read |-> FALSE,
              deleted |-> x.op = "all"] IN
  /\ x.step = "add"
  /\ IF x.note \notin notes
     THEN Set(v, Quiet) /\ UNCHANGED <<statuses, dismissed>>
     ELSE \E i \in FreshIds :
            /\ \A j \in FreshIds : i <= j
            /\ statuses' = [statuses EXCEPT ![i] = row]
            /\ \/ x.op = "all" /\ Proceed(v)
               \/ /\ x.op # "all"
                  /\ Set(v, [x EXCEPT !.step = "save", !.id = i, !.copy = row])
                  /\ UNCHANGED dismissed
  /\ UNCHANGED <<due, notes, torn>>

Saved(x) == IF x.op = "read" THEN [x.copy EXCEPT !.read = TRUE]
            ELSE [x.copy EXCEPT !.deleted = TRUE]

(* Plausible bug: delete_all sets the flag of the status and does not save *)
(* it, as it does with notification.is_active.                             *)
SaveStatusNotAll(v) ==
  LET x == visit[v] IN
  /\ x.step = "save"
  /\ statuses' = IF x.op = "all" THEN statuses
                 ELSE [statuses EXCEPT ![x.id] = Saved(x)]
  /\ Proceed(v)
  /\ UNCHANGED <<due, notes, torn>>

(* A status that already says so is not saved; a save writes the whole row *)
(* as it was read, and is an error if the row went with its notification.  *)
SaveStatus(v) ==
  LET x == visit[v]
      says == x.op # "all" /\ Saved(x) = x.copy IN
  /\ x.step = "save"
  /\ \/ says /\ Proceed(v) /\ UNCHANGED statuses
     \/ /\ ~says /\ statuses[x.id] # NoStatus
        /\ statuses' = [statuses EXCEPT ![x.id] = Saved(x)]
        /\ Proceed(v)
     \/ /\ ~says /\ statuses[x.id] = NoStatus
        /\ Set(v, Quiet)
        /\ UNCHANGED <<statuses, dismissed>>
  /\ UNCHANGED <<due, notes, torn>>

NoteNext ==
  \/ Change
  \/ \E v \in Visits :
       \/ \E u \in Users : List(v, u) \/ Dismiss(v, u)
       \/ CreateNotes(v) \/ RemoveNotes(v)
       \/ GetStatus(v) \/ AddStatus(v) \/ SaveStatus(v)

-----------------------------------------------------------------------------
(* What a user has deleted of her own notifications is never shown to her  *)
(* again, however listings generate and remove them meanwhile; only two    *)
(* dismissals of it at a time, or a listing that read before the dismissal *)
(* that the notification is obsolete, can undo one.                        *)
DeletedStaysHidden ==
  \A u \in Users, n \in Notes :
    /\ OwnerOf[n] = u
    /\ <<u, n>> \in dismissed
    /\ n \in Shown(u)
    => <<u, n>> \in torn

(* A user has one status of a notification (with two, every dismissal of   *)
(* it fails from then on), but for two first dismissals at a time.         *)
OneStatusEach ==
  \A u \in Users, n \in Notes :
    Cardinality(OwnStatuses(u, n)) > 1 => <<u, n>> \in torn
=============================================================================
