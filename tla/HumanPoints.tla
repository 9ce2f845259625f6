---------------------------- MODULE HumanPoints ----------------------------
(***************************************************************************)
(* The human points that a passing score earns, as the API in Python       *)
(* awards them (registry/human_points_utils.py, called by ascore_passport) *)
(* and the scorer in Rust (domain/human_points.rs, process_human_points).  *)
(* Python commits statement by statement; Rust makes the same statements   *)
(* in the transaction of the scoring, whose rows nobody else sees until it *)
(* commits, and whose new keys others wait for.                            *)
(***************************************************************************)
EXTENDS Integers, FiniteSets

CONSTANTS
  Scorings,      \* the scorings that run at a time
  Holders,       \* addresses
  Programs,      \* communities with a human points program
  Stamps,        \* the <<address, community, nullifier>> that scorings may have
  KeyHashes,     \* the nullifiers of the stamp of a provider, which rotate
  BonusAt,       \* passing scores that earn the bonus: 4
  OGLimit,       \* how many addresses get the limited points: 5000
  OnLists,       \* the addresses on the lists of the OG points
  MaxScorings,   \* bound on the scorings
  NoHash

VARIABLES
  qualified,   \* HumanPointsCommunityQualifiedUsers: <<address, community>>
  points,      \* HumanPoints: [address, action, hash]
  doing,       \* the step each scoring is at
  job,         \* the address, community, stamp and language of each
  holds,       \* whether its last check came out true
  unsaved,     \* the rows of each transaction that has not committed
  scorings,    \* how many have started
  excused      \* history: the points that a scoring could not see or give

hpVars == <<qualified, points, doing, job, holds, unsaved, scorings, excused>>

Row(a, action, hash) == [address |-> a, action |-> action, hash |-> hash]
Job == {j \in [address: Holders, community: Programs,
                hash: KeyHashes \cup {NoHash}, language: {"python", "rust"}] :
          <<j.address, j.community, j.hash>> \in Stamps}
NoJob == [address |-> NoHash, community |-> NoHash, hash |-> NoHash,
          language |-> "python"]
NothingUnsaved == [qualified |-> {}, points |-> {}]

HPTypeOK ==
  /\ qualified \subseteq Holders \X Programs
  /\ \A row \in points : row.address \in Holders
  /\ doing \in [Scorings -> {"idle", "passing", "keys", "actions", "count",
                             "bonus", "limit", "limited", "unlimited"}]
  /\ \A p \in Scorings : IF doing[p] = "idle" THEN job[p] = NoJob ELSE job[p] \in Job
  /\ holds \in [Scorings -> BOOLEAN]
  /\ \A p \in Scorings :
       job[p].language = "python" => unsaved[p] = NothingUnsaved
  /\ scorings \in 0..MaxScorings
  /\ excused \subseteq {"SCB", "HKY", "MM2", "MTA"} \X (Holders \cup {NoHash})

HPInit ==
  /\ qualified = {}
  /\ points = {}
  /\ doing = [p \in Scorings |-> "idle"]
  /\ job = [p \in Scorings |-> NoJob]
  /\ holds = [p \in Scorings |-> FALSE]
  /\ unsaved = [p \in Scorings |-> NothingUnsaved]
  /\ scorings = 0
  /\ excused = {}

InRust(p) == job[p].language = "rust"
Active(p) == doing[p] # "idle"

(* A statement of a transaction sees what is committed and its own rows.   *)
SeenQualified(p) == qualified \cup unsaved[p].qualified
SeenPoints(p) == points \cup unsaved[p].points

(* ascore_passport, after a score of 1 in a community with a program.  Two *)
(* scorings in Rust of one passport come one after the other.              *)
Start(p) ==
  /\ doing[p] = "idle"
  /\ scorings < MaxScorings
  /\ scorings' = scorings + 1
  /\ \E j \in Job :
       /\ j.language = "rust" =>
            \A q \in Scorings : Active(q) /\ InRust(q) =>
              <<job[q].address, job[q].community>> # <<j.address, j.community>>
       /\ job' = [job EXCEPT ![p] = j]
  /\ doing' = [doing EXCEPT ![p] = "passing"]
  /\ UNCHANGED <<qualified, points, holds, unsaved, excused>>

(* INSERT ... ON CONFLICT DO NOTHING, bulk_create(ignore_conflicts) and    *)
(* get_or_create: a key that another transaction has not committed blocks. *)
Save(p, passing, rows, next) ==
  /\ \A q \in Scorings \ {p} : unsaved[q].points \cap rows = {}
  /\ doing' = [doing EXCEPT ![p] = next]
  /\ IF InRust(p)
     THEN /\ unsaved' = [unsaved EXCEPT
                           ![p].qualified = @ \cup (passing \ qualified),
                           ![p].points = @ \cup (rows \ points)]
          /\ UNCHANGED <<qualified, points>>
     ELSE /\ qualified' = qualified \cup passing
          /\ points' = points \cup rows
          /\ UNCHANGED unsaved
  /\ UNCHANGED <<job, scorings, excused>>

(* A check, and the points it may get wrong because another scoring is     *)
(* about to change what it reads, or has changed it and not committed.     *)
Check(p, from, answer, next, which, others) ==
  /\ doing[p] = from
  /\ holds' = [holds EXCEPT ![p] = answer]
  /\ doing' = [doing EXCEPT ![p] = next]
  /\ excused' = IF \E q \in Scorings \ {p} : others[q]
                THEN excused \cup {which} ELSE excused
  /\ UNCHANGED <<qualified, points, job, unsaved, scorings>>

RecordPassingScore(p) ==
  /\ doing[p] = "passing"
  /\ Save(p, {<<job[p].address, job[p].community>>}, {}, "keys")
  /\ UNCHANGED holds

KeyRows(rows, a) == {row \in rows : row.address = a /\ row.action = "HKY"}

SavingKeys(a) ==
  [q \in Scorings |-> \/ doing[q] = "actions" /\ job[q].address = a
                     \/ KeyRows(unsaved[q].points, a) # {}]

(* Plausible bug: the unique constraint alone is to keep out a second key, *)
(* but the nullifier, which rotates, is part of it.                        *)
ReadNoKeys(p) ==
  LET a == job[p].address IN
  Check(p, "keys", FALSE, "actions", <<"HKY", a>>, SavingKeys(a))

(* Whether the provider of the stamp already has a human key.              *)
ReadKeys(p) ==
  LET a == job[p].address IN
  Check(p, "keys", KeyRows(SeenPoints(p), a) # {}, "actions", <<"HKY", a>>,
        SavingKeys(a))

RecordStampActions(p) ==
  /\ doing[p] = "actions"
  /\ Save(p, {},
          IF holds[p] \/ job[p].hash = NoHash THEN {}
          ELSE {Row(job[p].address, "HKY", job[p].hash)}, "count")
  /\ UNCHANGED holds

Communities(rows, a) == {x \in rows : x[1] = a}
NotCommitted(a) ==
  [q \in Scorings |-> Communities(unsaved[q].qualified, a) # {}]
CountPassingOf(p, rows) ==
  LET a == job[p].address IN
  Check(p, "count", Cardinality(Communities(rows, a)) >= BonusAt, "bonus",
        <<"SCB", a>>, NotCommitted(a))

(* Plausible bug: the count leaves the present community out, as one made  *)
(* before the passing score is recorded does.                              *)
CountPassingBefore(p) ==
  CountPassingOf(p, SeenQualified(p) \ {<<job[p].address, job[p].community>>})

(* check_and_award_scoring_bonus.                                          *)
CountPassing(p) == CountPassingOf(p, SeenQualified(p))

AwardBonus(p) ==
  /\ doing[p] = "bonus"
  /\ Save(p, {}, IF holds[p] THEN {Row(job[p].address, "SCB", NoHash)} ELSE {},
          "limit")
  /\ UNCHANGED holds

(* The limited points have another action, and another list, in Rust.      *)
Limited(p) == IF InRust(p) THEN "MTA" ELSE "MM2"
Awarded(rows, action) == {row \in rows : row.action = action}

SavingLimited(action) ==
  [q \in Scorings |-> \/ doing[q] = "limited" /\ Limited(q) = action
                     \/ Awarded(unsaved[q].points, action) # {}]
CheckLimitOf(p, limit) ==
  Check(p, "limit",
        /\ job[p].address \in OnLists
        /\ Cardinality(Awarded(SeenPoints(p), Limited(p))) < limit,
        "limited", <<Limited(p), NoHash>>, SavingLimited(Limited(p)))

(* Plausible bug: one more than the limit.                                 *)
CheckLimitLate(p) == CheckLimitOf(p, OGLimit + 1)

CheckLimit(p) == CheckLimitOf(p, OGLimit)

AwardLimited(p) ==
  /\ doing[p] = "limited"
  /\ Save(p, {}, IF holds[p] THEN {Row(job[p].address, Limited(p), NoHash)}
                 ELSE {}, "unlimited")
  /\ UNCHANGED holds

Over(p) ==
  /\ unsaved' = [unsaved EXCEPT ![p] = NothingUnsaved]
  /\ doing' = [doing EXCEPT ![p] = "idle"]
  /\ job' = [job EXCEPT ![p] = NoJob]
  /\ holds' = [holds EXCEPT ![p] = FALSE]
  /\ UNCHANGED scorings

(* The points without a limit, and the end: a transaction commits.         *)
AwardUnlimited(p) ==
  LET rows == IF job[p].address \in OnLists
              THEN {Row(job[p].address, "SOG", NoHash)} ELSE {} IN
  /\ doing[p] = "unlimited"
  /\ \A q \in Scorings \ {p} : unsaved[q].points \cap rows = {}
  /\ qualified' = SeenQualified(p)
  /\ points' = SeenPoints(p) \cup rows
  /\ Over(p)
  /\ UNCHANGED excused

(* The worker dies or a statement fails: ascore_passport catches the error *)
(* and leaves what is saved, a transaction is rolled back.                 *)
Break(p) ==
  /\ Active(p)
  /\ Over(p)
  /\ excused' = excused \cup {<<"SCB", job[p].address>>}
  /\ UNCHANGED <<qualified, points>>

HPNext ==
  \E p \in Scorings :
    \/ Start(p) \/ RecordPassingScore(p) \/ ReadKeys(p) \/ RecordStampActions(p)
    \/ CountPassing(p) \/ AwardBonus(p) \/ CheckLimit(p) \/ AwardLimited(p)
    \/ AwardUnlimited(p) \/ Break(p)

-----------------------------------------------------------------------------
(* An address with BonusAt passing scores has the bonus once its scorings  *)
(* are over, however those in Python interleave: each records its score    *)
(* before it counts.  Excused are a scoring that broke off, and one that   *)
(* counted while a transaction in Rust had not committed its score.        *)
BonusNotMissed ==
  \A a \in Holders :
    \/ Cardinality(Communities(qualified, a)) < BonusAt
    \/ <<"SCB", a>> \in excused
    \/ \E p \in Scorings : Active(p) /\ job[p].address = a
    \/ Row(a, "SCB", NoHash) \in points

(* The limited points go over their limit only by a scoring that counts    *)
(* them while another is about to award them.                              *)
LimitHolds ==
  \A action \in {"MM2", "MTA"} :
    Cardinality(Awarded(points, action)) > OGLimit => <<action, NoHash>> \in excused

(* A provider earns one human key, whatever nullifiers its stamps show,    *)
(* but for scorings that read the keys while another was recording them.   *)
KeysNotRepeated ==
  \A a \in Holders :
    Cardinality(KeyRows(points, a)) > 1 => <<"HKY", a>> \in excused
=============================================================================
