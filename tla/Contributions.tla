---------------------------- MODULE Contributions ----------------------------
(***************************************************************************)
(* What an address gave to grants (src/api/cgrants): the commands that     *)
(* import votes, squelched accounts and the records of the old grants      *)
(* platform, and the statistics of one address, which Python and Rust      *)
(* (src/rust-scorer/src/domain/cgrants.rs) read in several statements.     *)
(* A file is read line by line, a command may die at any line and is then  *)
(* run again, and nothing keeps two runs apart.  A contribution of the old *)
(* platform counts if it has a row in the index and is marked as a success *)
(* there: the imports do neither, so the admins do both in their forms.    *)
(***************************************************************************)
EXTENDS Integers, Sequences, FiniteSets

CONSTANTS
  Commands,     \* the imports that run at a time
  Votes,        \* the contributions of the address to Allo rounds
  RoundOf,
  Large,        \* the votes of at least 0.95 USD
  VoteFile,     \* the lines of the file, Garbage where one does not parse
  Garbage,
  RoundFile,    \* the rows <<number, round>> of the CSV
  SquelchedIn,  \* the number of the rounds the address is squelched in
  ChunkSize,
  Records       \* the ids of the old records, the same in each table, each
                \* contribution of the address

VARIABLES
  votes,      \* how many rows there are of each vote
  mapped,     \* the rows of RoundMapping
  squelched,  \* the round numbers in SquelchedAccounts
  records,    \* the ids in each table of the old platform
  success,    \* the contributions that are marked as a success
  indexed,    \* those that have a GrantContributionIndex row
  addressed,  \* those whose row has its address
  importing,  \* the commands
  asking,     \* a request for the statistics
  asked       \* history: what it had to find when it began, and has still

oldTables == <<records, success, indexed, addressed>>
contributionVars ==
  <<votes, mapped, squelched, oldTables, importing, asking, asked>>

NoImport == [step |-> "idle", at |-> 0, batch |-> {}]
Silent == [step |-> "idle", grants |-> {}, given |-> {}, hidden |-> {},
           projects |-> {}, amount |-> {}]
NothingAsked == [votes |-> {}, hidden |-> {}, steady |-> {}, ever |-> {}]

(* The tables, with those that their rows refer to.                        *)
Refers ==
  [profile |-> {}, grant |-> {"profile"}, subscription |-> {"profile", "grant"},
   contribution |-> {"subscription"}]

ContributionTypeOK ==
  /\ votes \in [Votes -> 0..2]
  /\ mapped \subseteq {RoundFile[i] : i \in DOMAIN RoundFile}
  /\ squelched \subseteq {SquelchedIn}
  /\ records \in [DOMAIN Refers -> SUBSET Records]
  /\ success \cup indexed \subseteq records.contribution
  /\ addressed \subseteq indexed
  /\ \A c \in Commands :
       importing[c].step \in {"idle", "votes", "create", "rounds", "check",
                              "squelch", "rows", "index"} \cup DOMAIN Refers
  /\ asking.step \in {"idle", "look", "grants", "given", "votes", "projects",
                      "index", "rounds", "both", "answered"}
  /\ asking.projects \cup asking.amount \subseteq Votes

ContributionInit ==
  /\ votes = [v \in Votes |-> 0]
  /\ mapped = {}
  /\ squelched = {}
  /\ records = [t \in DOMAIN Refers |-> {}]
  /\ success = {}
  /\ indexed = {}
  /\ addressed = {}
  /\ importing = [c \in Commands |-> NoImport]
  /\ asking = Silent
  /\ asked = NothingAsked

-----------------------------------------------------------------------------
(***************************************************************************)
(* The commands.                                                           *)
(***************************************************************************)
Run(c, from, to) ==
  /\ importing[c].step = from
  /\ importing' = [importing EXCEPT ![c] = to]
  /\ UNCHANGED asking

StartVotes(c) ==
  /\ Run(c, "idle", [NoImport EXCEPT !.step = "votes"])
  /\ UNCHANGED <<votes, mapped, squelched, oldTables, asked>>

(* get_protocol_contribution_for_json: a vote that exists is skipped.      *)
ReadVote(c) ==
  LET job == importing[c]
      at == job.at + 1
      new == {VoteFile[at]} \ ({v \in Votes : votes[v] > 0} \cup {Garbage}) IN
  /\ Run(c, "votes",
         [step |-> IF at % ChunkSize = 0 \/ at = Len(VoteFile)
                   THEN "create" ELSE "votes",
          at |-> at, batch |-> job.batch \cup new])
  /\ UNCHANGED <<votes, mapped, squelched, oldTables, asked>>

CreateVotesAs(c, rows) ==
  LET job == importing[c] IN
  /\ Run(c, "create",
         IF job.at = Len(VoteFile) THEN NoImport
         ELSE [job EXCEPT !.step = "votes", !.batch = {}])
  /\ votes' = [v \in Votes |->
                IF v \in job.batch THEN rows[v] ELSE votes[v]]
  /\ UNCHANGED <<mapped, squelched, oldTables, asked>>

(* Plausible bug: the rows are created though another run has created them.*)
CreateVotesAgain(c) == CreateVotesAs(c, [v \in Votes |-> votes[v] + 1])

(* bulk_create with ignore_conflicts; ext_id is unique.                    *)
CreateVotes(c) == CreateVotesAs(c, [v \in Votes |-> 1])

(* import_round_data, a statement for each row.                            *)
StartRounds(c) ==
  /\ Run(c, "idle", [NoImport EXCEPT !.step = "rounds"])
  /\ UNCHANGED <<votes, mapped, squelched, oldTables, asked>>

MapRound(c) ==
  LET at == importing[c].at + 1 IN
  /\ Run(c, "rounds", [NoImport EXCEPT !.at = at,
                         !.step = IF at = Len(RoundFile) THEN "check" ELSE "rounds"])
  /\ mapped' = mapped \cup {RoundFile[at]}
  /\ UNCHANGED <<votes, squelched, oldTables, asked>>

(* Without its stream the CSV is passed over.                              *)
MissRounds(c) ==
  /\ Run(c, "rounds", [NoImport EXCEPT !.step = "check"])
  /\ UNCHANGED <<votes, mapped, squelched, oldTables, asked>>

(* The number of the rounds must be mapped.                                *)
CheckNumber(c) ==
  /\ Run(c, "check", [NoImport EXCEPT !.step =
       IF \E row \in mapped : row[1] = SquelchedIn THEN "squelch" ELSE "idle"])
  /\ UNCHANGED <<votes, mapped, squelched, oldTables, asked>>

(* The chunk with the address; a row that is repeated shows nowhere.       *)
Squelch(c) ==
  /\ Run(c, "squelch", NoImport)
  /\ squelched' = squelched \cup {SquelchedIn}
  /\ UNCHANGED <<votes, mapped, oldTables, asked>>

(* What counts of the old platform.                                        *)
Successes == addressed \cap success

(* What counts changes, which is remembered for a request that is asking.  *)
Give(withAddress, withSuccess) ==
  LET counts == withAddress \cap withSuccess IN
  /\ addressed' = withAddress
  /\ success' = withSuccess
  /\ asked' = IF asking.step = "idle" THEN asked
              ELSE [asked EXCEPT !.steady = @ \cap counts, !.ever = @ \cup counts]

(* The records of the old platform: the ids that exist are read once, and  *)
(* each other record is saved, if what it refers to is there: over the row *)
(* that another run has saved meanwhile, or else as a new one.  Of success *)
(* the record says nothing, so it is the default, FALSE.                   *)
StartRecords(c, table) ==
  /\ Run(c, "idle", [step |-> table, at |-> 0, batch |-> Records \ records[table]])
  /\ UNCHANGED <<votes, mapped, squelched, oldTables, asked>>

SaveRecord(c, table) ==
  LET job == importing[c] IN
  /\ \/ /\ job.batch = {}
        /\ Run(c, table, NoImport)
        /\ UNCHANGED <<oldTables, asked>>
     \/ \E r \in job.batch :
          /\ \A s \in job.batch : r <= s
          /\ \A t \in Refers[table] : r \in records[t]
          /\ Run(c, table, [job EXCEPT !.batch = @ \ {r}])
          /\ records' = [records EXCEPT ![table] = @ \cup {r}]
          /\ Give(addressed, IF table = "contribution" THEN success \ {r} ELSE success)
          /\ UNCHANGED indexed
     \/ \E r \in job.batch :
          /\ \A s \in job.batch : r <= s
          /\ \E t \in Refers[table] : r \notin records[t]
          /\ Run(c, table, NoImport)
          /\ UNCHANGED <<oldTables, asked>>
  /\ UNCHANGED <<votes, mapped, squelched>>

Import(c, table) == StartRecords(c, table) \/ SaveRecord(c, table)
ImportProfiles(c) == Import(c, "profile")
ImportGrants(c) == Import(c, "grant")
ImportSubscriptions(c) == Import(c, "subscription")
ImportContributions(c) == Import(c, "contribution")

(* The import of the index gives a row columns that its table has not: the *)
(* first row that is not there yet raises, so that none is ever saved.     *)
StartIndexRows(c) ==
  /\ Run(c, "idle", [step |-> "rows", at |-> 0, batch |-> Records \ indexed])
  /\ UNCHANGED <<votes, mapped, squelched, oldTables, asked>>

SaveNoIndexRow(c) ==
  /\ Run(c, "rows", NoImport)
  /\ UNCHANGED <<votes, mapped, squelched, oldTables, asked>>

(* The addresses of the index are taken from the contributions, by id.     *)
StartIndex(c) ==
  /\ Run(c, "idle", [NoImport EXCEPT !.step = "index"])
  /\ UNCHANGED <<votes, mapped, squelched, oldTables, asked>>

AddAddresses(c) ==
  LET rest == {r \in indexed : r > importing[c].at}
      batch == {r \in rest : Cardinality({s \in rest : s <= r}) <= ChunkSize} IN
  /\ Run(c, "index",
         IF batch = {} THEN NoImport
         ELSE [importing[c] EXCEPT !.at =
                 CHOOSE r \in batch : \A s \in batch : s <= r])
  /\ Give(addressed \cup batch, success)
  /\ UNCHANGED <<votes, mapped, squelched, records, indexed>>

CommandDies(c) ==
  /\ importing[c].step # "idle"
  /\ Run(c, importing[c].step, NoImport)
  /\ UNCHANGED <<votes, mapped, squelched, oldTables, asked>>

(* The forms of the admins: a row of the index, with its address or not,   *)
(* and the mark of a contribution.                                         *)
AddIndexRow ==
  \E r \in records.contribution \ indexed, given \in SUBSET {"address"} :
    /\ indexed' = indexed \cup {r}
    /\ Give(IF given = {} THEN addressed ELSE addressed \cup {r}, success)
    /\ UNCHANGED <<votes, mapped, squelched, records, importing, asking>>

MarkContribution ==
  \E r \in records.contribution :
    /\ Give(addressed, IF r \in success THEN success \ {r} ELSE success \cup {r})
    /\ UNCHANGED <<votes, mapped, squelched, records, indexed, importing, asking>>

-----------------------------------------------------------------------------
(***************************************************************************)
(* The statistics.                                                         *)
(***************************************************************************)
HiddenRounds == {row[2] : row \in {m \in mapped : m[1] \in squelched}}
Counted(hidden) ==
  {v \in Large : votes[v] > 0 /\ RoundOf[v] \notin hidden}

Ask(from, to) ==
  /\ asking.step = from
  /\ asking' = to
  /\ UNCHANGED <<votes, mapped, squelched, oldTables, importing, asked>>

StartAsking ==
  /\ asking.step = "idle"
  /\ asking' \in {[Silent EXCEPT !.step = language] : language \in {"look", "index"}}
  /\ asked' = [votes |-> Counted({}), hidden |-> HiddenRounds,
               steady |-> Successes, ever |-> Successes]
  /\ UNCHANGED <<votes, mapped, squelched, oldTables, importing>>

(* Python: if any row is found, the grants, and then the amount.           *)
LookForAny ==
  Ask("look", [asking EXCEPT !.step = IF Successes = {} THEN "votes" ELSE "grants"])

CountGrants == Ask("grants", [asking EXCEPT !.grants = Successes, !.step = "given"])

SumGiven == Ask("given", [asking EXCEPT !.given = Successes, !.step = "votes"])

(* The two lists of rounds are subqueries of each of the two statements.   *)
SumVotes ==
  Ask("votes", [asking EXCEPT !.amount = Counted(HiddenRounds), !.step = "projects"])

CountProjects ==
  Ask("projects", [asking EXCEPT !.projects = Counted(HiddenRounds),
                                 !.step = "answered"])

(* Rust: one statement for the grants, one for the rounds, one for both.   *)
ReadIndex ==
  Ask("index", [asking EXCEPT !.grants = Successes, !.given = Successes,
                              !.step = "rounds"])

ReadRounds == Ask("rounds", [asking EXCEPT !.hidden = HiddenRounds, !.step = "both"])

ReadBoth ==
  Ask("both", [asking EXCEPT !.amount = Counted(asking.hidden),
                             !.projects = Counted(asking.hidden),
                             !.step = "answered"])

Answered ==
  /\ asking.step = "answered"
  /\ asking' = Silent
  /\ asked' = NothingAsked
  /\ UNCHANGED <<votes, mapped, squelched, oldTables, importing>>

VoteImport(c) ==
  \/ StartVotes(c) \/ ReadVote(c) \/ CreateVotes(c)
  \/ StartRounds(c) \/ MapRound(c) \/ MissRounds(c) \/ CheckNumber(c) \/ Squelch(c)
  \/ CommandDies(c)

RecordImport(c) ==
  \/ ImportProfiles(c) \/ ImportGrants(c)
  \/ ImportSubscriptions(c) \/ ImportContributions(c)
  \/ StartIndexRows(c) \/ SaveNoIndexRow(c) \/ StartIndex(c) \/ AddAddresses(c)
  \/ CommandDies(c)

QueryNext ==
  \/ StartAsking \/ LookForAny \/ CountGrants \/ SumGiven \/ SumVotes \/ CountProjects
  \/ ReadIndex \/ ReadRounds \/ ReadBoth \/ Answered

AdminNext == AddIndexRow \/ MarkContribution

ContributionNext ==
  QueryNext \/ AdminNext \/ \E c \in Commands : VoteImport(c) \/ RecordImport(c)

-----------------------------------------------------------------------------
(* Whatever is imported twice, breaks off, is imported or marked while it  *)
(* is read: an answer counts each vote once, none of a round that the      *)
(* address was squelched in when it was asked, and all others that were    *)
(* there then, in its amount and in its number of projects.  Of the old    *)
(* contributions both numbers have all that had an address in the index    *)
(* and were marked as a success from the question to the answer, and none  *)
(* that was not so at any moment between.                                  *)
StatisticsHold ==
  asking.step = "answered" =>
    /\ \A v \in asking.amount \cup asking.projects :
         votes[v] = 1 /\ RoundOf[v] \notin asked.hidden
    /\ {v \in asked.votes : RoundOf[v] \notin HiddenRounds}
         \subseteq asking.amount \cap asking.projects
    /\ asked.steady \subseteq asking.grants \cap asking.given
    /\ asking.grants \cup asking.given \subseteq asked.ever

(* A command that comes to the end of its file leaves out no line that     *)
(* parses, whatever others import meanwhile.                               *)
FilesAreImported ==
  \A c \in Commands :
    LET job == importing[c] IN
    /\ job.step = "create" /\ job.at = Len(VoteFile) =>
         \A i \in DOMAIN VoteFile :
           VoteFile[i] \in {Garbage} \cup job.batch \cup {v \in Votes : votes[v] > 0}
    /\ job.step \in DOMAIN Refers => Records = records[job.step] \cup job.batch
=============================================================================
