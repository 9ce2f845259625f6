----------------------------- MODULE MCServices -----------------------------
(***************************************************************************)
(* Small instances of the services that share no row with one another.  A  *)
(* behaviour runs one of them, its part; the others stay as they are.      *)
(***************************************************************************)
EXTENDS Integers, Sequences, FiniteSets, TLC

CONSTANTS
  Workers,  \* the requests, of any kind, that are served at a time
  None,     \* no row, no address, no hash
  ann, bob, firstTerms, newTerms, n1, n2, op, eth

VARIABLES
  part,  \* the part that runs
  s1, s2, s3, s4, s5, s6, s7, s8, s9, s10  \* its variables, then None

-----------------------------------------------------------------------------
(* Alice has a stamp with two nullifiers in turn, and two communities give *)
(* her the bonus; one address gets the limited points.                     *)
Points == INSTANCE HumanPoints WITH
  Scorings <- Workers, Holders <- {ann, bob}, Programs <- {"c1", "c2"},
  Stamps <- {<<ann, "c1", n1>>, <<ann, "c2", n2>>, <<bob, "c1", None>>},
  KeyHashes <- {n1, n2}, BonusAt <- 2, OGLimit <- 1, OnLists <- {ann, bob},
  MaxScorings <- 3, NoHash <- None,
  qualified <- s1, points <- s2, doing <- s3, job <- s4, holds <- s5,
  unsaved <- s6, scorings <- s7, excused <- s8

(* Two clients with the messages of one person.                            *)
Login == INSTANCE Logins WITH
  Clients <- Workers, People <- {ann}, Nonces <- {n1, n2},
  Versions <- {firstTerms, newTerms}, Nobody <- None,
  nonces <- s1, signed <- s2, terms <- s3, accounts <- s4, proofs <- s5,
  at <- s6, message <- s7, taken <- s8, twice <- s9

(* One community, one key, and one more of each that should not be.        *)
Accounts == INSTANCE Communities WITH
  Editors <- Workers, Names <- {"x", "y"}, CommunityLimit <- 1, KeyLimit <- 1,
  MaxSerial <- 4, NoRow <- None,
  communities <- s1, scorers <- s2, keys <- s3, serial <- s4, edit <- s5,
  removed <- s6, stale <- s7, crowded <- s8

(* A notification of Alice's, and one for everyone.                        *)
Inbox == INSTANCE Notifications WITH
  Visits <- Workers, Users <- {ann}, Notes <- {n1, n2},
  OwnerOf <- n1 :> ann @@ n2 :> None, MaxStatus <- 3, Everyone <- None,
  due <- s1, notes <- s2, statuses <- s3, visit <- s4, dismissed <- s5,
  torn <- s6

(* The notification of Alice's, with a third request.                      *)
Relisted == INSTANCE Notifications WITH
  Visits <- Workers \cup {"late"}, Users <- {ann}, Notes <- {n1},
  OwnerOf <- n1 :> ann, MaxStatus <- 3, Everyone <- None,
  due <- s1, notes <- s2, statuses <- s3, visit <- s4, dismissed <- s5,
  torn <- s6

(* Two triggers and two batches, with an address that is not valid.        *)
Batches == INSTANCE BatchScoring WITH
  Tasks <- {1, 2}, LastItem <- 3, Invalid <- {2}, BatchSize <- 2,
  items <- s1, trigger <- s2, status <- s3, admin <- s4, task <- s5,
  walked <- s6, untried <- s7

(* Up to five rows, in pages of two.                                       *)
Pages == INSTANCE Pagination WITH LastRow <- 5, LastTime <- 3, Limit <- 2,
  rows <- s1, newest <- s2, times <- s3, time <- s4, walk <- s5, seen <- s6,
  repeated <- s7, staying <- s8, mixed <- s9

(* A plain scorer whose passport comes after a binary scorer's; a passport *)
(* may be added.                                                           *)
Runs == {"first", "second"}
Rescores == INSTANCE Rescoring WITH
  Versions <- {1, 2}, Groups <- {1, 2}, Binary <- {2}, Commands <- Runs,
  Scorers <- {"worker"}, FirstPassports <- <<2, 1>>, MaxPassport <- 3,
  BatchLimit <- 1,
  config <- s1, weights <- s2, threshold <- s3, passports <- s4, scored <- s5,
  command <- s6, scoring <- s7, torn <- s8, outdated <- s9, late <- s10

(* Five blocks, in ranges of two.                                          *)
Legacy == INSTANCE LegacyIndexer WITH LastBlock <- 5, Span <- 2,
  head <- s1, stakes <- s2, checked <- s3, recorded <- s4, job <- s5,
  ahead <- s6, failed <- s7

(* Two tables of up to three rows, read one by one.                        *)
Dumps == INSTANCE Exports WITH Tables <- {1, 2}, LastId <- 3, BatchRows <- 1,
  table <- s1, used <- s2, export <- s3, file <- s4, bucket <- s5,
  steady <- s6

(* Two votes in two rounds, in two imports of two files each.              *)
Gifts == INSTANCE Contributions WITH
  Commands <- Workers, Votes <- {1, 2}, RoundOf <- <<10, 20>>, Large <- {1, 2},
  VoteFile <- <<1, 0, 2, 1>>, Garbage <- 0,
  RoundFile <- << <<"a", 10>>, <<"b", 20>> >>, SquelchedIn <- "a",
  ChunkSize <- 2, Records <- {1, 2},
  votes <- s1, mapped <- s2, squelched <- s3, records <- s4, success <- s5,
  indexed <- s6, addressed <- s7, importing <- s8, asking <- s9, asked <- s10

(* An address with two stamps, one of which has a hash that is banned from *)
(* of old; a ban of the address, one of a stamp, and one that is not valid.*)
BanOf(type, address, provider, hash, ends) ==
  [type |-> type, address |-> address, provider |-> provider, hash |-> hash,
   until |-> ends]
Banning == INSTANCE Bans WITH
  Runs <- {"action"},
  Stamps <- {[address |-> "a", provider |-> "p", hash |-> "g"],
             [address |-> "a", provider |-> "q", hash |-> None]},
  Offered <- {BanOf("account", "a", "", "", 2),
              BanOf("single_stamp", "a", "q", "", 1),
              BanOf("account", "a", "p", "", 2)},
  OldBan <- BanOf("hash", "", "", "g", 2), LastBan <- 2, LastDay <- 1,
  Empty <- "", Nothing <- None,
  banTime <- s1, bans <- s2, revoked <- s3, marked <- s4, acting <- s5,
  verdict <- s6, meant <- s7, overtaken <- s8

(* A key that expires and one that was revoked may take the place of       *)
(* another.                                                                *)
Firewall == INSTANCE WafRules WITH
  Generators <- Workers, Keys <- {"k"}, FirstKeys <- {"k"}, LastDate <- 1,
  Settings <-
    {[revoked |-> FALSE, expires |-> 1, rate |-> "unlimited", analysis |-> "2"],
     [revoked |-> TRUE, expires |-> 2, rate |-> "unlimited", analysis |-> "2"]},
  Demo <- "demo", NoKey <- None,
  date <- s1, apiKeys <- s2, ruleFiles <- s3, generating <- s4, fixed <- s5

(* Files with a line that is too long, an empty one, and common addresses. *)
Lists == INSTANCE AddressLists WITH
  Imports <- Workers, Addresses <- {"a", "b", "c"},
  Files <- {<<"a", "long", "b">>, <<"b", "", "c">>, <<"c", "a">>},
  Blank <- "", TooLong <- "long",
  listed <- s1, members <- s2, importing <- s3, onList <- s4, dropped <- s5

(* Two requests at a limit of one; only Python has a limit, and only Rust  *)
(* asks for read_scores before it serves.                                  *)
Set(rate, standing) == [rate |-> rate, standing |-> standing]
Gateway == INSTANCE ApiKeys WITH
  Requests <- Workers, RateLimit <- 1, Gone <- None,
  Edits <- {Set("tier", "usable"), Set("unlimited", "unread"),
            Set("tier", "revoked")},
  keyRow <- s1, editing <- s2, window <- s3, calls <- s4, log <- s5,
  migrating <- s6, owned <- s7, steady <- s8, lost <- s9

(* Two administrators; a configuration and its clone.                      *)
Configs == INSTANCE WeightConfigs WITH
  Admins <- Workers, Providers <- {"p", "q"}, Weights <- {1}, Typed <- {0, 1},
  LastId <- 2,
  configs <- s1, items <- s2, acts <- s3, activated <- s4, cloned <- s5,
  touched <- s6

(* Values that are kept for a tick, in two caches, one behind the other.   *)
Caching == INSTANCE CachedReads WITH
  Readers <- Workers, Life <- 1, Limit <- 1, LastTime <- 3, LastSource <- 2,
  clock <- s1, source <- s2, until <- s3, caches <- s4, reads <- s5

(* A stamp that moves from one platform to another.                        *)
Syncing == INSTANCE MetadataSync WITH
  Syncs <- Workers, Stamps <- {"s", "t"}, Platforms <- {"p", "q"},
  Metadata <- {[s |-> "p", t |-> "p"], [s |-> "p", t |-> "q"]}, Nowhere <- None,
  platforms <- s1, homes <- s2, syncing <- s3, relinked <- s4

(* A plain stamp, one of an allow list and one of a custom credential; a   *)
(* repeated one, and one that is both kept and taken out.                  *)
StampOf(provider, ends) == [provider |-> provider, expires |-> ends]
Weighs == INSTANCE Weighing WITH
  Providers <- {"a", "l", "r"}, ListStamps <- {"l"}, RuleStamps <- {"r"},
  WeightSets <- {[a |-> 1, l |-> 0, r |-> 1], [a |-> 2, l |-> 1, r |-> 1]},
  Thresholds <- {2}, CustomWeight <- 3,
  KeptStamps <- {<<>>, <<StampOf("a", 1), StampOf("l", 2)>>,
                 <<StampOf("r", 2), StampOf("a", 3), StampOf("l", 1)>>,
                 <<StampOf("a", 1), StampOf("a", 2), StampOf("r", 1)>>},
  ClashSets <- {<<>>, [a |-> 2]}, NoWeight <- None, NoDate <- None,
  weights <- s1, threshold <- s2, custom <- s3, scoring <- s4, fields <- s5,
  sure <- s6

(* Two uploads of a provider's stamp, one of which may expire.             *)
Replies == INSTANCE ScoreResponses WITH
  StampKinds <- {"p"}, LastVersion <- 2, LastMoment <- 1, NoScore <- None,
  live <- s1, expires <- s2, uploads <- s3, revoked <- s4, now <- s5,
  saved <- s6, elsewhere <- s7, request <- s8, began <- s9, changed <- s10

(* Credentials that lack one thing each, before and after a whole one.     *)
WholeOne ==
  [provider |-> "p", own |-> TRUE, trusted |-> TRUE, signed |-> TRUE,
   hash |-> FALSE, nullifiers |-> "some", expires |-> 1]
Papers ==
  {WholeOne,
   [WholeOne EXCEPT !.expires = None], [WholeOne EXCEPT !.expires = 0],
   [WholeOne EXCEPT !.nullifiers = "none", !.hash = TRUE],
   [WholeOne EXCEPT !.nullifiers = "mixed"], [WholeOne EXCEPT !.own = FALSE],
   [WholeOne EXCEPT !.trusted = FALSE], [WholeOne EXCEPT !.signed = FALSE],
   [WholeOne EXCEPT !.provider = "q"], [WholeOne EXCEPT !.provider = None]}
Checks == INSTANCE Credentials WITH
  Uploads <- {<<>>} \cup {<<a, WholeOne, b>> : a, b \in Papers},
  LastTime <- 2, NoDate <- None, NoName <- None,
  clock <- s1, check <- s2, kept <- s3, started <- s4

(* Two scorings, of any program, after one that ended.                      *)
History == INSTANCE Histories WITH
  Scorings <- Workers, Old <- n1,
  clock <- s1, stored <- s2, events <- s3, jobs <- s4, overlaps <- s5, asked <- s6

(* A mint before its contract counts, one of each contract in a            *)
(* transaction, and one that is not valid.                                 *)
MintOf(position, block, contract, tx, valid) ==
  [position |-> position, block |-> block, contract |-> contract, tx |-> tx,
   to |-> ann, valid |-> valid]
Mints == INSTANCE MintPoints WITH
  LastBlock <- 5, Span <- 2, FirstBlock <- 1,
  StartOf <- [passport |-> 2, humanId |-> 1], Activated <- 3, Year <- 1,
  Logs <- {MintOf(1, 2, "passport", 1, TRUE), MintOf(2, 2, "humanId", 1, TRUE),
           MintOf(3, 3, "passport", 2, TRUE), MintOf(4, 4, "humanId", 3, FALSE)},
  head <- s1, checked <- s2, request <- s3, awarded <- s4, job <- s5,
  failed <- s6

(* Two mints on different chains and one that is not counted.              *)
Totals == INSTANCE PointTotals WITH
  Awards <- {<<"PMT", 1, "t1">>, <<"PMT", 2, "t2">>, <<"HIM", 1, "t3">>},
  Uncounted <- "HIM", PointsOf <- [PMT |-> 3, HIM |-> 1], Multiplier <- 2,
  awarded <- s1, active <- s2, multiplied <- s3, qualified <- s4,
  reading <- s5, changed <- s6

(* Models with and without the aggregate, and a name that is none.         *)
Analyzing == INSTANCE Analyses WITH
  Models <- {"eth", "nft", "zk", "all"}, Aggregate <- "all",
  SubModels <- {"eth", "zk"}, MostCalls <- 1,
  Asked <- {{"eth"}, {"nft"}, {"all"}, {"eth", "nft"}, {"eth", "nft", "all"},
            {"eth", "no"}},
  analysis <- s1, fetches <- s2, paired <- s3, payload <- s4, said <- s5

(* An event on each of two chains that share two connections, timers that  *)
(* drop an indexer inside a transaction, and statements that fail.  The    *)
(* second chain stays at its first block.                                  *)
StakeOn(chain) ==
  [chain |-> chain, pos |-> 1, block |-> 1, tx |-> 1, kind |-> "stake",
   staker |-> ann, stakee |-> bob]
TwoIndexers == INSTANCE StakeIndexer WITH
  Chains <- {op, eth}, Conns <- Workers, Events <- {StakeOn(op), StakeOn(eth)},
  MaxBlock <- 3, QueryBlocks <- 2, MaxRequests <- 0,
  CancelMidway <- TRUE, MayError <- TRUE, MayCrash <- FALSE,
  head <- s1, asked <- s2, request <- s3, last <- s4, logged <- s5, rows <- s6,
  applied <- s7, conns <- s8, job <- s9

-----------------------------------------------------------------------------
vars == <<part, s1, s2, s3, s4, s5, s6, s7, s8, s9, s10>>

(* The variables after the first few are not used.                         *)
None9 == s10 = None
None8 == s9 = None /\ None9
None7 == s8 = None /\ None8
None6 == s7 = None /\ None7
None5 == s6 = None /\ None6
None4 == s5 = None /\ None5

Rest9 == UNCHANGED s10
Rest8 == UNCHANGED <<s9, s10>>
Rest7 == UNCHANGED <<s8, s9, s10>>
Rest6 == UNCHANGED <<s7, s8, s9, s10>>
Rest5 == UNCHANGED <<s6, s7, s8, s9, s10>>
Rest4 == UNCHANGED <<s5, s6, s7, s8, s9, s10>>

Init ==
  \/ part = "points" /\ Points!HPInit /\ None8
  \/ part = "login" /\ Login!LoginInit /\ None9
  \/ part \in {"communities", "keys"} /\ Accounts!CommunityInit /\ None8
  \/ part = "inbox" /\ Inbox!NoteInit /\ None6
  \/ part = "relisted" /\ Relisted!NoteInit /\ None6
  \/ part = "batches" /\ Batches!BatchInit /\ None7
  \/ part = "pages" /\ Pages!PageInit /\ None9
  \/ part \in {"weights", "rescore"} /\ Rescores!RescoreInit /\ s1 = 1
  \/ part = "legacy" /\ Legacy!LegacyInit /\ None7
  \/ part = "exports" /\ Dumps!ExportInit /\ None6
  \/ part \in {"votes", "records"} /\ Gifts!ContributionInit
  \/ part = "bans" /\ Banning!BanInit /\ None8
  \/ part = "firewall" /\ Firewall!WafInit /\ None5
  \/ part = "lists" /\ Lists!ListInit /\ None5
  \/ part = "requests" /\ Gateway!KeysInit /\ None9
  \/ part = "configs" /\ Configs!ConfigInit /\ None6
  \/ part = "caches" /\ Caching!ReadInit /\ None5
  \/ part = "sync" /\ Syncing!SyncInit /\ None4
  \/ part = "weighing" /\ Weighs!WeighInit /\ None6
  \/ part = "replies" /\ Replies!ResponseInit
  \/ part = "credentials" /\ Checks!CredentialInit /\ None4
  \/ part = "history" /\ History!HistoryInit /\ None6
  \/ part = "mints" /\ Mints!MintInit /\ None6
  \/ part = "totals" /\ Totals!TotalInit /\ None6
  \/ part = "analysis" /\ Analyzing!AnalysisInit /\ None5
  \/ part = "chains" /\ TwoIndexers!Init /\ None9

Next ==
  /\ UNCHANGED part
  /\ \/ part = "points" /\ Points!HPNext /\ Rest8
     \/ part = "login" /\ Login!LoginNext /\ Rest9
     \/ part = "communities" /\ Accounts!CommunityNext /\ Rest8
     \/ part = "keys" /\ Accounts!KeyNext /\ Rest8
     \/ part = "inbox" /\ Inbox!NoteNext /\ Rest6
     \/ part = "relisted" /\ Relisted!NoteNext /\ Rest6
     \/ part = "batches" /\ Batches!BatchNext /\ Rest7
     \/ part = "pages" /\ Pages!PageNext /\ Rest9
     \/ part \in {"weights", "rescore"} /\ Rescores!Activate
     \/ part = "weights" /\ \E run \in Runs : Rescores!CommandNext(run)
     \/ part = "rescore" /\ Rescores!CommandNext("first")
     \/ part = "rescore" /\ Rescores!ScoringNext("worker")
     \/ part = "legacy" /\ Legacy!LegacyNext /\ Rest7
     \/ part = "exports" /\ Dumps!ExportNext /\ Rest6
     \/ part \in {"votes", "records"} /\ Gifts!QueryNext
     \/ part = "votes" /\ \E c \in Workers : Gifts!VoteImport(c)
     \/ part = "records" /\ (Gifts!AdminNext \/ \E c \in Workers : Gifts!RecordImport(c))
     \/ part = "bans" /\ Banning!BanNext /\ Rest8
     \/ part = "firewall" /\ Firewall!WafNext /\ Rest5
     \/ part = "lists" /\ Lists!ListNext /\ Rest5
     \/ part = "requests" /\ Gateway!KeysNext /\ Rest9
     \/ part = "configs" /\ Configs!ConfigNext /\ Rest6
     \/ part = "caches" /\ Caching!ReadNext /\ Rest5
     \/ part = "sync" /\ Syncing!SyncNext /\ Rest4
     \/ part = "weighing" /\ Weighs!WeighNext /\ Rest6
     \/ part = "replies" /\ Replies!ResponseNext
     \/ part = "credentials" /\ Checks!CredentialNext /\ Rest4
     \/ part = "history" /\ History!HistoryNext /\ Rest6
     \/ part = "mints" /\ Mints!MintNext /\ Rest6
     \/ part = "totals" /\ Totals!TotalNext /\ Rest6
     \/ part = "analysis" /\ Analyzing!AnalysisNext /\ Rest5
     \/ /\ part = "chains" /\ TwoIndexers!FaultyNext /\ Rest9
        /\ s1'[eth] = 1

Spec == Init /\ [][Next]_vars

(* The workers of each part do not differ.                                 *)
Symmetry == Permutations(Workers)

-----------------------------------------------------------------------------
(* The types of all parts.                                                 *)
TypeOK ==
  /\ part = "points" => Points!HPTypeOK
  /\ part = "login" => Login!LoginTypeOK
  /\ part \in {"communities", "keys"} => Accounts!CommunityTypeOK
  /\ part = "inbox" => Inbox!NoteTypeOK
  /\ part = "relisted" => Relisted!NoteTypeOK
  /\ part = "batches" => Batches!BatchTypeOK
  /\ part = "pages" => Pages!PageTypeOK
  /\ part \in {"weights", "rescore"} => Rescores!RescoreTypeOK
  /\ part = "legacy" => Legacy!LegacyTypeOK
  /\ part = "exports" => Dumps!ExportTypeOK
  /\ part \in {"votes", "records"} => Gifts!ContributionTypeOK
  /\ part = "bans" => Banning!BanTypeOK
  /\ part = "firewall" => Firewall!WafTypeOK
  /\ part = "lists" => Lists!ListTypeOK
  /\ part = "requests" => Gateway!KeysTypeOK
  /\ part = "configs" => Configs!ConfigTypeOK
  /\ part = "caches" => Caching!ReadTypeOK
  /\ part = "sync" => Syncing!SyncTypeOK
  /\ part = "weighing" => Weighs!WeighTypeOK
  /\ part = "replies" => Replies!ResponseTypeOK
  /\ part = "credentials" => Checks!CredentialTypeOK
  /\ part = "history" => History!HistoryTypeOK
  /\ part = "mints" => Mints!MintTypeOK
  /\ part = "totals" => Totals!TotalTypeOK
  /\ part = "analysis" => Analyzing!AnalysisTypeOK

(* What is looked up first and written later is claimed once, by whoever   *)
(* has a right to it, in whatever order requests come and wherever they    *)
(* break off: the human points, their limit and their bonus, nonces,       *)
(* accounts, places under the limits of an account, the status of a        *)
(* notification, the active configuration, and, which alone has a key of   *)
(* the database behind it, the events that a stake adds up.  Each names    *)
(* the race that it does not survive, and survives everything else.        *)
ClaimsHold ==
  /\ part = "points" =>
       /\ Points!BonusNotMissed
       /\ Points!LimitHolds
       /\ Points!KeysNotRepeated
  /\ part = "login" => Login!NonceTakenOnce /\ Login!OneAccount
  /\ part \in {"communities", "keys"} => Accounts!LimitsHold
  /\ part = "inbox" => Inbox!OneStatusEach
  /\ part = "relisted" => Relisted!OneStatusEach
  /\ part = "configs" => Configs!OneIsActive
  /\ part = "chains" => TwoIndexers!AppliedOnce

(* What was read before it changed does no harm when it is used: terms are *)
(* accepted as they were signed, deleted keys and notifications stay so, a *)
(* scorer never mixes two configurations, and what a check, a score, a     *)
(* total, a history or an analysis answers was true when it was asked, or  *)
(* became true meanwhile, each but for a race that the property names.     *)
ReadingsStayTrue ==
  /\ part = "login" => Login!ProofsAreSigned
  /\ part \in {"communities", "keys"} => Accounts!DeletedKeysAreGone
  /\ part = "inbox" => Inbox!DeletedStaysHidden
  /\ part = "relisted" => Relisted!DeletedStaysHidden
  /\ part \in {"weights", "rescore"} => Rescores!ScorersAreConsistent
  /\ part = "bans" => Banning!BansAreKept /\ Banning!ChecksAreRight
  /\ part = "firewall" => Firewall!RulesFitKeys
  /\ part = "lists" => Lists!ListChecksAreRight
  /\ part = "requests" => Gateway!SettingsAreKept /\ Gateway!KeysAreRecognized
  /\ part = "caches" => Caching!AnswersAreFresh
  /\ part = "sync" => Syncing!HomesExist
  /\ part = "weighing" =>
       /\ Weighs!RowsAddUp
       /\ Weighs!WeightsAreTheirs
       /\ Weighs!ProgramsAgree
  /\ part = "replies" =>
       /\ Replies!AnswersFit
       /\ Replies!AddsAreAnswered
       /\ Replies!ScoresAreCurrent
  /\ part = "credentials" => Checks!KeptAreValid
  /\ part = "history" => History!HistoryFollowsTheScore /\ History!AnswersStay
  /\ part = "totals" => Totals!TotalsAreTrue
  /\ part = "analysis" => Analyzing!AnalysesAreTheirs

(* Who walks through a table in steps meets each row that stays, and none  *)
(* twice, though rows come, go and change meanwhile: what is listed,       *)
(* recalculated, scored in batches, indexed or exported, and is recorded   *)
(* as complete, is complete, but for the failures that the code swallows.  *)
WalksReachAll ==
  /\ part = "pages" => Pages!StampsAreListed /\ Pages!ScoresAreListed
  /\ part \in {"weights", "rescore"} => Rescores!SuccessReachesAll
  /\ part = "batches" => Batches!DoneMeansTried /\ Batches!TasksWalkOnce
  /\ part = "legacy" => Legacy!CheckedStakesAreRecorded
  /\ part = "exports" => Dumps!ObjectsAreWhole
  /\ part \in {"votes", "records"} =>
       /\ Gifts!StatisticsHold
       /\ Gifts!FilesAreImported
  /\ part = "bans" => Banning!MarkedBansRevoked
  /\ part = "lists" => Lists!ImportsAreWhole
  /\ part = "requests" => Gateway!RequestsAreRecorded
  /\ part = "configs" => Configs!ClonesAreWhole
  /\ part = "sync" => Syncing!SyncsAreWhole
  /\ part = "credentials" => Checks!WholeOnesAreKept
  /\ part = "mints" => Mints!CheckedMintsAreAwarded

(* No community vanishes with its scores, and none that was deleted comes  *)
(* back, by a change of a scorer or any other edit that read the row as it *)
(* is; a save of an older reading may do both.                             *)
CommunitiesAreKept ==
  [][part = "communities" => Accounts!CommunitiesStay]_vars
=============================================================================
