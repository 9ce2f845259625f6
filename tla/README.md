# A verification development for the Passport Scorer

This directory holds TLA+ models of the stateful parts of the Passport Scorer, the TLC
configurations that check them on small instances, and TLAPS proofs about them for all
instances. Definitions keep the names of the code where TLA+ allows it. `PROJECT.json` maps every
definition to the lines it models and lists the runs, the mutants that each property must catch,
the findings, the hazards of the code and the theorems.

Everything runs inside this directory:

    tlc -workers 4 -config LifoConcurrent.cfg MCLifoDedup.tla
    tlapm LifoDedupProofs.tla

## 1. The system

A user collects *stamps*: verifiable credentials, each from a provider, each with nullifiers that
stand for the account behind it. A community has a scorer that adds up weights of stamps. The
server is a Django application (`src/api`), with two programs in Rust beside it that share its
PostgreSQL database: the staking indexers (`src/indexer`) and a rewrite of the scoring endpoint
(`src/rust-scorer`).

| Component | State | Operations | Talks to |
|---|---|---|---|
| LIFO deduplication (`api/account/deduplication/lifo.py`) | `HashScorerLink`: owner and expiry of each (nullifier, community) | `alifo`, `arun_lifo_dedup`, `save_hash_links` | called by scoring; logs events |
| Scoring (`api/v2/api/api_stamps.py`, `api/registry/atasks.py`, `api/scorer_weighted/computation.py`) | `Passport`, `Stamp`, `Score`, `Event` | `ahandle_scoring`, `ascore_passport` and its steps, the `pre_save` signal of `Score` | reads the ceramic cache, calls deduplication and human points |
| Recalculation (`registry/management/commands/recalculate_scores.py`) | `Score` | one pass over a community | races with scoring |
| Staking indexers (`indexer/src`) | `stake_stake`, `stake_stakeevent`, `stake_lastblock`, `stake_reindexrequest`, a connection pool | `run` with two timers, `process_all_events`, `add_or_extend_stake`, `update_stake_amount`, the human points of mints | the nodes of the chains, an operator's reindex requests |
| Ceramic cache (`api/ceramic_cache`) | `CeramicCache`, `Revocation`, `Ban` | add, patch, delete stamps, Compose DB status, revocation lists, bans | its newest live rows are what scoring reads |
| Human points (`api/registry/human_points_utils.py`) | `HumanPoints`, its config and multipliers | record actions, the scoring bonus, limited points, totals | called at the end of scoring, fed by the indexers |
| Accounts and logins (`api/account`, `api/tos`, the login of the ceramic cache) | `Nonce`, `Account`, the terms and their acceptances | issue and use of nonces, login, submission, acceptance | every signed message uses the same nonces |
| Keys and communities (`api/account/api.py`) | `AccountAPIKey`, `Community`, `Scorer` | create, rename, delete, threshold, change of the scorer | the scorer of a community is used by scoring |
| API key gateway (`registry/api/utils.py`, `aws_lambdas/utils.py`, `rust-scorer/src/auth/api_key.rs`) | the hashes of a key, its window, `AccountAPIKeyAnalytics` | check, migration of the hash, rate limit, record | in front of every endpoint for integrators |
| Firewall rules and lists (`account/admin.py`) | rule files in a bucket, `AddressList` and its members | generate and upload, import, membership | the firewall, custom credentials |
| Bans (`ceramic_cache/models.py`, `internal/bans_revocations.py`) | `Ban`, `Revocation` | add, upload, revoke what matches, check | revokes rows of the ceramic cache |
| Weights and scorers (`registry/weight_models.py`, `registry/admin.py`, `recalculate_scores.py`) | `WeightConfiguration`, the scorers' copies, `RescoreRequest` | upload, clone, activate, copy, recalculate all communities, sync the metadata | decides what scoring counts |
| Legacy indexer (`legacy_staking_indexer.rs`) | `registry_gtcstakeevent`, its last checked block | ranges, stream, timer | shares the pool with the other indexers |
| Exports (`scorer/export_utils.py`, `scorer_dump_data*.py`) | files and S3 objects | read a table in batches, upload | reads every table |
| Registry API (`registry/api/v1.py`, `v2/api/api_stamps.py`) | the cache of the metadata | pages of stamps and scores, history, metadata | reads what the others write |
| Notifications (`api/passport_admin`) | `Notification`, `NotificationStatus` | generate, list, dismiss, delete all | reads events and scores |
| Batch model scoring (`process_batch_model_address_upload.py`) | `BatchModelScoringRequest` and its items | list creation, batches, retries | the model endpoints |
| Rust scorer (`rust-scorer/src`) | the same tables as scoring | the whole of scoring in one transaction | runs beside the Python API |
| Grants (`cgrants`) | old contributions with their mark of success and their index, votes, squelched accounts | imports, the admins' forms, statistics of an address | asked by both scorers |
| Passport analysis (`passport/api.py`) | none | calls models in parallel, and the aggregate after its submodels | the model endpoints |
| Embed and internal API, lambdas | none | answer scores, stamps, checks | the parts above |
| Stake API, data model | none of their own | single reads | the tables of the indexers |

### What is hard here

* **Autocommit.** The Python API runs each statement in a transaction of its own. A request is
  a sequence of reads and writes with other requests in between, and what it wrote stays when a
  later step raises or the worker dies. Nothing locks a passport or a score.
* **Decide, then write.** Deduplication, the ceramic cache, nonces, human points and
  notifications read, decide in memory, and write later, on the strength of a unique constraint
  or of nothing.
* **Whole-row saves.** A `Score` (or `Community`) object is read at the start of a request and
  saved with all its columns at the end, over what others wrote.
* **Bulk statements** bypass the signals that keep the history.
* **One transaction, two connections.** The scorer in Rust commits a scoring as a whole, so that it
  can deadlock on rows, abort, or starve on a pool from which it needs a second connection.
* **Walks over moving tables.** Recalculations, batches, exports and the pages of the API read a
  table in steps, while rows come, go and change.
* **Dropped futures.** In the indexers `try_join!` drops an indexer at any await point when a
  timer returns an error, also in the middle of a transaction, and the connection goes back to a
  pool that does not reset it.
* **Two programs, one contract.** Python and Rust answer the same requests from the same tables, with
  other statements in another order; what they answer and store must not tell which one served.
* **Replays.** Blocks are read again after a crash, a reset or a reindex request. Events must not
  count twice, and none may be missed.

### What makes each part correct

* Deduplication: a nullifier counts for one address at a time while its row lives; a stamp is
  only reported as a duplicate when it is one; requests end.
* Scoring: only valid and unclaimed stamps count, each provider once; a request repairs what
  earlier ones left half done; every score that is shown has its history and the expiry of its
  stamps; clients are not left waiting.
* Indexers: each event is logged once and changes its summary in the same step; a block that is
  called checked is; each event is logged in the end.
* Ceramic cache: a user has one live stamp for each provider; a deleted or revoked row does not
  come back; stamps are lost only when their own replacement fails; a revocation run that is
  recorded is complete.
* Human points: an action counts once; the bonus goes to whoever passes in four communities;
  limits hold.
* Accounts: a nonce logs in once; an address has one account; an acceptance is of the terms that were
  signed. Communities: an edit does not undo another, and no community vanishes with its scores.
* Notifications: one for each cause; what one address dismisses another still sees.
* Batch scoring: a request that is done has all its items done or failed.
* Rust scorer: what counts is linked, no score is left with older stamps, no upload loses a provider,
  and never do all requests wait for one another.
* Walks: each row that stays is met once; what is recorded as complete is.
* Answers: what a check, a score, a total, a history or an analysis says was true when it was asked or
  became true meanwhile, and its parts belong together, in Python as in Rust.

## 2. The modules

| Module | Models | Lines it stands for |
|---|---|---|
| `LifoDedup` | deduplication, any number of requests | all of `lifo.py` |
| `NullifierRegistry` | what deduplication promises: owners change only after an expiry | (abstract) |
| `LifoDedupProofs` | theorems about both | |
| `ScorePipeline` | the scoring of one passport by many requests, and the recalculation | `ahandle_scoring`, `ascore_passport`, `recalculate_scores`, the weighted computation |
| `ScorePipelineProofs` | theorems | |
| `StakeIndexer` | the indexers of several chains, their timers, pool and transactions | `unified_indexer.rs`, `postgres.rs` |
| `StakeLedger` | what the indexers promise: a log without duplicates whose entries change their summary at once, complete up to a block | (abstract) |
| `StakeIndexerProofs` | theorems: what survives every drop and failure; what holds without drops; the refinement | |
| `CeramicCache` | the stamps of one address and the processes that revoke them | the handlers of `ceramic_cache/api/v1.py`, the constraints and bans of `models.py`, the Coinbase command, the upload of revocation lists |
| `CeramicCacheProofs` | theorems | |
| `RustScorer` | uploads and scorings in Rust, with row locks, aborted transactions and the pool | `rust-scorer/src/domain`, `db`, the handlers of the ceramic cache |
| `RustScorerProofs` | theorems | |
| `ServiceProofs` | theorems about `HumanPoints`, `Logins`, `WeightConfigs`, `Credentials`, `Contributions`, `WafRules`, `ScoreResponses` | |
| `RequestProofs` | theorems about `ApiKeys`, `Bans`, `Notifications`, `CachedReads`, `AddressLists`, `Weighing`, `PointTotals`, `Analyses` | |
| `ReadingProofs` | theorems about `Exports`, `MetadataSync`, `LegacyIndexer`, `MintPoints`, `BatchScoring`, `Communities`, `Rescoring`, `Pagination`, `Histories` | |
| `HumanPoints` | what a passing score earns, in Python and in Rust side by side | `human_points_utils.py`, `human_points.rs` |
| `Logins` | nonces, the two logins, signed submissions, the terms of service | `account/models.py`, `account/api.py`, `handle_authenticate_v2`, `tos/models.py` |
| `Communities` | the keys and communities of an account | `account/api.py` |
| `Notifications` | generation and dismissal for one user | `passport_admin/api.py`, its generators |
| `BatchScoring` | a request, its triggers, tasks and items | `process_batch_model_address_upload.py`, the views of `registry/admin.py` |
| `Pagination` | a client that walks through stamps or scores | `get_passport_stamps`, `get_scores` |
| `Rescoring` | configurations, their copy to scorers, and runs over all communities | `recalculate_scores.py`, `weight_models.py` |
| `LegacyIndexer` | the loop over the old contract | `legacy_staking_indexer.rs` |
| `Exports` | the dumps of tables | `export_utils.py`, the `scorer_dump_data` commands |
| `MintPoints` | the human points of mints on one chain | `unified_indexer.rs`, `postgres.rs` |
| `PointTotals` | what an address is told of its points, in both programs | `human_points_utils.py`, `human_points.rs` |
| `Weighing` | the sum, the weights and the row of a score, in both programs | `computation.py`, `scoring.rs`, `translation.rs` |
| `Credentials` | which credentials reach deduplication, in both programs | `atasks.py`, `registry/utils.py`, `credentials.rs` |
| `Histories` | SCORE_UPDATE events and the endpoint that reads them | `registry/models.py`, `api_stamps.py`, `scoring.rs`, `translation.rs` |
| `ScoreResponses` | the stamps and the score of one answer | `embed/api.py`, `ceramic_cache/api/v1.py`, `embed.rs` |
| `ApiKeys` | a request with a key, from its header to its record | `registry/api/utils.py`, `aws_lambdas/utils.py`, `api_key.rs` |
| `WafRules` | the files for the firewall | `account/admin.py` |
| `AddressLists` | imports and checks of a list | `account/admin.py`, `allow_list.rs` |
| `Bans` | bans, their admin action, the checks against them | `ceramic_cache/models.py`, `admin.py`, `bans_revocations.py`, `bans.rs` |
| `WeightConfigs` | the admin's configurations | `registry/admin.py`, `weight_models.py` |
| `MetadataSync` | the links of stamps to platforms | `registry/admin.py` |
| `CachedReads` | what is read through the cache | `registry/api/v1.py`, `api_stamps.py` |
| `Contributions` | the imports and the statistics of grants | `cgrants`, `domain/cgrants.rs` |
| `Analyses` | calls of models | `passport/api.py` |
| `MCLifoDedup`, `MCScorePipeline`, `MCStakeIndexer`, `MCCeramicCache`, `MCRustScorer`, `MCServices` | small instances | |

### LifoDedup

State: `links` is the table `HashScorerLink` of one community (communities share no row), `clock`
the time `now()` returns, `credited` the stamps the last finished request lets each address count.
Each request has a program counter and the local variables of the code: `nowAt`, the rows to
create and to update, the stamps it keeps and those that clash, and the tries that remain. Each
awaited statement is one action: `ReadLinks` (the query and the loop over the stamps, which runs
in memory without a pause), `BulkCreate`, `BulkUpdate`, `Verify` (the count at the end of
`save_hash_links`), `Retry` and `GiveUp` (the `except` of `alifo`), `Finish`. `Crash` ends a
request anywhere. `lapsed` is a history variable: the nullifiers whose row was expired at some
moment. It is what the properties have to exclude, since an expired nullifier may change hands.

### ScorePipeline

One passport in one community: nothing in these functions reads another passport, apart from the
deduplication, whose answer is a free choice of clashing stamps here (`Decide`), as every answer
can occur. State: the `cache`, the Passport row, how many Stamp rows hold each credential, the
Score row, and whether the history holds what the row says. Each worker runs `GetScore`, `Load`,
`Decide`, `DeleteRows`, `CreateRow` for each stamp, `RowsCreated`, `Compute`, `Award`, `LogEvent`
and `Save`, may `Fail` (the exception handler clears the score) and may `Crash`. Batches run
`RecalcRead`, `RecalcFind`, `RecalcInsert` or `RecalcUpdate`. Weights depend on the provider
alone, so a score is represented by the credentials it counts. `accepted` (what some request
found valid and unclaimed) and `solo` (who has run alone since it began) are history variables.

### StakeIndexer

One indexer for each chain and a pool of connections. A connection holds what its open
transaction has written (`work`), whether it is open or aborted, and perhaps a statement that was
sent before its sender was dropped and that waits for a lock. `job` is the indexer: its place in
`run` and `process_all_events`, the range it reads, the position of the last event it handled.
`Begin`, `Insert`, `Apply`, `Commit` and `Rollback` are the transaction of an event; a unique
violation leads to `Rollback` and is no error. `Restart` is the drop of the join by a timer or a
failed request to the node, `AllStartOver` main's loop with a new pool, and `Crash` the end of
the process. `FaultyNext` adds statements that fail and indexers that are dropped while they wait for one. An amount is represented by the events that were added up to it. `StakeLedger` is
the abstract specification: `Record` and `Check`. `LedgerSpec` states that what the indexer makes
visible is a behaviour of the ledger.

### CeramicCache

The rows of one address, by id in the order they are inserted. A request that adds or patches
stamps is `SoftDelete`, then `BulkCreate`, or `CreateFails` when the unique constraint on live
rows refuses one of them, against the table or within the payload: two statements, each committed
by itself. `CheckDelete` is the query of the delete handler before its update. `ReadPending` and
`WriteStatus` are the Compose DB status. A revoker (a ban, or the Coinbase command) reads the rows
and creates the revocations one by one; `RevocationFails` is the integrity error for a row that
was revoked in the meantime, and `RecordRun` the statement at the end of the run. `RevokeList` is
the upload in the admin, one transaction. Saved and failed stamps are told apart by nothing here,
so a row is pending or not. A row is deleted or not: two rows of a provider with the same deletion
time to the microsecond are left out. `expected`, `due` and `recorded` are history variables.

### RustScorer

State: the live stamps of each address in the cache, the link row of each nullifier, and the stamps
that count (Stamp rows and Score, which one commit writes together). A request that uploads is
`SoftDelete`, then `BulkInsert`, in a transaction of its own; each request then scores:
`BeginTransaction`, `LoadCommunity`, `UpsertPassport` (which locks the row), `LoadStamps`,
`ReadLinks` (the decisions of `lifo_dedup_attempt`, in memory), `WriteLink` row by row in the order
of the code, `VerifyLinks`, `Commit`. `mine` holds what a transaction has written: others wait for
these rows, and nobody sees them before the commit. `UniqueViolation` leads to `RetryFails`: the
retry of `lifo_dedup` runs in the transaction that the error has aborted. `DeadlockDetected` is the
server's, `PoolTimeout` the `acquire_timeout` of the pool. The community, the stamps and the weights
are read with a second connection (`PoolHasOne`). `fresh`, `shown` and `overwritten` are history
variables.

### The services

`MCServices` puts parts that share no row into one run: `part` says which of them a behaviour runs.
As only one runs, they share the variables: `s1`, `s2`, ... stand for the variables of the part that
runs, in the order of its INSTANCE, and those it does not need stay `None`. Each part is a module of its
own that can be checked without the others.

* `HumanPoints`. Each action is one step of `ascore_passport` or `process_human_points`: a check
  (`ReadKeys`, `CountPassing`, `CheckLimit`) and the insert that relies on it. Python's steps commit
  by themselves; Rust's are kept in `unsaved` until the end, and their new keys make others wait.
* `Logins`. `ReadNonce` and `SaveNonce` are the two statements of `use_nonce`, which all messages
  go through; `FindAccount` and `CreateAccount` those of a first login. `AcceptTerms` recovers the
  signer from the text that is active then, `ActivateTerms` changes it in two statements.
* `Communities`. Each request reads (`StartChange`), checks (`CountCommunities`, `CheckName`) and saves
  the whole row (`SaveCommunity`); a change of the scorer is `SaveScorer`, `SaveCommunity`,
  `DropScorer` with its cascade. A PATCH that changes name and threshold together is taken as two
  edits, one after the other.
* `Notifications`. A listing generates (`List`, `CreateNotes`, `RemoveNotes`); a dismissal is the two
  halves of `get_or_create` (`GetStatus`, `AddStatus`) and `SaveStatus`, which writes the row as read. Two
  listings and a dismissal can bring a notification back: one listing has read that it is obsolete and
  removes it after another has made it again and the user has dismissed that one (`torn`).
* `BatchScoring`. A view opens and saves the request (`OpenRequest`, `SaveTrigger`); a task looks it
  up, creates and resets items, and takes batches by a cursor (`ReadBatch`, `ScoreBatch`).
* `Pagination`. `PageDown`, `PageUp` and `FollowLink` are the cursors of the stamps, `PageByOffset` the
  offsets of the scores; rows come, go and get new timestamps between the pages.
* `Rescoring`. `ReadWeights` and `ReadThreshold` are two queries, `UpdateWeighted` and `UpdateBinary`
  two updates; then `LoadScorer`, `ReadPassports`, `WriteScores` and `CountCommunity` for each
  community. Passports are scored by others meanwhile (`StartScoring`, `EndScoring`).
* `LegacyIndexer`. `QueryRange`, `InsertPast`, `MarkRange`, then `StreamEvent`; `Timer` and `BreakOff` end
  the join at any of them.
* `Exports`. `ReadRows` batch by batch, `Upload`, and on with the next table, also after `TableFails`.
* `MintPoints`. `QueryRange`, `Route` for each log, `SaveBlock`; a stream and a reset at any time, a reindex
  request, and an insert that fails and is only printed.
* `PointTotals`. One action per query, in the order of each program, with awards, multipliers, the
  eligibility and the configuration changing between them.
* `Weighing`. `ReadPythonScorer` and `ReadCustom` are queries with changes in between, `ReadRustScorer` the
  two loads in Rust; `PythonRow` and `RustRow` the pure computation, compared with each other.
* `Credentials`. The loop, a credential at a time: dates, then signature, during which time passes.
* `Histories`. Python's `StartPython`, `score_updated`, `SaveScore`; Rust's `BeginRust`, `UpsertScore`,
  `CommitRust`; recalculations, and `get_score_history` for a time.
* `ScoreResponses`. Each handler's own order of replacing stamps, scoring, saving and listing.
* `ApiKeys`. `Receive`, the check by either hash, `Migrate`, `CheckRateLimit`, `Serve`, `Record`, while the
  owner's `ReadForEdit` and `SaveEdit` and the admins change the row. Rust starts the migration of the
  hash before it looks at `read_scores`, so also for a request that it then refuses (`MigrateLater`).
* `WafRules`, `AddressLists`, `Bans`, `WeightConfigs`, `MetadataSync`, `Contributions`. Each loop of an admin's
  action or a command is an action per statement, which may break off, run again, or run twice at a time.
* In `Contributions` an old contribution counts if its row in the index has the address and it is marked as a
  success (`Successes`), as `api.py:50` and line 44 of `db/queries/cgrants.rs` ask. `SaveRecord` leaves the
  mark at its default, FALSE, also when it saves over a row; `SaveNoIndexRow` is the import of the index,
  whose first new row raises. Both come from the admins' forms only: `MarkContribution`, `AddIndexRow`.
  Python asks three times (`LookForAny`, `CountGrants`, `SumGiven`), Rust once (`ReadIndex`).
* `CachedReads`. A look, a fetch and a store of each of two caches, one derived from the other.
* `Analyses`. The calls that run together end in any order; `Ask` pairs responses and names.
* two indexers. `StakeIndexer` again, for two chains that share two connections, with timers inside of
  transactions and failing statements.

History variables (`excused`, `twice`, `crowded`, `stale`, `torn`, `untried`, `late`, `outdated`, `ahead`,
`failed`, ...) name exactly the race or the failure that a promise does not survive, when it comes
about; the property then holds for everything else.

## 3. What the runs check

| Run | Instance | Result |
|---|---|---|
| `lifo_concurrent` | 2 requests, 2 addresses, 2 nullifiers that rotate, 2 tries, clock to 1, crashes | types, the inductive invariant, `CreditIsBacked`, `ExclusiveUnlessLapsed`, `ReportsAreJustified`, `OwnersKeepUnexpiredRows`, refinement of `NullifierRegistry` hold |
| `lifo_serial` | 1 request at a time, 2 providers, 3 nullifiers, 5 tries, clock to 2 | no two addresses count live stamps with one nullifier; requests end |
| `lifo_race` | 2 requests | violation: two requests that both saw a row expired let both addresses count |
| `lifo_backfill` | 1 request | violation: an integrity error without a competitor repeats in every try |
| `pipeline_requests` | 2 workers that fail and die, a stamp and its renewal, clock to 1 | types, invariant, `OnlyAcceptedStampsCount`, `SoloRequestsHeal`, `DoneScoresAreInHistory`, `ScoresExpireWithTheirStamps` hold |
| `pipeline_rescore` | 2 workers that fail but do not die, and a recalculation | `RecalculationIsIdempotent` holds; a score in PROCESSING becomes DONE or ERROR |
| `indexer` | 1 chain of 6 blocks, 4 events, ranges of 3, 2 reindex requests, crashes, node failures, timers | types, `AppliedOnce`, `CheckedBlocksAreLogged`, `LoggedStakesAreApplied`, `LastBlockGrows`, refinement of `StakeLedger`, `EventsAreLogged`, `ReindexRequestsAreTaken` hold |
| `indexer_half_commit` | 2 chains, 2 connections, drops inside transactions | violation: an event is logged without its summary |
| `ceramic_cache` | 2 requests and a revoker that die, uploaded lists, 2 credentials of one provider and 1 of another, 2 rows | types with one live row for each provider, `OnlyFailedReplacementsLoseStamps`, `RecordedRunsRevokedAll`, `GoneStaysGone` hold |
| `rust` | 2 requests, 2 addresses, 3 stamps, 2 nullifiers in two orders, a pool of 2 or 3, clock to 1 | types, `CreditsAreLinked`, `NoStaleScore`, `SomebodyMoves`, `UploadsLoseNothing` hold |
| `history_format` | 2 scorings of any program, a recalculation | violation: where a scoring in Rust recorded the newest event, the history endpoint fails |
| `services` | the parts in the table below, one in each behaviour | types, `ClaimsHold`, `ReadingsStayTrue`, `WalksReachAll`, `CommunitiesAreKept` hold |

The properties of `services` are conjunctions of those that the modules state:

| Part | Instance | `ClaimsHold` | `ReadingsStayTrue` | `WalksReachAll` |
|---|---|---|---|---|
| `HumanPoints` | 2 workers, 3 scorings, 2 languages, 2 nullifiers of one provider, a bonus at 2, a limit of 1 | `BonusNotMissed`, `LimitHolds`, `KeysNotRepeated` | | |
| `Logins` | 2 requests, 2 nonces, 2 texts of the terms | `NonceTakenOnce`, `OneAccount` | `ProofsAreSigned` | |
| `Communities` | 2 requests, 2 names, limits of 1, 4 ids (keys and communities apart) | `LimitsHold` | `DeletedKeysAreGone` | |
| `Notifications` (twice) | 2 requests, one user, a personal and a global notification; 3 requests, a personal one | `OneStatusEach` | `DeletedStaysHidden` | |
| `BatchScoring` | 2 tasks, 3 items, one of them invalid, batches of 2 | | | `DoneMeansTried`, `TasksWalkOnce` |
| `Pagination` | up to 5 rows, pages of 2 | | | `StampsAreListed`, `ScoresAreListed` |
| `Rescoring` | 2 runs over 2 communities and activations; then 1 run and a worker that scores | | `ScorersAreConsistent` | `SuccessReachesAll` |
| `LegacyIndexer` | 5 blocks, ranges of 2 | | | `CheckedStakesAreRecorded` |
| `Exports` | 2 tables of up to 3 rows, batches of 1 | | | `ObjectsAreWhole` |
| `Contributions` (votes and records apart) | 2 commands, 2 votes in 2 rounds, files with an unreadable and a repeated line, 2 records, which the admins index and mark, chunks of 2 | | | `StatisticsHold`, `FilesAreImported` |
| `Bans` | 1 address with 2 stamps, an old hash ban and up to 2 more, clock to 1 | | `BansAreKept`, `ChecksAreRight` | `MarkedBansRevoked` |
| `WafRules` | 2 runs, 2 keys (one given), tiers, expiry and revocation | | `RulesFitKeys` | |
| `AddressLists` | 2 imports, 3 files over 3 addresses with a bad line each | | `ListChecksAreRight` | `ImportsAreWhole` |
| `ApiKeys` | 2 requests at a limit of 1, 3 edits, both languages | | `SettingsAreKept`, `KeysAreRecognized` | `RequestsAreRecorded` |
| `WeightConfigs` | 2 admins, 2 configurations, 2 providers | `OneIsActive` | | `ClonesAreWhole` |
| `CachedReads` | 2 readers, lives of 1, clock to 3, 3 states of the source | | `AnswersAreFresh` | |
| `MetadataSync` | 2 syncs, 2 stamps, 2 platforms, 2 versions of the metadata | | `HomesExist` | `SyncsAreWhole` |
| `Weighing` | 3 kinds of stamps, 2 weight sets, up to 3 kept stamps in any order | | `RowsAddUp`, `WeightsAreTheirs`, `ProgramsAgree` | |
| `ScoreResponses` | a provider, 2 uploads, 6 handlers, clock to 1 | | `AnswersFit`, `AddsAreAnswered`, `ScoresAreCurrent` | |
| `Credentials` | 3 credentials: a whole one between any two of 10 kinds, clock to 2 | | `KeptAreValid` | `WholeOnesAreKept` |
| `Histories` | 2 scorings after an old one, a recalculation, a question | | `HistoryFollowsTheScore`, `AnswersStay` | |
| `MintPoints` | 5 blocks, ranges of 2, 4 mints | | | `CheckedMintsAreAwarded` |
| `PointTotals` | 3 awards, 2 actions, a multiplier | | `TotalsAreTrue` | |
| `Analyses` | 4 models, 6 requests, 1 call of each model | | `AnalysesAreTheirs` | |
| `StakeIndexer` | 2 chains (one event each), 2 connections, drops inside transactions, failing statements | `AppliedOnce` | | |

Each of these has a plausible bug beside the definition that it would be in (`ReadRowsByOffset` beside
`ReadRows`), with which TLC finds it violated.

**Bounds.** Two requests are enough for every pair of conflicting statements; a third adds no new
kind of conflict because all of them touch the same rows, and the theorems below hold for any
number. The nullifier sets include a rotation (`{n1}`, `{n1, n2}`, `{n2}`), so that backfills,
partial clashes and rows of two addresses for one stamp occur. The clock reaches the expiry of
the short-lived stamps, so that rows expire between a read and a write. Six blocks and ranges of
three make a chain of two ranges with a short last one. Two reindex requests start over during a
replay. Two connections suffice for a transaction that is left open on one while another waits
for its lock; the pool has 16 and the order in which it hands them out is left open. Two
rows in the ceramic cache let a stamp be replaced once, with two requests in each other's way, and
a revoker find two rows of which one is revoked under its hands; a third row runs into the same
conflicts. Once the table is full, inserts wait. In Rust the pool of two is smaller than what two
requests want, that of three lets one of them finish. In the services each counter is one beyond the
smallest value at which its race exists: a limit of one with two requests that count, a bonus at two
with two communities, a second batch, a third page, a second range, a passport that comes late. A
list of credentials has one before and one after the one that must survive them; files have a line
that fails before one that must not be lost.

**Fairness.** `lifo_serial` and `pipeline_rescore` assume weak fairness of the steps of each
worker: an asyncio task that can run does run, and PostgreSQL answers. Nothing is assumed of new
requests. `indexer` assumes weak fairness of the indexer's steps, of the two timers (they sleep
for a fixed time); strong fairness of reading the newest block (the
node answers again and again, not always); and `Settled`: from some moment on an indexer that
starts over gets to its stream, so the process does not die for ever, and a range is read in less
time than the timers leave. Without the last assumption an indexer may be reset before it has
finished its first range, for ever. `rust` states no fairness: `SomebodyMoves` says in every state that
some request can go on, which the timeout of the pool and the deadlock detection of the server are
there for.

**Deadlock** is checked in every run but `services`, whose parts end: nonces, ids and triggers run out.

### Findings

* `lifo_race`: the promise of deduplication needs a lock or a condition in the update. The
  `bulk_update` writes rows by id without looking at their owner, and the final count cannot see
  that the other address has already returned.
* `lifo_backfill`: a stamp that clashes on one nullifier while another of its nullifiers already
  has a row fails in all tries, although no request competes.
* `history_format`: Rust stores the event of a score as a list, `get_score_history` calls `.get` on it, so
  that the history of an address that was scored in Rust is an error from then on.
* `indexer_half_commit`: the connection of a dropped indexer is reused with its transaction open;
  another chain's COMMIT stores the event without the summary, and the replay takes it for a
  duplicate.

Beyond the runs, from reading the code with the models:

* `bulk_create` and `bulk_update` of a recalculation send no signal, so no SCORE_UPDATE event records
  the scores it writes: with a recalculation neither `DoneScoresAreInHistory` nor
  `ScoresExpireWithTheirStamps` holds (the expiration date of the row is left alone as well).
* The handlers of slash and release pass the staker as the stakee (`unified_indexer.rs:648`), so that
  the slash of a community stake lowers the self stake.
* With `MayError = TRUE` `CheckedBlocksAreLogged` does not hold, as the handlers print the error of one
  event and go on (`unified_indexer.rs:535` and its siblings).
* With two workers a score in Python may count stamps that neither of them kept together, as both
  delete the rows before either writes them; a request that runs alone then repairs the rows, which
  is what `SoloRequestsHeal` states.
* A global notification that one user has deleted is hidden from every user without a status of her
  own: the listing joins the statuses of all users (`passport_admin/api.py:156`).
* In the legacy indexer a range begins with the last block of the one before, whose events are
  inserted again (`legacy_staking_indexer.rs:150`; the table has no key); its timer resets it every
  15 minutes, as its stream marks no blocks; and a range that ends beyond the newest block is marked
  as checked.
* History: a recalculation writes a score and no event; an event of Rust is dated when its transaction
  began, so that an answer for a past time may still change when it commits.
* Keys: a failed authentication leaves no row, as `create` is given fields that the table does not have and
  the exception is swallowed, though `api/registry/api/utils.py:157` wants "Track API key usage regardless of
  authentication outcome". Rust records 200 before it scores and has no rate limit. The synchronous check
  accepts revoked and expired keys and the asynchronous one expired ones; what stops them is the firewall.
* Bans: `save` validates, so that bans of a hash, which may be old rows, can no longer be saved and their
  revocation always ends in an error after the rows are revoked. Rust compares the address of a ban or of a
  list as it is written, Python in lower case.
* Scores: Rust does not look at the weights of a customization and still counts stamps that are revoked. Of
  two stamps of a provider both count the first; Python shows the provider with 0 points, Rust as
  deduplicated. Python accepts a
  hash without nullifiers, Rust does not; a credential without a proper expiration date ends the whole
  scoring in Python and is passed over in Rust.
* Points: without an active row Python shows a multiplier of 1, Rust the real one; Rust lists actions that
  are not active, with 0 points. An insert for a mint that fails is only printed.
* The pages of stamps of the second API link to the first one (`reverse` of `registry:get_passport_stamps`).
* Saving a configuration that has a file again inserts its items again and fails on their unique key.
* Each property of the services that names an exception names a race that exists: two logins with
  one nonce, two accounts of one address, a community or a key that a stale save brings back, limits
  that are passed, two human keys, a missed bonus across Python and Rust.

## 4. What is proved

All theorems are for arbitrary constants that satisfy the `ASSUME` of their module: any number of
requests, addresses, nullifiers, stamps, providers and batches, any clock bound, with and without
crashes and failures.

* `LifoDedupProofs`. `TypeCorrect`, `Invariance` (`IInv`), `CreditTheorem`, `ExclusivityTheorem`,
  `ReportsTheorem`, `OwnersTheorem`, `RefinementTheorem`. `CreditIsBacked` alone is not inductive:
  a request that has decided holds its plan in memory while others write. `IInv` adds what a plan
  means until it is carried out: a row to update is the request's own or has lapsed (`UpdatesInv`),
  each nullifier of a kept stamp is to be created or updated and none both (`CoverInv`), and once
  the rows are counted they are its own (`KeptInv`). That last step is the interesting one:
  `Verify` only compares two cardinalities, and `CountDecides` shows that equality means every row
  of the plan is there and owned. A clash stays a clash because owners change only by expiry
  (`ClashInv`, `StepsKeepOwners`).
  `SerialTheorem` is `NoLiveDoubleCredit` where at most one request exists and none dies. It needs a
  second invariant (`SerialInv`): whoever is credited for a live stamp has its row with the expiry
  of that stamp, unless its own request is at work (`LiveLinks`), and the plan of the request gives
  each row of a kept stamp that very expiry (`Exact`). With crashes it is false, and TLC shows it:
  a request shortens the expiry of a row to that of a newer stamp and dies before it credits it; the
  older stamp still counts when another address takes the expired row. With two requests it is false
  too (`lifo_race`).
  `RegistryExclusive`: the abstract registry keeps holders of one nullifier apart unless it lapsed.
* `ScorePipelineProofs`. `PipelineTypes`, `PipelineInvariance` (`IInv`), `AcceptedTheorem`, `HealingTheorem`, `RecalculationTheorem`;
  without batches also `HistoryTheorem` and `ExpiryTheorem`: batches write scores without an event. `IInv` says that what is in the memory of a
  worker is as sound as what is stored (`MemoryInv`), since any of it may be written at any later
  time, and that for a worker that has run alone the rows are what it has written so far
  (`SoloRowsInv`). `ReadsAreCurrent` adds that what a recalculation alone has read is what the rows still say.
* `StakeIndexerProofs`. `TypeCorrect`, `AppliedOnceTheorem`, `LastBlockTheorem`, all of `FaultySpec`:
  crashes, failing nodes and statements, timers that drop an indexer anywhere. (`SpecIsFaulty`: what
  holds of `FaultySpec` holds of `Spec`.) `AppliedOnce` by itself says nothing of what waits to be committed. `IndexerInv` adds
  that uncommitted work lies in open transactions only and what is applied there is logged there
  (`GoodWork`), that a statement which a dropped indexer left behind belongs to nobody and fits the
  transaction it will run in (`GoodQueue`), that the unique key holds over the table and all open
  transactions together (`KeysInv`), and that no two indexers share a connection (`JobInv`).
  With `~CancelMidway`, `LoggedStakesTheorem`; with `~MayError` as well,
  `CheckedBlocksTheorem` and `LedgerTheorem`, the refinement of `StakeLedger`. The assumptions are
  the ones without which the code breaks the promise: `indexer_half_commit` is the counterexample to
  the first, and the event of a statement that fails is printed and forgotten, so that the next save goes
  past it. `Quiet` says that a connection nobody uses is clean and what
  an open transaction holds at each stage (`Contents`); `Ranges` that a range starts at most one block
  past the last saved one and that the events it has passed are written (`GoodRange`).
* `CeramicCacheProofs`. `CacheInvariance` (`CacheInv`), `TypeCorrect` (one live row for each
  provider), `LostStampsTheorem`, `RecordedTheorem`, `GoneTheorem`, for any number of requests, revokers,
  rows and stamps. `CacheInv` ties what a process has read to the table it read it from: rows
  that were loaded still exist (`LoadedExist`), and what a revoker has yet to revoke is in its list
  or revoked by somebody else (`DueInv`). `Kept` is what every write keeps of a row, and `GoneTheorem`
  follows from it.
* `RustScorerProofs`. `TypesInvariance`, `TypeCorrect`, `NoStaleScoreTheorem`, `UploadsTheorem`, `Invariance`,
  `CreditsTheorem`, for any number of requests, connections, addresses and nullifiers. `Scores` says that
  one request at most holds the lock of a passport and that a score which is owed is on its way: the
  request that will write it has not read the cache yet, or read what is there now. `LinksInv`
  follows a link from the reading to the commit: what a transaction has written or is about to write
  is free for its address in the table, or was overwritten, and bears the expiry of the stamp that it will credit;
  the equality of two cardinalities in `Verified` is where each nullifier of a credited stamp turns
  out to be linked to the address. `RustAssumption` asks for finitely many stamps and nullifiers, and for
  uploads with one stamp of each provider, which is what `ON CONFLICT DO NOTHING` stores of a payload.

The other three modules prove what `services` checks on its instances: every part of `ClaimsHold`,
`ReadingsStayTrue` and `WalksReachAll`, and `CommunitiesAreKept`, each for its own module and for
any constants (that of two indexers in `StakeIndexerProofs`). (`MCServices` itself, which fixes the
constants, has no theorem; the `PROJECT.json` lists the theorems that say most, the modules have one
for each property.) What is assumed of the constants is in the hypotheses of the theorems, and is
what the code makes sure of or what the model needs to be one: rows, dates and limits are numbers,
batches, pages and ranges are not empty, and a value that stands for "nothing" (`None`, `NoRow`,
`NoDate`, ...) is not among those that it is told apart from.

* `ServiceProofs`. `KeysTheorem`, `LimitTheorem`, `BonusTheorem`, `NonceTheorem`, `AccountTheorem`,
  `ProofsTheorem`, `ActiveTheorem`, `ClonesTheorem`, `ValidTheorem`, `WholeTheorem`,
  `StatisticsTheorem`, `FilesTheorem`, `RulesTheorem`, `FitTheorem`, `AddsTheorem`,
  `CurrentTheorem`. Scorings of human points interleave in two languages, of which Rust commits at
  the end. `PointInv` says that, where nothing is excused, those about to save a key or limited
  points, or with uncommitted ones, exclude each other (`KeysKept`, `LimitKept`), and that a bonus
  which is due, by what is committed or by what one transaction is going to commit, has somebody to
  deliver it (`BonusSeenTo`): of two transactions with a score of one address one has yet to count.
  Of logins, a nonce that was taken is used for good (`NonceInv`), and a second taking or a second
  account had both readers there at once; `ProofsTheorem` assumes that the strangers whose
  signatures the model has are not among `People`. For configurations, `ActiveInv` says that an
  activation that is about to commit holds the locks of all active rows, its own included, and that
  it is the only one; hence what commits leaves one. `CloneInv` follows a clone over the requests
  that create and fill it: an id that was never used has no items. Of credentials, `VerifyInv` is
  what has been established when the signature is looked at, and `PassedInv` what became of those
  gone through. `StatisticsInv` compares what a request has found by its step with what it had to
  find; of the old contributions those that count at any moment lie between the ones that counted
  all the while (`asked.steady`) and those that ever did (`asked.ever`). `RunInv` says of a run of the firewall rules that what it has read is still right of the
  keys that did not change since it began, and what it has put as well if nobody was ahead of it;
  `AnswerInv` that what was shown or counted is still what would be, for all stamps that nothing
  changed meanwhile.
* `RequestProofs`. `SettingsTheorem`, `RecognizedTheorem`, `RecordedTheorem`, `BansTheorem`,
  `MarkedTheorem`, `ChecksTheorem`, `HiddenTheorem`, `OneStatusTheorem`, `FreshTheorem`,
  `ImportsTheorem`, `ListChecksTheorem`, `WeightsTheorem`, `RowsTheorem`, `ProgramsTheorem`,
  `TotalsTheorem`, `AnalysesTheorem`. Of keys, the interesting part is a row in memory: what is or
  will be written as the fast hash is that of the key, whoever holds the row (`RowInv`). Of bans, a
  run works through a queue that it loaded before: each entry is what the admins left, or changed
  after that (`QueueInv`), and what is left to revoke is what was found and not yet revoked
  (`RevokeInv`). Of notifications, one request at a time is at one that no two met at; what it will
  save is the row as it is, and a dismissed one has a status that says so (`WholeAt`). The age of
  what a cache holds adds up over its levels (`CacheInv`, `ReadInv`). What has been imported is the
  part of the file up to the row, but for rows that were deleted. `RowsTheorem`, `ProgramsTheorem`
  and `TotalsTheorem` are about sums, which `MapThenSumSet` computes recursively. They need only
  facts about all finite sets, proved by a smallest counterexample (`SmallestSet`) in place of an
  induction: any two ways to sum agree (`TotalsAgree`), the order does not matter (`TotalRemove`), a
  one-to-one renaming keeps the sum (`TotalRenamed`), and less of less is not more (`TotalLess`).
  With them the sum over the stamps that count is one over their providers (`SumIs`), which no
  longer depends on the order in which the table gives the stamps (`OrderIs`). The answers of models
  are told apart by their place among the calls, not by the order in which they come (`CallsAre`,
  `Quotes`).
* `ReadingProofs`. `ObjectsTheorem`, `TriedTheorem`, `WalkTheorem`, `CheckedStakesTheorem`,
  `CheckedMintsTheorem`, `HomesTheorem`, `SyncsTheorem`, `LimitsTheorem`, `DeletedKeysTheorem`,
  `CommunitiesTheorem`, `SuccessTheorem`, `ScorersTheorem`, `StampsTheorem`, `ScoresTheorem`,
  `FollowsTheorem`, `AnswersTheorem`. The common shape is a cursor: what was met is on one side of
  it, and what stayed and was not met on the other (`CursorInv`, `OffsetInv`, and the invariants of
  exports, batches, ranges and runs); that a batch holds the next rows and none between needs that a
  set of numbers has a least element (`LeastNumber`) and that the rows of a batch are the oldest of
  the rest. An offset is right only for an order in which rows neither come before it nor move,
  which is why `ScoresAreListed` speaks of ids, or of timestamps that differ and stay.
  `PageConstants` asks for three rows because the first three are there from the start. For
  `SuccessTheorem`, `Reached` says of every run that an outdated score in the communities whose
  weights have not changed since it loaded them is one that it holds or has still to read. The
  limits need that one request at most has counted and not yet inserted, and that there is room for
  its row (`Within`), and `CommunitiesTheorem` that no two rows refer to one scorer, and none yet to
  the one that a change has just created (`StayInv`). `FollowsTheorem` ties the newest event to the
  row over scorings whose event and row commit apart (`RowIsNewest`, `LaterIsLater`).

Only model-checked:

* Liveness, as fairness is outside the prover's reach (`RequestsEnd`, `ProcessingEnds`, `EventsAreLogged`,
  `ReindexRequestsAreTaken`), and `SomebodyMoves`, which states ENABLED.
* The type invariants of the services (`TypeOK` of `MCServices`), of which the theorems carry what they need.

## 5. The plan

In this order; each module is written with its constants and assumptions so that it can be proved
about.

1. `LifoDedup`, `NullifierRegistry` with proofs: done.
2. `ScorePipeline` with proofs: done.
3. `StakeIndexer`, `StakeLedger` with proofs: done.
4. `CeramicCache` with proofs: done for V1 stamps of one address.
5. `RustScorer` with proofs: done, but for `SomebodyMoves`.
6. `HumanPoints`, `Logins`, `Communities`, `Notifications`, `BatchScoring`, `Pagination`, `Rescoring`,
   `LegacyIndexer`, `Exports` with proofs: done.
7. `Weighing`, `Credentials`, `ScoreResponses`, `Histories`, `ApiKeys`, `Bans`, `WafRules`, `AddressLists`,
   `WeightConfigs`, `MetadataSync`, `CachedReads`, `Contributions`, `MintPoints`, `PointTotals`, `Analyses` with
   proofs: done.

## 6. What is not modelled

* Data: signatures, JWTs and the validity of credentials beyond what `Credentials` has of them; texts, most
  of the metadata, amounts and unlock times; which permissions a key has, but for the one that Rust asks for.
* Of `cgrants`, the deletions and the other edits of the admins' forms; that an address is put into a row of
  the index that is there already is `AddAddresses` only. With the code alone nothing that is imported from
  the old platform counts until an admin marks it: `import_contribution.py:27` does not set `success`, whose
  default is FALSE (`cgrants/models.py:109`), and `import_grantcontributionindex.py` gives its rows fields that
  their table does not have, so that it saves none. No document says otherwise, so it is not a finding.
* A rate of `""` in the table of keys, which no code writes: `WafRules` has "unlimited" for NULL alone.
* The admin action that brings deleted stamps back (`ceramic_cache/admin.py:22`): it saves whole rows as it
  read them, with their Compose DB status, and `CeramicCache` with it is too large to check. Bans of a hash
  with several addresses are in `Bans` with one, as each address is revoked by itself.
* Parts without steps of their own: the stake API, the configuration and the sections of the widget, the
  discovery of dashboards, the Trusta Labs app (migrations of a table that no code uses), the data model
  (a table in another database that is only dumped), the translation of events in the lambdas. They are one
  read each.
* `backfill_shape_scores`, which writes to a chain through a contract; the results file of a batch, the
  summary file and the CloudFront invalidation of the exports.
* The front end, the infrastructure, the verifier, the examples and the load tests, which are programs
  around the server.
* The environment: the reorganisation of a chain (the indexer has no code for it), the lag of a read
  replica, two administrators who edit the same row in the same form, the numbers in which the tables of a
  community and of its scorer differ (they are taken to have the same id, as Rust does). The order in which
  PostgreSQL returns rows is a free choice where the code depends on it.

`PROJECT.json` lists each component with its status and reason.
