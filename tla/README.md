# A formal model of StarePlays

StarePlays records StarCraft games.  Players upload replay files to a Go server,
which parses them into PostgreSQL; a worker process analyses each game with an
external analyzer; batch jobs compute ranking and match-up tables; web pages and
an MCP connector read the results.  This directory holds TLA+ models of the parts
of that system that are hard to test, the TLC configurations that check them on
small instances, and TLAPS proofs of the results that matter most for every size.

Contents: 1 inventory, 2 plan, 3 the modules and the code, 4 the runs, 5 fairness,
6 the proofs, 7 findings, 8 what is not modelled.

Paths are relative to `src/`.  RH stands for
`backend/internal/api/handlers/replay_handler.go`, WK for
`backend/cmd/replay-analyzer-worker/main.go`.

## 1. Inventory

| Component | Source | State it keeps | Operations |
|---|---|---|---|
| Upload and game API | RH | tables `users`, `games`, `players`, `replay_files`, `game_details` | parse local, upload, upload batch, preview, list, detail, delete |
| Season settings | RH 737-850, 1555-1798 | `app_settings.current_season`, `games.season_no/season_label`, `players.is_random_selected` | set current season, set a game's season, stamp uploads, list seasons |
| Analysis queue | `backend/ent/schema/game_analysis.go`, RH 1029-1120, 1638-1716 | table `game_analyses`, one row per game | enqueue on upload, requeue under another analyzer version, enqueue when seasons are listed, delete with the game, `pg_notify` |
| Replay analyzer worker | WK | the job in memory, artifact directory `job_<id>`, one LISTEN connection | claim, execute, report success, report failure, wait |
| Replay bucket | `backend/internal/storage/replaybucket` | objects keyed by file hash | put, get, exists |
| Ranking snapshot | `backend/internal/services/ranking`, `backend/cmd/ranking-job` | table `ranking_3v3`, advisory lock 330033 | rewrite, list |
| Race match-up snapshot | `backend/internal/services/analyzer`, `backend/cmd/analyzer-job` | table `analyzer_race_matchups`, advisory lock 330044 | rewrite, list |
| Migration job | `backend/internal/services/migration`, `backend/cmd/migration-job` | outcome columns of `games` and `players`, advisory lock 330055 | normalise short games, then both rewrites |
| Season import | `backend/cmd/season-import` | games of one season | walk a directory, import, recompute winners |
| Random-selection backfill | `backend/cmd/random-selection-backfill`, `backend/internal/randomselect` | `players.is_random_selected` | match CSV rows to games |
| Replay parser | `backend/internal/parser/replay_parser.go` | none | decode, filter and compress build orders |
| DTO builders | `handlers/resource_spend.go`, `unit_production.go`, `tech_tree.go` | none | timelines, counts, tech tree of a game |
| Batch upload | RH 880-960 | goroutines, a channel, slots of one request | parse in parallel, answer in order |
| Schema and generated client | `backend/ent` | all tables | create, update, delete, load edges, transactions, raw statements |
| Server start | `backend/cmd/server`, `backend/internal/database` | connection pool | wiring |
| MCP connector | `mcp/stareplays-mcp/lib` | a cache file per season, shared by the processes of all clients; a line buffer | list and call tools, read a resource, get a prompt |
| Frontends | `frontend/app-next`, `frontend/web` | view state | presentation |

How they interact.  The API, the worker and the jobs share nothing but PostgreSQL
and the bucket.  An upload stores the replay in the bucket and, in the same
database transaction, the game and its queue row; after the commit it sends
`pg_notify`, which a worker takes as a hint and replaces by polling when it is
lost.  The worker claims a row with `FOR UPDATE SKIP LOCKED`, commits, downloads
the replay, runs the analyzer, and reports by the row's id.  Uploads, deletions
and the migration change the games the snapshot jobs aggregate; the API lists the
snapshot tables in separate statements.  There are no callbacks and no shared
memory between the services; inside the API the batch upload uses a pool of
goroutines.

What is hard.  Uploads of one recording by several players arrive at the same
time and meet at unique keys, foreign keys and row locks; a deletion may run
between their statements; a transaction may wait, deadlock, be left open.  A
worker may crash between claim and report, its job may be reset by another
upload while it works, its reply may come after the game was deleted and recorded
again.  Several processes rewrite one snapshot table.  A season is written in two
transactions per game by requests that overlap each other and a backfill.  The
import takes recordings row by row and lists an archive that changes under it.  The
generated client and the statements written by hand beside it must agree on every
column.  None of this has a test in the repository.

What makes each part correct:

* *uploads*: the reliability count equals the contributions on record; nothing
  refers to a deleted game; an acknowledged upload is on record; every request is
  answered; nothing stays locked;
* *queue and worker*: one attempt is executed once; attempts are bounded; a
  result belongs to the request it answers; a finished row stays finished; every
  job is taken and comes to an end although notifications are lost;
* *snapshots*: a table shows one complete build, never an older one after a newer
  one, and catches up with the games; readers see builds in order;
* *season settings*: the label, the number and the players' flag of a game belong
  to one another;
* *batch upload*: every file has one entry in the answer, in the order of the
  request, and the request ends;
* *charts*: the four passes do what a reference definition says, for every sequence
  of commands, and the numbers of a chart add up;
* *statistics*: three ways of counting agree about the same games, short games
  included, and pages partition a list in every order it can have;
* *season import*: the matching leaves no row out that could be matched, and a
  command that reports success has had its effect, whatever failed before;
* *ent client*: what a builder, a mutation, a query and the migration say of one
  column fits together, also for the statements that go around the client;
* *MCP connector*: an answer from the cache is never older than its time to live, up to
  the rounding of ages to seconds.

## 2. Plan

In order of importance; a module composes others only where the code does.

| # | Module | Abstract specification or reference | State |
|---|---|---|---|
| 1 | `AnalysisQueue` (API enqueue + workers) | `AnalysisLifecycle` | checked, proved |
| 2 | `ReplayIngest` (upload and deletion transactions) | `ReplayArchive` | checked, proved |
| 3 | `SnapshotJob` (ranking, analyzer and migration jobs, readers) | `SnapshotRegister` | checked, proved |
| 4 | `SeasonMeta` (default season, seasons of games, stamps of uploads, backfill) | history of agreed writes | checked, proved |
| 5 | `UploadPool` (goroutines of a batch upload) | `UploadLoop` | checked, proved |
| 6 | `BuildOrder`, `ReplayCharts` (build orders, APM, charts) | reference definitions of each pass | checked, proved |
| 7 | `GameStatistics` (outcomes, ranking, match-ups, player records, pages) | the three counts against each other | checked, proved |
| 8 | `SeasonImport` (sheet, matching, listing, requests) | best matching over all choices | checked, proved |
| 9 | `EntTypes`, nine `Ent<Entity>`, `EntStore` (generated client, migration, raw statements) | the migration's constraints | checked, proved |
| 10 | `McpCache` (request loop and cache of the connector) | - | checked, proved |

Left for a further development: the worker's condensation of analyzer output
(`buildCondensedPayloads`, `sampleEvery`), the retries of the bucket's HTTP client,
and a composition of 1 and 2 in which the upload transaction is the enqueue action.

## 3. The modules and the code

### AnalysisQueue, AnalysisLifecycle

`AnalysisQueue` models table `game_analyses` with its writers.  `row[g]` is the
row of a game: id, file hash, analyzer version, status, `attempt_count`,
`requested_at` (a counter, since claims are ordered by it), whether
`next_retry_at` has passed (`due`), and the request its payload belongs to.
`lock` is the row lock of an open claim transaction, `pc` and `job` are the
worker's loop and the values its claim returned, `unsent` and `signal` are
notifications, `view` is what a running `ListSeasons` has read.

| Action | Code |
|---|---|
| `UploadNew`, `UploadAgain`, `ParseLocal` | RH `createNewGame`, `addReplayFileToGame`, `ParseLocalReplay`, each seen at its commit |
| `DeleteGame` | RH `DeleteGame` |
| `SeasonRead`, `SeasonEnqueue`, `SeasonAbort` | RH `ListSeasons`, `ensureSeasonAnalysisRows`, with the gap between read and insert |
| `SendNotify`, `LoseNotify` | RH `notifyReplayAnalysisQueued` after the commit |
| `Deploy` | a new `REPLAY_ANALYZER_VERSION` |
| `ClaimLock`, `ClaimCommit`, `ClaimNothing` | WK `claimNextJob`: select with `SKIP LOCKED`, update, commit |
| `RunSucceeds`, `RunFails`, `MarkFailure` | WK `executeJob`, `markFailure`, both updating by id only |
| `WakeUp`, `Poll`, `Restart` | WK `run` |
| `Crash`, `ClaimFails`, `ClaimReplyLost`, `ResultReplyLost`, `MarkFailureFails` | infrastructure faults, bounded by `MaxFaults`, chosen by `FaultKinds` |

`AnalysisLifecycle` is what readers of the API see of this: a request is queued,
attempted at most `MaxAttempts` times, and ends.

### ReplayIngest, ReplayArchive

`ReplayIngest` models the handlers statement by statement, several requests at a
time, on READ COMMITTED transactions.  The committed tables are `games` (id and
`upload_count`), `files`, `analyses` and `users`; `locks[t]` holds the unique keys
a transaction has inserted and the row locks it has taken, so that `Conflict` and
`Blockers` say which statements wait; `tx` says whether the transaction is open
or aborted; `pc`, `target`, `idx` are control state; `status` is the answer.

| Action | Code |
|---|---|
| `Receive`, `FindUploader`, `AddUploader`, `Lookup` | RH `ParseUploadedReplay`, `getOrCreateUser`, `processParsedReplayResult` |
| `BeginAdd`, `AddFile`, `Store`, `Enqueue`, `Count`, `CommitAdd` | RH `addReplayFileToGame`, `ensureReplayInBucket`, `upsertGameAnalysisQueuedTx` |
| `Create`, `CheckUser`, `AddUser`, `Store`, `Enqueue`, `CommitNew`, `Reread` | RH `createNewGame`, `ensureUsers` |
| `ApplySeason` | RH `applySeasonToGame`: the UPDATE that waits for row locks (season data itself is left to `SeasonMeta`) |
| `Find`, `DeleteFiles`, `DeleteAnalysis`, `DeleteRow`, `CommitDelete` | RH `DeleteGame` |
| `StoreFails`, `ServerStops` | bucket failure with the shadowed `err`, and a stop of the server (`MaxFaults`) |
| `BreakDeadlock` | PostgreSQL aborts one transaction of a cycle |

The row locks, unique-key waits, foreign keys and deadlock detection are external:
they stand for the documented behaviour of PostgreSQL that the handlers rely on.
`ReplayArchive` is what uploading promises without requests and locks: a game has
a set of contributors and a count, changed by one contribution or by removal.

Simplifications: a recording is its `(host, start_time)`, and the lookup by hash,
which leads to the same game and the same path, is not a separate input; `players`
and `game_details` rows move with their `games` row; season data is always given;
the window between the two queries of an eager load is not represented.

### SnapshotJob, SnapshotRegister

`SnapshotJob` models the three jobs that rewrite `ranking_3v3` and
`analyzer_race_matchups`, and the requests that list them.  `source` is the version
of the games (every committed upload, deletion or normalisation makes a new one),
`table[t]` are the committed rows, `lock[s]` the advisory lock of a stage; `at`
and `stage` are a job's position, `read`, `seen`, `deleted`, `inserted` its open
transaction; `listing` and `views` are a request and what its statements returned.
`published` is a history variable: the version behind the last committed build.
`Content` gives the row keys a version yields; it stands for the aggregation
queries, which read one version because each is one statement.  (The ranking
build counts its games in a second statement; only a log line shows that number.)

| Action | Code |
|---|---|
| `Start` | `runOnce`, `runTick` of the daemons, the migration's `main` |
| `TakeLock`, `SkipStage` | `tryTxAdvisoryLock`, `ErrJobAlreadyRunning` and what each `main` does about it |
| `Aggregate` | `compute3v3Rows`, `computeRows` |
| `BeginDelete`, `EndDelete` | `DELETE FROM ...`: its statement snapshot, then its wait for rows others have deleted |
| `Insert`, `KeyExists` | the `INSERT` loop and the unique index; that a key is never there already is part of `BuildsAreAlone` |
| `CommitSnapshot` | commit, release of the lock, next stage |
| `UpdateShortGames`, `CommitUpdates` | `NormalizeShortGames` |
| `Fail` | a failed statement, the 15-minute timeout, SIGTERM or a kill: rollback, end of the run |
| `ChangeGames` | the commits of the other components |
| `CountRows`, `ReadRows`, `EndRequest` | `List3v3Snapshot` (two statements), `ListSnapshot` (three unless the count is 0) |

The waits of `DELETE` and `INSERT` never happen under the lock; they are modelled
because that is the claim (`BuildsAreAlone`), and because without them the effect
of a missing lock would not be seen.  Ranking rows depend on `RANKING_MIN_GAMES`
of the job that builds; the model assumes all services have the same setting.
`SnapshotRegister` is an atomic register per table whose version only grows.

### SeasonMeta

The season of a game is three columns in two tables: `seasonOf[g]` is label and
number on the game, `randomSelected[g]` the flag of each player.  `currentSeason` is
the row of `app_settings`.  `phase[h]` is the statement a request runs next, `asked`
the season it carries, `target` its game.  `agreed`, `inAgreement`, `planned` and
`touched` are history variables for the properties.

| Action | Code |
|---|---|
| `AskCurrentSeason`, `FindSetting`, `StoreSetting` | RH `setCurrentSeason`: look, then update or create; the create of a second first request fails at the unique key |
| `AskUpload`, `ReadOptions`, `CreateGame`, `FindGame`, `ApplySeason` | the season of an upload: from the request or the setting, stamped on a new game with its players, or by `applySeasonToGame` on one that is known |
| `AskGameSeason`, `EditSeason` | RH `SetGameSeason` |
| `WritePlayers` | the second transaction, `is_random_selected` of all players |
| `RefuseFile`, `StatementFails`, `RemoveGame` | refused files, failures at every statement, `DeleteGame` |
| `BackfillRead`, `BackfillWrite` | `cmd/random-selection-backfill -apply`: a query per label, an update per player |

### UploadPool, UploadLoop

`parseUploadedFilesInParallel` (RH 880-930) and the loop of the handler behind it:
`Send` on an unbuffered channel, `ParseFile`, `Return` of each goroutine, `Close`,
`Wait`, `AnswerNext`, `SendAnswer`; `ParseAlone` is the path of one file.
`UploadLoop` processes one file after the other; `UploadPool` implements it.

### BuildOrder, ReplayCharts

`BuildOrder` is the part of the replay parser behind the binary decoder:
`extractBuildOrders`, the four passes of `compressBuildOrders` (drop ineffective
commands, drop bursts, take back what a cancel cancels, join runs of workers) and
`buildAPMTimeline`.  `ReplayCharts` records a game command by command and computes
the charts of `GetGameDetail` from it: `buildUnitProduction` (both modes),
`buildResourceSpend`, `buildTechTree` with their timelines.  The properties compare
the passes with definitions written without loops (`BurstReference`,
`RunsKeepEveryWorker`) and the numbers of a chart with one another.

### GameStatistics

`games` maps recordings to the rows stored for them.  `createNewGame` stores the
outcome `ParseReplayData` determines, `NormalizeShortGames` is the migration's pair of
UPDATEs, `GetPlayerStats` and `AnswerPlayerStats` are the two statements of a player's
record.  The ranking and the race match-ups (two SQL aggregates) are operators over the
rows.  `RankingKeys` and `MatchupKeys` are the orders of the two lists, for every column
in both directions; `Sorted` gives rows that tie the same place, since each page is read by
a query of its own, and `Page` is offset and limit.  How a snapshot is written is the
subject of `SnapshotJob`.

### SeasonImport

The command `cmd/season-import` from its sheet to its report: the dates of the sheet
(`Expected`), candidates of the directory, the matching row by row, `-match-fallback`,
the two ways of listing the archive (hashes in one request, or pages, a count and a
detail request per game, each retried), the decision to upload, to set the season or to
skip, and `RunAgain`.  The archive is a set of games changed by single requests, the
command's own and those of other clients: `OthersUpload` (with the season it names or the
one current on the server, which also moves a known game), `OthersSetSeason`,
`OthersDelete`.  A request may fail after it was served.  `changedRows` is a history
variable: the rows whose game another client has written since they were sent.

### EntTypes, Ent<Entity>, EntStore

Each of the nine `Ent<Entity>` modules states what the generated files of an entity say
about its columns, file by file: the columns of a query, the migration (`NotNull`,
`Unique`, `References`, `DatabaseDefaults`), the create builder (`Settable`,
`CreateDefaults`, `Required`, `NotEmpty`, `Inserted`), the two update builders, what the
mutation reports to hooks, and how edges are stored and loaded.  `EntStore` gives these
definitions their meaning: `Insert`, `Update`, `Delete` and the raw INSERTs on tables of
rows whose columns hold NULL, the zero value or something else, and the transactions the
handlers run: `createGameRows`, `addReplayFileToGame`, `applySeasonToGame`, `SetGameSeason`,
`setCurrentSeason`, `RequestAnalysis`, `BuildSnapshot`, `DeleteGameRows`.  An upload of
a known recording reads file, game and players in separate statements (`Search`, `LoadGame`,
`LoadPlayers`) while others run.  `Outcome` is the database after the statements of a
transaction, one after another.  `wordKept` says whether every statement so far wrote what
its builder reported and was not refused for a column or a child row it forgot.  Locking
between transactions is the subject of `ReplayIngest`; here a transaction is one step.

### McpCache

`connector[c]` is a chunk of input with the lines not served yet and the load under way;
chunks of one process and processes of several clients share `cacheFile`.

| Action | Code |
|---|---|
| `AnswerAtOnce`, `StartLoad` | `handleMcpRequest`, by method and name |
| `ReadCache` | `readCache` and the decision hit or fetch; the age in ticks is rounded to seconds (`RoundedSeconds`) |
| `FetchJson` | `fetchJson` |
| `OpenCache`, `WriteCache` | `writeCache`: the file is emptied, then written, with the time of the call |
| `LoadFails` | a failed call or a failed write: the old record if there was one, otherwise an error |
| `ConnectorStops`, `Tick` | the end of the process, time (1000 ticks to a second in the code) |

### MCComponents

The components 4 to 10 share no state in these models (the database behind them is
modelled at the grain each needs), so one instance runs them side by side: `working` says
which of them works in a behaviour, the others rest in their initial state.  Each
component's own variables and actions are unchanged, so that a state of the run is a state
of one component.

## 4. The runs

| Run | Instance | Shows |
|---|---|---|
| `queue_safety` | 2 games, 2 workers, 2 analyzer versions, 2 enqueues, 1 fault of any kind | types, `AttemptUnique`, `OrphanNeedsFault` |
| `queue_one_version` | the same with 1 version and 2 faults (all but a lost success reply) | `SoleRunner`, `AttemptsBounded`, `ResultOfRequest`, refinement of `AnalysisLifecycle` |
| `queue_liveness` | 2 games, 1 worker, 1 fault | `QueuedIsServed`: lost notifications and a crash of the only worker do not keep a row in the queue; `JobsSettleUnlessFault`: without a fault every job ends |
| `queue_stale_report` | as above | finding: a stale report requeues a finished row |
| `queue_orphan` | 1 crash | finding: a crashed attempt leaves `running` behind |
| `ingest_one_game` | 4 requests on one recording: two players, a stranger, local parse, deletion; 1 fault | counts, stray rows, acknowledgements, leaks, refinement of `ReplayArchive` |
| `ingest_two_games` | 3 requests, 2 recordings naming the same players in opposite orders | `PlayersAreUsers`, and `EveryRequestAnswered` in spite of deadlocks |
| `ingest_same_user`, `ingest_leak` | 2 uploads of one recording | findings |
| `snapshot_jobs` | both daemons and the migration job, 3 versions of the games, 1 request, 1 failure | whole snapshots, readers in order, catching up, refinement of `SnapshotRegister` |
| `season_known_replay` | season writes as below, with one handler | finding: an upload of a known recording that names no season moves its game to the current one |
| `components` | see the next table | the properties of the components 4 to 10 |

The instances of `components`, about 1,320,000 states in all:

| Component | Instance | Properties |
|---|---|---|
| season writes | 2 game ids of 2 players, one game from before seasons, 3 labels (random selection, CSV file, no digits), 2 handlers, 3 requests, 1 fault | `SelectionFollowsNumber`, `NumberFitsLabel`, `BackfillTakesEffect`, types |
| batch upload | up to 4 files, 3 goroutines | `AnswerAddsUp`, `ImplementsLoop`, `UploadAnswered`, types |
| charts | up to 4 commands of 2 players out of 6, gaps of 8, 48 and 64 frames (below, at and above the limits of bursts and cancels) | `PassesMatchReference`, `ChartsAddUp`, `EffectiveNeverAboveCommands` |
| statistics | up to 3 games of 7 kinds: decided, mirrored with other spellings, undecided, 120 and 121 seconds, with an observer, uneven teams; lists restricted to every number of games and every team size, pages of up to 7 rows | `OutcomesAgree`, `StatisticsAgree`, `PagesPartition` |
| import | every sheet of 3 rows over 4 dates, one with a change of season, one that is executed, 5 recordings, 5 failures, 2 runs, 1 request by others: a deletion, a season, or an upload with or without one | `MostRowsMatched`, `ImportTakesEffect` |
| ent store | the nine entities as generated, 6 recordings (blank names, shared slots, optional data), 4 requests | `ClientKeepsItsWord` |
| connector | 2 chunks of up to 2 lines, 2 cache files, a time to live of 1 second, 3 ticks to a second and 5 ticks | `McpAnswersAreFresh` |

Why the bounds are enough.  The queue's hazards need two workers on one row, a
requeue while one of them works, and one deletion with a second recording: two
workers, two games, `MaxRequests = 2` (first enqueue, then reset or re-creation)
and `MaxAttempts = 2` (a retry and a last attempt) reach all of them.  The races
of uploads need two contributors, a request that must be refused, and a deletion
of the same game, hence four requests; the deadlocks need two recordings with the
same names in opposite orders.  The snapshot rows of the three versions have
different keys ({a}, {a,b}, {b}; {} and {a}), so that mixing, leftovers and a
backward step are visible, and the empty table makes `ListSnapshot` skip its sum.
Season writes need two overlapping requests on one game and a third after them, or the
backfill beside two; a number is written in two steps, so one fault separates them.  Four
files on three goroutines make one goroutine take a second file, and 0 to 3 are its
boundaries.  Four commands allow a run of workers, a cancel that takes back its last
member, and a second cancel.  Three games suffice for ties in a ranking and for one game of
each side of the two-minute rule; the three rows of a sheet for every overlap of their
dates.  The failures of an import exceed the tries of one request by one.  Four requests on
the tables are a first upload, a second file, a change between the reads of an upload, and a
deletion.  With three ticks to a second an age of 4 ticks is above the time to live of one
second and still rounds to it, and 5 ticks is the first that does not; with two ticks the
rounding would make no difference.  The ranking has the six names of a game, so pages of
one to seven rows include full and partial last pages and a page longer than the list.

Symmetry is declared for interchangeable workers and for requests, in safety runs
only.  Deadlock is checked in the queue and snapshot runs; in the others requests are
bounded and the system may rest.

## 5. Fairness

* *workers*: weak fairness of the loop (each analyzer run is bounded by its
  execution timeout, each wait by the poll interval) and of `Restart` (the
  platform restarts the service); of time passing for `next_retry_at`.  None of
  notifications, of clients or of deployments;
* *requests*: weak fairness of a statement that need not wait, and of
  `BreakDeadlock` (`deadlock_timeout`).  None of the client, none against faults;
* *jobs*: weak fairness of a run in progress (its statements return or fail), and
  of `Start` for daemons only, because of their ticker.  The migration job may
  never run, and readers may stop anywhere.

* *batch upload*: weak fairness of the handler and of each goroutine: the parser returns for
  every file, and the Go scheduler runs what can run.

The season writes, the import, the ent store and the connector are checked for safety only,
without fairness.

Weak fairness suffices everywhere: a step that is disabled by another transaction
becomes enabled again because that transaction's own steps are fair, and the retry
loops (poll, ticker) come back by themselves.

## 6. The proofs

Every theorem holds for all values of the constants, under the named assumptions
of the modules (`QueueAssumption`, `NullAssumption`, `IngestAssumption`,
`SnapshotAssumption`, `SeasonAssumption`, `PoolAssumption`, `LimitsAssumption`,
`McpAssumption`, `CommandsAssumption`, `PriceAssumption`, `OthersAssumption`,
`ListLimitAssumption`: types of the constants, null values outside their types), which the
runs evaluate.  Some say more than types: `RecordingsAssumption`, `WinnersAssumption` and
`NamesAssumption` (players and teams are numbered as the parser numbers them, a winning team
has a player, names are ordered without ties), `SheetsAssumption` (a cell with a date names
a day in every year), `AutosavesAssumption` (a hash names one recording of one game),
`StoredAssumption` (the archive holds recordings of its games, numbered without gaps) and
`StoreAssumption` (the details of a recording are columns of `game_details`, and the name of
an uploader is not blank, since `processParsedReplayResult` answers a blank one with 400).

*AnalysisQueueProofs.*  `TypeCorrect` carries `ClaimInv`: a claim in progress
finds the row it has locked, still queued; `QueueInvariant` states all of `IndInv`.  `AttemptsAreUnique` and
`OrphansNeedFaults` follow from `IndInv`.  The important part is `JobsBehindRow`:
a job in execution belongs to the row's current request or an older one and its
attempt number is not newer than the row's; so two jobs of one request and one
attempt would both have been the last claim.  `OrphanNeedsFault` is inductive only
together with it: a late report may requeue a row, but it never leaves it running.

The second part of that module is the refinement.  Under `OneVersion` (a single analyzer version, so an
upload never resets a row) `OneInv` says that an active worker's job is the row's
current attempt: `OneRunner`, `AttemptsStayBounded`, `ResultsMatchRequests`.  With
`RepliesArrive` (the reply to a committed success update is not lost) the table
implements `AnalysisLifecycle` (`QueueImplementsLifecycle`) and finished rows stay
(`FinishedStaysFinished`).  Both hypotheses are needed: section 7, first finding,
is the counterexample without the first, and a lost success reply makes the worker
report a failure for a row it has already finished.

*ReplayIngestProofs.*  `IngestInv` is inductive with `TypeOK`: locks of different
requests never conflict (`LocksExclusive`), ids are fresh (`IdsFresh`), and each
request is protected by what it holds: an uploader past its insert by the
foreign-key lock on the game and the key of its file (`AdderProtected`), a creator
by the key of the game (`CreatorProtected`), a deletion by the row lock of the
game (`DeleterProtected`).  For each action the proof shows what the stepping
request has afterwards, and by frame lemmas that the others lose nothing.  Counts,
players and the refinement of `ReplayArchive` follow from what a commit may change
(`GameStep`: a game is kept, extended by one new contribution, added or removed).

*SnapshotProofs.*  `BuildInv` says who holds an advisory lock (`LocksHeld`), that a
build's aggregation is not older than the published one and its DELETE covers the
whole table (`KnowsTheTable`), that tables are whole, and what requests have seen
(`ViewsAreBuilds`).  Two jobs in one stage would hold one lock (`Exclusive`), so a
commit disturbs no other build.

*ComponentProofs.*  The seasons: `SeasonInv` is inductive with the types: the season every
request carries fits its label, and so does the stored one (`SeasonsFit`, hence
`NumbersFitLabels`); player updates that are pending for an agreed game write the flag of the
same number (`PendingAgree`), hence `SelectionsFollowNumbers`; the updates the backfill has
still to send, with the flags it has written or found, make the planned selection (`PlanKnown`),
hence `BackfillsTakeEffect`.  There is one lemma per group of actions.

The pool: `PoolInv` says where each index is: not sent, with exactly one goroutine,
or in its slot, parsed once.  With it `SlotsAreFilled`; the answer follows, and every step
maps to a step of `UploadLoop` or a stutter (`PoolImplementsLoop`).
Side by side: `ComponentsBehave` says that a behaviour of `MCComponents`, the specification the
run `components` explores, is one of each component's own specification (with the fairness of
the pool), so the theorems about a component hold of that run's behaviours; with the types
of the parts, `ComponentsKeepTheirTypes`.

*StoreProofs.*  `ClientAlwaysKeepsItsWord` holds for the schema the generated code has.  Column
by column, the files generated for each entity agree (`SchemaAgrees`), which gives
`FilesAlwaysAgree` and what the rest needs: every column the migration demands is written by
the create builder or has a default, and update builders leave references and keys alone.
`Fine` says of a database that its rows are typed, whole and as reported; `CreateKeeps`,
`UpdateKeeps`, `InsertRawKeeps`, `QueueKeeps`, `RequestKeeps` and `DeleteKeeps` show that each
statement leaves it so, and `OutcomeKeeps` any list of them (`Harmless`), also one that fails in
the middle.  `StoreInv` is inductive: the tables are fine; the transaction to run next is
harmless, quiet (it leaves the games and their players alone) while an upload is under way, or
erases a game; and the upload has read what it acts on (`UnderWay`).  Erasing is the exception
that needs its own argument: the rows of a game may go only because the deletions before it
are of every table that refers to games (`CascadeIsErasing`, `ReferencesToGames`,
`ErasingKeeps`), which is where a table missing from `DeleteGame` would show.  An upload sees
one game since a quiet transaction keeps its players and an erased game takes them along
(`SeesOn`, `SeesErased`).

*StatisticsProofs.*  `OutcomesAlwaysAgree` needs that a recording can have two rows only,
its outcome or a draw (`RowsAreOutcomes`), and that drawing a game twice changes nothing.
With it and `GamesAreFinite`, `StatisticsAlwaysAgree`: a sum of counts over keys is the
number of rows, because the keys cut the rows in disjoint parts (`IsCut`, `Pieces`), and the
rows are six of every qualified game, three of them won; the match-ups and a player's record
cut the same rows in other ways.  `PagesAlwaysPartition` is for every column and direction,
every restriction and every page size.  A list of keys orders rows lexicographically:
if each column is ordered up to equal values (`IsColumn`, `PairsBy`) and the last key, the
name or the match-up, tells any two rows apart, the result is a strict order
(`KeysOrder`, `RankingKeysDecide`, `MatchupKeysDecide`).  Then a row's place, the number of rows
before it, is its own and follows the order (`PlacesArePositions`), and the places of a page are
an interval of the numbers of rows (`PagesOfOneSize`).

*ChartsProofs.*  The one invariant is `RecordingInv`: commands are recorded in the order of
their frames.  Everything else is about what the passes make of any such sequence.  A fold is
replaced by its run, the results after 0, 1, ... elements (`FoldRun`), and a fact about a run
is shown by its first counterexample (`UpTo`).  A pass that drops elements is described by the
indexes it keeps (`Picks`, `IsPart`); two such descriptions of the same indexes give the same
sequence.
`ChartsAlwaysAddUp`: the sums of each chart stay equal event by event (`UnitsAddUp`,
`SpendAddsUp`, `TechAddsUp`).
`EffectiveAlwaysBelowCommands`: a unit's count is a weight of the sequence, which neither
dropping elements nor joining workers raises (`JoinsUp`).
`PassesAlwaysMatchReference`: the events burst removal keeps are the only set that fits
`BurstReference`, the events cancels take are the only matching that fits
`CancelsMatchReference` (both by the first event where two would differ), and joining keeps
every worker because each joined run lists commands that burst removal left more than a window
apart (`Spaced`).  The module extends `StatisticsProofs` for its lemmas on finite sets only.

*ClientProofs.*  The two clients of the API that act on what they have read before.
`McpInv`: a load under way was called before the API answered it
(`LoadsInOrder`), and every record on disk is stamped with a time not after its payload
(`StampsAreEarly`), whichever connector wrote it.  So an age computed from the stamp is never
less than the age of the data.  Rounding to seconds accepts records that are up to half a
second older than the time to live, for any number of ticks to a second
(`QuotientBounds`, `YoungEnough`), hence `AnswersAreFresh` with that half second.

`ImportInv` is the invariant of the season import: the order of its steps
(`InOrderOfSteps`), ids and files of the archive (`IdsFresh`, `ArchiveFits`), what was found
is there (`ExistingFits`), and, for the listing, every hash that was known at its start is
found already or belongs to a game still to be read (`ListingReads`): a game's place in the
list only moves back while nothing is deleted (`RankGrows`), so pages never skip one.  A
row that was sent and took effect stays so until another client writes its game
(`changedRows`): requests for other rows touch other games (`OnlyGame`).  Hence
`ImportAlwaysTakesEffect`.

`MostRowsAlwaysMatched` says that the greedy matching is a best one, by exchange.  While rows
are matched nothing is wasted (`MatchInv`, `NothingWasted`): any choice of recordings for
rows can be turned into one with as many rows that agrees with the rows matched so far.
`RowTakesEarliest` is the step: where the choice has another recording for the row, or the
row's recording for a later row, the two are exchanged.  That the later row can take the
other recording is `RowsInOrder`, the one place that needs the sheet in the order of its dates:
the bounds of undated rows are those of their dated neighbours (`BoundsOfRow`), so bounds
only move forward from row to row.

Facts about sequences and finite sets of any size are proved without the induction theorems
of the library, from a least counterexample (`LeastNumber`, `SmallestSet`, `UpTo`).

Only model-checked: the liveness properties (`QueuedIsServed`, `JobsSettleUnlessFault`,
`EveryRequestAnswered`, `SnapshotsCatchUp`, `UploadAnswered`), since the prover has no rule
for liveness under fairness or for ENABLED.

## 7. Findings

Each is shown by a run that checks one property and finds it violated.

1. `queue_stale_report` / `RequeueRule`: reports address a row by id only, so a
   worker that still executes an attempt from before a requeue overwrites the
   newer state, a finished one included; `docs/spec.md:75-76` allows a requeue for
   another analyzer version only.
2. `queue_orphan` / `JobsSettle`: only queued rows are claimed, so a worker that
   dies between claim and report leaves its row in `running` for ever;
   `docs/architecture.md:143,148` describes a durable queue whose worker flow ends
   with succeeded or failed.
3. `ingest_same_user` / `SameUserRejected`: a second upload by the same user is
   answered with 200; `docs/architecture.md:130` says 409.
4. `ingest_leak` / `TransactionsEnd`: that request returns while its transaction is
   open (the deferred rollback looks at an `err` that is nil), which keeps a
   connection of the pool; the bucket failure and the enqueue failure do the same
   through a shadowed `err`.
5. `season_known_replay` / `KnownReplayOnlyCounts`: uploading a recording the archive has
   already stamps a season on its game (RH 421, 467), and one that names none takes the
   season current on the server (RH 730-735).  In the run a game was put in another season by
   hand and is moved to the current one by such an upload; `README.md:298` says that it
   changes `upload_count` only.

## 8. What is not modelled

* Upload and game API: search and filter parameters, the layout of answers.  The row of the
  uploader that is created before an upload is refused (RH 368) is kept in the state of
  `ReplayIngest`; the code promises nothing about it.
* Worker: the contents of analyzer results and their condensation
  (`buildCondensedPayloads`, `sampleEvery`).
* Snapshot jobs: rates and their rounding; filters by name.  The row locks of the
  migration's UPDATEs against uploads and deletions (they wait for each other and change
  disjoint columns).
* Bucket: its HTTP protocol and retries.
* Parser: the binary decoder (a library), header fields and chat messages.  Prices and
  keyword lists of the charts are parameters.
* Season import and backfill: time zones, spelling variants, the syntax of CSV cells.
* Ent client: bulk builders, grouping, hooks and `OnConflict`, which the program does not
  use; column sizes and indexes that do not constrain.
* MCP connector: the text of lists, prompts and update notices, the installer.  The limit of
  a call does not cover the body of its answer (`fetchJson` returns it without waiting for
  it); a body that never ends is a load that stays in `FetchJson`.  Answers of different
  chunks may leave in any order; JSON-RPC tells them apart by id.
* Start-up wiring and the two frontends: they keep no protocol state of their own.
