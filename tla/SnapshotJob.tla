------------------------------ MODULE SnapshotJob ------------------------------
(***************************************************************************)
(* The precomputed tables ranking_3v3 and analyzer_race_matchups: the      *)
(* ranking, analyzer and migration jobs rewrite them, each build in one    *)
(* READ COMMITTED transaction under a transaction-level advisory lock that *)
(* is tried, never waited for; the API reads them in separate statements.  *)
(*                                                                         *)
(* What a build aggregates is abstracted to Content: the keys of the rows  *)
(* that a version of games and players yields.  A row carries the version  *)
(* it was computed from.                                                   *)
(***************************************************************************)
EXTENDS Naturals, Sequences

CONSTANTS
  Jobs,         \* job processes
  Plan,         \* [Jobs -> Seq(Stages)], the stages of one run of a job
  Daemons,      \* jobs in daemon mode: their ticker starts run after run
  Readers,      \* API requests that list a table
  Keys,         \* row keys: a ranked name, a match-up
  Content,      \* [Tables -> [0 .. MaxVersion -> SUBSET Keys]]
  Free,         \* "advisory lock not held"
  NoTable,      \* "not listing"
  MaxVersion,   \* bound: changes to games and players
  MaxFaults     \* bound: failed statements, timeouts, killed jobs

Tables == {"ranking_3v3", "analyzer_race_matchups"}
Stages == Tables \cup {"games"}

ASSUME SnapshotAssumption ==
  /\ Plan \in [Jobs -> Seq(Stages)]
  /\ \A j \in Jobs : Plan[j] # <<>>
  /\ Daemons \subseteq Jobs
  /\ Free \notin Jobs
  /\ NoTable \notin Tables
  /\ Content \in [Tables -> [0 .. MaxVersion -> SUBSET Keys]]
  /\ MaxVersion \in Nat
  /\ MaxFaults \in Nat

VARIABLES
  source,       \* version of the committed games and players
  table,        \* [Tables -> set of committed rows]
  published,    \* history: version behind the last committed build of a table
  lock,         \* [Stages -> Jobs \cup {Free}], one advisory lock id per stage
  at, stage,    \* control state of a job: its phase, and its place in the plan
  read,         \* version a build aggregated
  seen,         \* rows in the statement snapshot of the build's DELETE
  deleted,      \* rows the open transaction has deleted
  inserted,     \* rows it has inserted
  listing,      \* [Readers -> Tables \cup {NoTable}]
  views,        \* what the statements of a reader's request have returned
  faults

jobVars == <<at, stage, read, seen, deleted, inserted>>
readVars == <<listing, views>>
vars == <<source, table, published, lock, at, stage, read, seen, deleted, inserted,
          listing, views, faults>>

Row == [key: Keys, of: Nat]
RowsOf(t, v) == {[key |-> k, of |-> v] : k \in Content[t][v]}

Phases == {"idle", "begun", "locked", "computed", "deleting", "inserting", "updated"}
Target(j) == Plan[j][stage[j]]

\* The phases of an open transaction that holds its advisory lock.
Locked(j) == at[j] \notin {"idle", "begun"}

Init ==
  /\ source = 0
  /\ table = [t \in Tables |-> RowsOf(t, 0)]
  /\ published = [t \in Tables |-> 0]
  /\ lock = [s \in Stages |-> Free]
  /\ at = [j \in Jobs |-> "idle"]
  /\ stage = [j \in Jobs |-> 1]
  /\ read = [j \in Jobs |-> 0]
  /\ seen = [j \in Jobs |-> {}]
  /\ deleted = [j \in Jobs |-> {}]
  /\ inserted = [j \in Jobs |-> {}]
  /\ listing = [r \in Readers |-> NoTable]
  /\ views = [r \in Readers |-> <<>>]
  /\ faults = 0

-----------------------------------------------------------------------------
(* The end of a transaction. *)

\* Mutant: the lock of the session, which no rollback releases.
ReleaseNever(j) == lock

\* A transaction-level advisory lock is released with the transaction.
Release(j) == [s \in Stages |-> IF lock[s] = j THEN Free ELSE lock[s]]

\* Nothing of job j's transaction is left.
Cleared(j) ==
  /\ seen' = [seen EXCEPT ![j] = {}]
  /\ deleted' = [deleted EXCEPT ![j] = {}]
  /\ inserted' = [inserted EXCEPT ![j] = {}]
  /\ read' = [read EXCEPT ![j] = 0]

\* Mutant: one stage too many.
ProceedTooFar(j) ==
  IF stage[j] <= Len(Plan[j])
  THEN at' = [at EXCEPT ![j] = "begun"] /\ stage' = [stage EXCEPT ![j] = @ + 1]
  ELSE at' = [at EXCEPT ![j] = "idle"] /\ stage' = [stage EXCEPT ![j] = 1]

\* The job goes on to the next stage of its plan; after the last its run ends.
Proceed(j) ==
  IF stage[j] < Len(Plan[j])
  THEN at' = [at EXCEPT ![j] = "begun"] /\ stage' = [stage EXCEPT ![j] = @ + 1]
  ELSE at' = [at EXCEPT ![j] = "idle"] /\ stage' = [stage EXCEPT ![j] = 1]

\* The run ends here: log.Fatalf, or the return from runTick.
EndRun(j) ==
  /\ at' = [at EXCEPT ![j] = "idle"]
  /\ stage' = [stage EXCEPT ![j] = 1]

Rollback(j) ==
  /\ lock' = Release(j)
  /\ Cleared(j)
  /\ UNCHANGED <<source, table, published>>

-----------------------------------------------------------------------------
(* A run of a job. *)

Start(j) ==
  /\ at[j] = "idle"
  /\ at' = [at EXCEPT ![j] = "begun"]
  /\ UNCHANGED <<source, table, published, lock, stage, read, seen, deleted, inserted,
                 listing, views, faults>>

\* Mutant: no advisory lock.
LockFreeAlways(j) == TRUE

\* pg_try_advisory_xact_lock answers true.
LockFree(j) == lock[Target(j)] = Free

TakeLock(j) ==
  /\ at[j] = "begun"
  /\ LockFree(j)
  /\ lock' = [lock EXCEPT ![Target(j)] = j]
  /\ at' = [at EXCEPT ![j] = "locked"]
  /\ UNCHANGED <<source, table, published, stage, read, seen, deleted, inserted,
                 listing, views, faults>>

\* ErrJobAlreadyRunning: the migration job returns when it cannot normalise, and
\* goes on when another job is building a snapshot; the others end their run.
SkipStage(j) ==
  /\ at[j] = "begun"
  /\ ~LockFree(j)
  /\ IF Target(j) = "games" THEN EndRun(j) ELSE Proceed(j)
  /\ Rollback(j)
  /\ UNCHANGED <<listing, views, faults>>

\* The version the aggregate query sees: it runs after the lock was taken, with
\* a statement snapshot of its own.
Visible == source

Aggregate(j) ==
  /\ at[j] = "locked"
  /\ Target(j) \in Tables
  /\ read' = [read EXCEPT ![j] = Visible]
  /\ at' = [at EXCEPT ![j] = "computed"]
  /\ UNCHANGED <<source, table, published, lock, stage, seen, deleted, inserted,
                 listing, views, faults>>

\* DELETE takes its snapshot, then waits for the rows other transactions have
\* deleted; rows committed after the snapshot are not deleted.
BeginDelete(j) ==
  /\ at[j] = "computed"
  /\ seen' = [seen EXCEPT ![j] = table[Target(j)]]
  /\ at' = [at EXCEPT ![j] = "deleting"]
  /\ UNCHANGED <<source, table, published, lock, stage, read, deleted, inserted,
                 listing, views, faults>>

\* Other jobs with an open transaction on the same table.
Rivals(j) == {i \in Jobs \ {j} : at[i] \in {"deleting", "inserting"} /\ Target(i) = Target(j)}

DeleteWaits(j) == \E i \in Rivals(j) : deleted[i] \cap seen[j] # {}

EndDelete(j) ==
  /\ at[j] = "deleting"
  /\ ~DeleteWaits(j)
  /\ deleted' = [deleted EXCEPT ![j] = seen[j] \cap table[Target(j)]]
  /\ at' = [at EXCEPT ![j] = "inserting"]
  /\ UNCHANGED <<source, table, published, lock, stage, read, seen, inserted,
                 listing, views, faults>>

Survivors(j) == table[Target(j)] \ deleted[j]
HasKey(rows, k) == \E x \in rows : x.key = k

\* An INSERT waits for the other transactions that insert or delete its key.
InsertWaits(j, k) ==
  \E i \in Rivals(j) : HasKey(inserted[i], k) \/ HasKey(deleted[i] \ deleted[j], k)

\* The unique index: an INSERT of such a key is a failed statement (Fail).
KeyExists(j, k) == HasKey(Survivors(j), k)

Insert(j) ==
  /\ at[j] = "inserting"
  /\ \E x \in RowsOf(Target(j), read[j]) \ inserted[j] :
        /\ ~InsertWaits(j, x.key)
        /\ ~KeyExists(j, x.key)
        /\ inserted' = [inserted EXCEPT ![j] = @ \cup {x}]
  /\ UNCHANGED <<source, table, published, lock, at, stage, read, seen, deleted,
                 listing, views, faults>>

\* Mutant: a commit inside the loop over the rows.
AllInsertedNot(j) == inserted[j] \subseteq RowsOf(Target(j), read[j])

\* Every computed row is inserted before the commit.
AllInserted(j) == inserted[j] = RowsOf(Target(j), read[j])

CommitSnapshot(j) ==
  /\ at[j] = "inserting"
  /\ AllInserted(j)
  /\ table' = [table EXCEPT ![Target(j)] = Survivors(j) \cup inserted[j]]
  /\ published' = [published EXCEPT ![Target(j)] = read[j]]
  /\ lock' = Release(j)
  /\ Cleared(j)
  /\ Proceed(j)
  /\ UNCHANGED <<source, listing, views, faults>>

\* NormalizeShortGames: the UPDATEs of games and players; nobody sees them
\* before the commit.
UpdateShortGames(j) ==
  /\ at[j] = "locked"
  /\ Target(j) = "games"
  /\ at' = [at EXCEPT ![j] = "updated"]
  /\ UNCHANGED <<source, table, published, lock, stage, read, seen, deleted, inserted,
                 listing, views, faults>>

\* Without short games left to normalise the commit changes nothing; without
\* MIGRATION_REFRESH_SNAPSHOTS the plan of the job ends here.
CommitUpdates(j) ==
  /\ at[j] = "updated"
  /\ source' \in {source} \cup {v \in {source + 1} : v <= MaxVersion}
  /\ lock' = Release(j)
  /\ Cleared(j)
  /\ Proceed(j)
  /\ UNCHANGED <<table, published, listing, views, faults>>

\* A failed statement or commit, the timeout of the run, SIGTERM or a kill: the
\* transaction is rolled back and the run ends.  (A commit whose reply is lost also
\* ends the run: it is a commit followed by Fail, or by the end of the plan.)
Fail(j) ==
  /\ at[j] # "idle"
  /\ faults < MaxFaults
  /\ faults' = faults + 1
  /\ EndRun(j)
  /\ Rollback(j)
  /\ UNCHANGED <<listing, views>>

-----------------------------------------------------------------------------
(* The rest of the system: uploads and deletions change the games, requests *)
(* list a table.                                                            *)

ChangeGames ==
  /\ source < MaxVersion
  /\ source' = source + 1
  /\ UNCHANGED <<table, published, lock, at, stage, read, seen, deleted, inserted,
                 listing, views, faults>>

\* Mutant: a row is visible as soon as it is inserted.
CommittedDirty(t) ==
  table[t] \cup UNION {inserted[j] : j \in {i \in Jobs : at[i] = "inserting" /\ Target(i) = t}}

\* The rows a statement sees.
Committed(t) == table[t]

\* The first statement of a request counts the rows.
CountRows(r) ==
  /\ listing[r] = NoTable
  /\ \E t \in Tables :
        /\ listing' = [listing EXCEPT ![r] = t]
        /\ views' = [views EXCEPT ![r] = <<Committed(t)>>]
  /\ UNCHANGED <<source, table, published, lock, at, stage, read, seen, deleted,
                 inserted, faults>>

\* Then it fetches a page; the match-up table is read once more, for the sum of
\* its games, unless the count was 0.
Statements(r) ==
  IF listing[r] = "analyzer_race_matchups" /\ views[r][1] # {} THEN 3 ELSE 2

ReadRows(r) ==
  /\ listing[r] # NoTable
  /\ Len(views[r]) < Statements(r)
  /\ views' = [views EXCEPT ![r] = Append(@, Committed(listing[r]))]
  /\ UNCHANGED <<source, table, published, lock, at, stage, read, seen, deleted,
                 inserted, listing, faults>>

\* The answer is sent, or a statement failed.
EndRequest(r) ==
  /\ listing[r] # NoTable
  /\ listing' = [listing EXCEPT ![r] = NoTable]
  /\ views' = [views EXCEPT ![r] = <<>>]
  /\ UNCHANGED <<source, table, published, lock, at, stage, read, seen, deleted,
                 inserted, faults>>

JobStep(j) ==
  \/ TakeLock(j) \/ SkipStage(j) \/ Aggregate(j) \/ BeginDelete(j) \/ EndDelete(j)
  \/ Insert(j) \/ CommitSnapshot(j)
  \/ UpdateShortGames(j) \/ CommitUpdates(j)

Next ==
  \/ \E j \in Jobs : Start(j) \/ JobStep(j) \/ Fail(j)
  \/ ChangeGames
  \/ \E r \in Readers : CountRows(r) \/ ReadRows(r) \/ EndRequest(r)

Spec == Init /\ [][Next]_vars

\* A run in progress goes on (its statements return or fail); a ticker starts the
\* runs of a daemon.  Nothing is assumed of other jobs or of readers.
FairSpec ==
  /\ Spec
  /\ \A j \in Jobs : WF_vars(JobStep(j))
  /\ \A j \in Daemons : WF_vars(Start(j))

-----------------------------------------------------------------------------
(* Properties. *)

TypeOK ==
  /\ source \in 0 .. MaxVersion
  /\ table \in [Tables -> SUBSET Row]
  /\ published \in [Tables -> Nat]
  /\ lock \in [Stages -> Jobs \cup {Free}]
  /\ at \in [Jobs -> Phases]
  /\ stage \in [Jobs -> Nat \ {0}]
  /\ \A j \in Jobs : stage[j] <= Len(Plan[j])
  /\ read \in [Jobs -> Nat]
  /\ seen \in [Jobs -> SUBSET Row]
  /\ deleted \in [Jobs -> SUBSET Row]
  /\ inserted \in [Jobs -> SUBSET Row]
  /\ listing \in [Readers -> Tables \cup {NoTable}]
  /\ views \in [Readers -> Seq(SUBSET Row)]
  /\ faults \in 0 .. MaxFaults

\* A snapshot is always the complete result of the build that committed last:
\* the DELETE and INSERTs of several jobs never mix, and no row of an older
\* build stays behind ("rewrites the whole table").
WholeSnapshots == \A t \in Tables : table[t] = RowsOf(t, published[t])

\* The DELETE without WHERE clause and the plain INSERTs rely on the advisory
\* lock: no build waits for a row of another, or meets its own keys in the table.
BuildsAreAlone ==
  \A j \in Jobs :
     /\ at[j] = "deleting" => ~DeleteWaits(j)
     /\ at[j] = "inserting" =>
          \A x \in RowsOf(Target(j), read[j]) :
             ~InsertWaits(j, x.key) /\ ~KeyExists(j, x.key)

\* A slow build never replaces the result of one that read newer games, although
\* three kinds of job rewrite the same tables: the lock is taken before the
\* aggregation and kept until the commit.
SnapshotsMoveForward ==
  [][\A t \in Tables : published[t] <= published'[t]]_vars

\* The statements of one request (count, page, sum) may see different builds, but
\* each sees a whole one, and a later statement never an older one.
ReadersMoveForward ==
  \A r \in Readers : \A i, k \in DOMAIN views[r] : i <= k =>
     \E v \in 0 .. source : \E w \in v .. source :
        /\ views[r][i] = RowsOf(listing[r], v)
        /\ views[r][k] = RowsOf(listing[r], w)

\* Who holds an advisory lock: the job with an open transaction in a stage that
\* needs it, and nobody else; released with the transaction on every path.
LocksHeld ==
  /\ \A j \in Jobs : Locked(j) => lock[Target(j)] = j
  /\ \A s \in Stages : \A j \in Jobs : lock[s] = j => Locked(j) /\ Target(j) = s

\* What a build may rely on in each of its phases: its aggregation is not older
\* than the published one, its DELETE covers the whole table.
KnowsTheTable(j) ==
  /\ at[j] \in {"computed", "deleting", "inserting"} =>
       Target(j) \in Tables /\ read[j] \in published[Target(j)] .. source
  /\ at[j] = "deleting" => seen[j] = table[Target(j)]
  /\ at[j] = "inserting" =>
       deleted[j] = table[Target(j)] /\ inserted[j] \subseteq RowsOf(Target(j), read[j])
  /\ at[j] # "inserting" => deleted[j] = {} /\ inserted[j] = {}

\* What a request has seen: builds in their order, none later than the published.
ViewsAreBuilds ==
  \A r \in Readers : \A k \in DOMAIN views[r] :
     /\ listing[r] \in Tables
     /\ \A i \in 1 .. k : \E w \in 0 .. published[listing[r]] : \E v \in 0 .. w :
          /\ views[r][i] = RowsOf(listing[r], v)
          /\ views[r][k] = RowsOf(listing[r], w)

\* The inductive invariant: the lock protocol, what it gives the builds, and what
\* the readers have seen of them.
BuildInv ==
  /\ \A t \in Tables : published[t] <= source
  /\ LocksHeld
  /\ \A j \in Jobs : KnowsTheTable(j)
  /\ WholeSnapshots
  /\ ViewsAreBuilds

\* Once the games no longer change, the daemons' tables come to show them and
\* keep showing them: a tick that was skipped, because another job that had read
\* older games held the lock, is made up for.
DaemonTables == {t \in Tables : \E j \in Daemons : Plan[j] = <<t>>}
SnapshotsCatchUp == \A t \in DaemonTables : <>[](table[t] = RowsOf(t, source))

\* The jobs with their transactions and locks implement SnapshotRegister.
Register ==
  INSTANCE SnapshotRegister WITH version <- source, shown <- published, contents <- table
RefinesRegister == Register!RegisterSpec
=============================================================================
