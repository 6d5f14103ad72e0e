----------------------------- MODULE AnalysisQueue -----------------------------
(***************************************************************************)
(* The replay-analysis queue: the game_analyses table, the HTTP handlers   *)
(* that put rows into it, and the worker processes of                      *)
(* cmd/replay-analyzer-worker that claim the rows, run the analyzer and    *)
(* write the outcome back.                                                 *)
(*                                                                         *)
(* A row is identified by its serial id.  Times are abstracted: the time   *)
(* at which a row was last put in the queue (requested_at) is a counter,   *)
(* because claims are ordered by it; whether next_retry_at has passed is   *)
(* the Boolean "due".  A result payload is represented by the requested_at *)
(* of the request whose attempt produced it, 0 standing for '{}'.          *)
(***************************************************************************)
EXTENDS Naturals, FiniteSets

CONSTANTS
  Games,        \* recorded games, identified by (host, start_time)
  Hashes,       \* replay file hashes; the bucket key is a function of the hash
  NoHash,       \* "no replay file": the game row does not exist
  Versions,     \* values of REPLAY_ANALYZER_VERSION over the deployments
  Workers,      \* worker processes
  NoRow,        \* "no game_analyses row"
  NoJob,        \* "the worker holds no job"
  Free,         \* "no claim transaction holds the row lock"
  MaxAttempts,  \* REPLAY_ANALYZER_WORKER_MAX_ATTEMPTS
  MaxRequests,  \* bound: how often a row is inserted or reset
  MaxFaults,    \* bound: how many infrastructure faults happen
  FaultKinds    \* which faults happen

AllFaults == {"crash", "claim", "claimReply", "resultReply", "mark"}

ASSUME QueueAssumption ==
  /\ MaxAttempts \in Nat \ {0}
  /\ MaxRequests \in Nat
  /\ MaxFaults \in Nat
  /\ FaultKinds \subseteq AllFaults
  /\ Versions # {}
  /\ NoHash \notin Hashes
  /\ Free \notin Workers

Statuses == {"queued", "running", "succeeded", "failed"}

\* The columns of game_analyses the queue protocol depends on.
Row == [id: Nat, hash: Hashes, version: Versions, status: Statuses,
        attempts: Nat, due: BOOLEAN, requested: Nat, payload: Nat]

WorkerStates == {"idle", "claiming", "running", "failing", "waiting", "down"}

\* What RETURNING hands to the worker, held in memory for the whole attempt.
\* epoch is not in the Go struct: it is the requested_at of the row when it
\* was claimed, kept to say which request the attempt works for.
Job == [game: Games, id: Nat, hash: Hashes, attempt: Nat, epoch: Nat]

ASSUME NullAssumption == NoRow \notin Row /\ NoJob \notin Job

VARIABLES
  latest,      \* [Games -> Hashes \cup {NoHash}], hash of the newest replay_files row
  bucket,      \* replay objects present in the bucket
  row,         \* game_analyses, at most one row per game (game_id is unique)
  lock,        \* the worker whose open claim transaction locks the row
  pc, job,     \* control state and claimed job of every worker
  clock,       \* the last requested_at handed out
  version,     \* REPLAY_ANALYZER_VERSION of the running API server
  unsent,      \* games whose enqueue committed and pg_notify is still to come
  signal,      \* workers with a buffered notification
  view,        \* rows the running ListSeasons request found missing
  faults       \* infrastructure faults so far

serverVars == <<latest, bucket, clock, version, unsent, view>>
workerVars == <<pc, job, lock>>
vars == <<latest, bucket, row, lock, pc, job, clock, version, unsent, signal,
          view, faults>>

Init ==
  /\ latest = [g \in Games |-> NoHash]
  /\ bucket = {}
  /\ row = [g \in Games |-> NoRow]
  /\ lock = [g \in Games |-> Free]
  /\ pc = [w \in Workers |-> "idle"]
  /\ job = [w \in Workers |-> NoJob]
  /\ clock = 0
  /\ version \in Versions
  /\ unsent = {}
  /\ signal = {}
  /\ view = [g \in Games |-> NoHash]
  /\ faults = 0
-----------------------------------------------------------------------------
(***************************************************************************)
(* The API server.  Every handler below is one database transaction (or    *)
(* one autocommitted statement) seen at its commit; what happens inside    *)
(* an upload transaction is the subject of module ReplayIngest.            *)
(***************************************************************************)

Exists(g) == latest[g] # NoHash

\* The row INSERTed, or the row an ON CONFLICT DO UPDATE resets (its id is kept).
QueuedRow(id, h) ==
  [id |-> id, hash |-> h, version |-> version, status |-> "queued",
   attempts |-> 0, due |-> TRUE, requested |-> clock + 1, payload |-> 0]

\* A fresh row for g, and the pg_notify that follows the commit.
InsertRow(g, h) ==
  /\ clock < MaxRequests
  /\ clock' = clock + 1
  /\ row' = [row EXCEPT ![g] = QueuedRow(clock + 1, h)]
  /\ unsent' = unsent \cup {g}

\* ON CONFLICT (game_id) DO UPDATE ... WHERE: same replay, other analyzer.
Requeues(g, h) == row[g].hash = h /\ row[g].version # version

ResetRow(g, h) ==
  /\ clock < MaxRequests
  /\ clock' = clock + 1
  /\ row' = [row EXCEPT ![g] = QueuedRow(row[g].id, h)]
  /\ unsent' = unsent \cup {g}

\* createNewGame with replay bytes: first upload of the recording.
UploadNew(g, h) ==
  /\ ~Exists(g)
  /\ latest' = [latest EXCEPT ![g] = h]
  /\ bucket' = bucket \cup {h}
  /\ InsertRow(g, h)
  /\ UNCHANGED <<lock, pc, job, version, signal, view, faults>>

\* addReplayFileToGame with replay bytes: another uploader, same game.  The
\* upsert waits for a claim transaction that holds the row.
UploadAgain(g, h) ==
  /\ Exists(g)
  /\ lock[g] = Free
  /\ latest' = [latest EXCEPT ![g] = h]
  /\ bucket' = bucket \cup {h}
  /\ \/ row[g] = NoRow /\ InsertRow(g, h)
     \/ row[g] # NoRow /\ Requeues(g, h) /\ ResetRow(g, h)
     \/ row[g] # NoRow /\ ~Requeues(g, h) /\ UNCHANGED <<row, clock, unsent>>
  /\ UNCHANGED <<lock, pc, job, version, signal, view, faults>>

\* ParseLocalReplay: the same two paths without replay bytes; neither the
\* bucket nor the queue is touched.
ParseLocal(g, h) ==
  /\ latest' = [latest EXCEPT ![g] = h]
  /\ UNCHANGED <<bucket, row, lock, pc, job, clock, version, unsent, signal,
                 view, faults>>

\* DeleteGame removes the game, its files and its analysis row; the bucket
\* object stays.
DeleteGame(g) ==
  /\ Exists(g)
  /\ lock[g] = Free
  /\ latest' = [latest EXCEPT ![g] = NoHash]
  /\ row' = [row EXCEPT ![g] = NoRow]
  /\ view' = [view EXCEPT ![g] = NoHash]
  /\ UNCHANGED <<bucket, lock, pc, job, clock, version, unsent, signal, faults>>

\* ListSeasons?include_games=true loads the games with their analysis edge ...
SeasonRead ==
  /\ view = [g \in Games |-> NoHash]
  /\ view' = [g \in Games |-> IF row[g] = NoRow THEN latest[g] ELSE NoHash]
  /\ UNCHANGED <<latest, bucket, row, lock, pc, job, clock, version, unsent,
                 signal, faults>>

\* ... and then inserts the rows it saw missing, ON CONFLICT DO NOTHING, with
\* the newest hash it read.  (A game deleted meanwhile fails its foreign key:
\* DeleteGame drops it from view.)
SeasonEnqueue(g) ==
  /\ view[g] # NoHash
  /\ view' = [view EXCEPT ![g] = NoHash]
  /\ \/ row[g] = NoRow /\ InsertRow(g, view[g])
     \/ row[g] # NoRow /\ UNCHANGED <<row, clock, unsent>>
  /\ UNCHANGED <<latest, bucket, lock, pc, job, version, signal, faults>>

\* The request gives up (an error, or the client is gone).
SeasonAbort ==
  /\ view' = [g \in Games |-> NoHash]
  /\ UNCHANGED <<latest, bucket, row, lock, pc, job, clock, version, unsent,
                 signal, faults>>

\* pg_notify reaches every worker that listens at that moment.
SendNotify(g) ==
  /\ g \in unsent
  /\ unsent' = unsent \ {g}
  /\ signal' = {w \in Workers : pc[w] # "down"}
  /\ UNCHANGED <<latest, bucket, row, lock, pc, job, clock, version, view, faults>>

\* pg_notify fails (logged only), or the server stops before sending it.
LoseNotify(g) ==
  /\ g \in unsent
  /\ unsent' = unsent \ {g}
  /\ UNCHANGED <<latest, bucket, row, lock, pc, job, clock, version, signal,
                 view, faults>>

\* A deployment changes the analyzer version the server stamps on rows.
Deploy(v) ==
  /\ v # version
  /\ version' = v
  /\ UNCHANGED <<latest, bucket, row, lock, pc, job, clock, unsent, signal,
                 view, faults>>

\* next_retry_at passes.
BackoffElapses(g) ==
  /\ row[g] # NoRow
  /\ row[g].status = "queued" /\ ~row[g].due
  /\ lock[g] = Free
  /\ row' = [row EXCEPT ![g].due = TRUE]
  /\ UNCHANGED <<serverVars, workerVars, signal, faults>>
-----------------------------------------------------------------------------
(***************************************************************************)
(* The workers: run / processNext / claimNextJob / executeJob /            *)
(* markFailure.                                                            *)
(***************************************************************************)

\* Mutant: the claim query without row locking.
ClaimableUnlocked(g) ==
  row[g] # NoRow /\ row[g].status = "queued" /\ row[g].due

\* Mutant: the claim query forgets the status.
ClaimableAnyStatus(g) ==
  row[g] # NoRow /\ row[g].due /\ lock[g] = Free

Claimable(g) ==
  /\ row[g] # NoRow
  /\ row[g].status = "queued" /\ row[g].due
  /\ lock[g] = Free                              \* FOR UPDATE SKIP LOCKED

\* ORDER BY priority DESC, requested_at ASC LIMIT 1; every enqueue uses priority 0.
NextJob(g) ==
  Claimable(g) /\ \A h \in Games : Claimable(h) => row[g].requested <= row[h].requested

\* The claim statement: the row is locked and its new version still uncommitted.
ClaimLock(w, g) ==
  /\ pc[w] = "idle"
  /\ NextJob(g)
  /\ lock' = [lock EXCEPT ![g] = w]
  /\ pc' = [pc EXCEPT ![w] = "claiming"]
  /\ job' = [job EXCEPT ![w] =
               [game |-> g, id |-> row[g].id, hash |-> row[g].hash,
                attempt |-> row[g].attempts + 1, epoch |-> row[g].requested]]
  /\ UNCHANGED <<serverVars, row, signal, faults>>

\* No row: processNext returns (false, nil) and run waits.
ClaimNothing(w) ==
  /\ pc[w] = "idle"
  /\ \A g \in Games : ~Claimable(g)
  /\ pc' = [pc EXCEPT ![w] = "waiting"]
  /\ UNCHANGED <<serverVars, row, lock, job, signal, faults>>

\* What the commit of w's claim transaction makes of the row.
ClaimedRow(w) == [row[job[w].game] EXCEPT !.status = "running", !.attempts = @ + 1]

ClaimCommit(w) ==
  /\ pc[w] = "claiming"
  /\ row' = [row EXCEPT ![job[w].game] = ClaimedRow(w)]
  /\ lock' = [lock EXCEPT ![job[w].game] = Free]
  /\ pc' = [pc EXCEPT ![w] = "running"]
  /\ UNCHANGED <<serverVars, job, signal, faults>>

\* Mutant: results are written by game_id instead of the row's id.
RowOfGamePresent(w) == row[job[w].game] # NoRow

\* WHERE id = $1 still finds the claimed row: it was not deleted meanwhile.
RowPresent(w) == row[job[w].game] # NoRow /\ row[job[w].game].id = job[w].id

\* An UPDATE by id waits for the row lock and touches no row when the id is gone.
UpdateById(w, r) ==
  /\ lock[job[w].game] = Free
  /\ row' = IF RowPresent(w) THEN [row EXCEPT ![job[w].game] = r] ELSE row

SucceededRow(w) ==
  [row[job[w].game] EXCEPT !.status = "succeeded", !.payload = job[w].epoch]

\* Mutant: one attempt too many.
FailedRowOffByOne(w) ==
  IF job[w].attempt <= MaxAttempts
  THEN [row[job[w].game] EXCEPT !.status = "queued", !.due = FALSE]
  ELSE [row[job[w].game] EXCEPT !.status = "failed"]

\* Mutant: the retry is scheduled but the status is left alone.
FailedRowStillRunning(w) ==
  IF job[w].attempt < MaxAttempts
  THEN [row[job[w].game] EXCEPT !.due = FALSE]
  ELSE [row[job[w].game] EXCEPT !.status = "failed"]

\* Mutant: giving up writes the status of a game that was never analysed.
FailedRowNotRequested(w) ==
  IF job[w].attempt < MaxAttempts
  THEN [row[job[w].game] EXCEPT !.status = "queued", !.due = FALSE]
  ELSE [row[job[w].game] EXCEPT !.status = "not_requested"]

\* Retry later while attempts are left, by the attempt number of the claim.
FailedRow(w) ==
  IF job[w].attempt < MaxAttempts
  THEN [row[job[w].game] EXCEPT !.status = "queued", !.due = FALSE]
  ELSE [row[job[w].game] EXCEPT !.status = "failed"]

\* executeJob to the end: download, analyzer run, success UPDATE.
RunSucceeds(w) ==
  /\ pc[w] = "running"
  /\ job[w].hash \in bucket
  /\ UpdateById(w, SucceededRow(w))
  /\ pc' = [pc EXCEPT ![w] = "idle"]
  /\ job' = [job EXCEPT ![w] = NoJob]
  /\ UNCHANGED <<serverVars, lock, signal, faults>>

\* executeJob returns an error before the row is updated: object missing,
\* analyzer error or timeout, unreadable output, or the UPDATE itself.
RunFails(w) ==
  /\ pc[w] = "running"
  /\ pc' = [pc EXCEPT ![w] = "failing"]
  /\ UNCHANGED <<serverVars, row, lock, job, signal, faults>>

MarkFailure(w) ==
  /\ pc[w] = "failing"
  /\ UpdateById(w, FailedRow(w))
  /\ pc' = [pc EXCEPT ![w] = "idle"]
  /\ job' = [job EXCEPT ![w] = NoJob]
  /\ UNCHANGED <<serverVars, lock, signal, faults>>

\* The select of run: a notification is received, or the poll interval passes.
WakeUp(w) ==
  /\ pc[w] = "waiting"
  /\ w \in signal
  /\ signal' = signal \ {w}
  /\ pc' = [pc EXCEPT ![w] = "idle"]
  /\ UNCHANGED <<serverVars, row, lock, job, faults>>

\* Mutant: no poll fallback, the worker waits for notifications only.
PollNever(w) == pc[w] = "waiting" /\ w \in signal /\ UNCHANGED vars

Poll(w) ==
  /\ pc[w] = "waiting"
  /\ pc' = [pc EXCEPT ![w] = "idle"]
  /\ UNCHANGED <<serverVars, row, lock, job, signal, faults>>

\* A process starts and listens; rows left by its predecessor are not examined.
Restart(w) ==
  /\ pc[w] = "down"
  /\ pc' = [pc EXCEPT ![w] = "idle"]
  /\ UNCHANGED <<serverVars, row, lock, job, signal, faults>>

-----------------------------------------------------------------------------
(***************************************************************************)
(* Infrastructure faults.                                                  *)
(***************************************************************************)

Fault(kind) ==
  /\ kind \in FaultKinds
  /\ faults < MaxFaults
  /\ faults' = faults + 1

LocksReleased(w) == [g \in Games |-> IF lock[g] = w THEN Free ELSE lock[g]]

\* The process is killed (main installs no signal handler); PostgreSQL rolls
\* its open transaction back.
Crash(w) ==
  /\ Fault("crash")
  /\ pc[w] # "down"
  /\ pc' = [pc EXCEPT ![w] = "down"]
  /\ job' = [job EXCEPT ![w] = NoJob]
  /\ lock' = LocksReleased(w)
  /\ signal' = signal \ {w}
  /\ UNCHANGED <<serverVars, row>>

\* The claim transaction fails and is rolled back.
ClaimFails(w) ==
  /\ Fault("claim")
  /\ pc[w] = "claiming"
  /\ pc' = [pc EXCEPT ![w] = "waiting"]
  /\ job' = [job EXCEPT ![w] = NoJob]
  /\ lock' = LocksReleased(w)
  /\ UNCHANGED <<serverVars, row, signal>>

\* The COMMIT of the claim takes effect but its reply is lost: processNext
\* reports an error and the worker never runs the job.
ClaimReplyLost(w) ==
  /\ Fault("claimReply")
  /\ pc[w] = "claiming"
  /\ row' = [row EXCEPT ![job[w].game] = ClaimedRow(w)]
  /\ lock' = LocksReleased(w)
  /\ pc' = [pc EXCEPT ![w] = "waiting"]
  /\ job' = [job EXCEPT ![w] = NoJob]
  /\ UNCHANGED <<serverVars, signal>>

\* The success UPDATE takes effect but its reply is lost: executeJob returns
\* an error and processNext goes on to markFailure.
ResultReplyLost(w) ==
  /\ Fault("resultReply")
  /\ pc[w] = "running"
  /\ job[w].hash \in bucket
  /\ UpdateById(w, SucceededRow(w))
  /\ pc' = [pc EXCEPT ![w] = "failing"]
  /\ UNCHANGED <<serverVars, lock, job, signal>>

\* markFailure's UPDATE fails: the error is logged and the job forgotten.
MarkFailureFails(w) ==
  /\ Fault("mark")
  /\ pc[w] = "failing"
  /\ pc' = [pc EXCEPT ![w] = "idle"]
  /\ job' = [job EXCEPT ![w] = NoJob]
  /\ UNCHANGED <<serverVars, row, lock, signal>>

-----------------------------------------------------------------------------
ServerStep ==
  \/ \E g \in Games, h \in Hashes : UploadNew(g, h) \/ UploadAgain(g, h) \/ ParseLocal(g, h)
  \/ \E g \in Games : DeleteGame(g) \/ SeasonEnqueue(g) \/ SendNotify(g) \/ LoseNotify(g)
  \/ SeasonRead \/ SeasonAbort
  \/ \E v \in Versions : Deploy(v)

\* What a worker process does on its own, faults apart.
WorkerStep(w) ==
  \/ \E g \in Games : ClaimLock(w, g)
  \/ ClaimNothing(w) \/ ClaimCommit(w)
  \/ RunSucceeds(w) \/ RunFails(w) \/ MarkFailure(w)
  \/ WakeUp(w) \/ Poll(w) \/ Restart(w)

FaultStep(w) ==
  Crash(w) \/ ClaimFails(w) \/ ClaimReplyLost(w) \/ ResultReplyLost(w) \/ MarkFailureFails(w)

Next ==
  \/ ServerStep
  \/ \E g \in Games : BackoffElapses(g)
  \/ \E w \in Workers : WorkerStep(w) \/ FaultStep(w)

Spec == Init /\ [][Next]_vars

(***************************************************************************)
(* Every worker process keeps executing its loop (the analyzer run is      *)
(* bounded by ExecTimeout, the wait by PollInterval), a stopped process is *)
(* started again by the platform, and time passes.  Nothing is assumed of  *)
(* clients, of notifications or of faults.                                 *)
(***************************************************************************)
Fairness ==
  /\ \A w \in Workers : WF_vars(WorkerStep(w))
  /\ \A g \in Games : WF_vars(BackoffElapses(g))

FairSpec == Spec /\ Fairness

-----------------------------------------------------------------------------
(***************************************************************************)
(* Properties.                                                             *)
(***************************************************************************)

\* Every variable keeps its type (columns of the schema, states of the loop).
TypeOK ==
  /\ latest \in [Games -> Hashes \cup {NoHash}]
  /\ bucket \subseteq Hashes
  /\ row \in [Games -> Row \cup {NoRow}]
  /\ lock \in [Games -> Workers \cup {Free}]
  /\ pc \in [Workers -> WorkerStates]
  /\ job \in [Workers -> Job \cup {NoJob}]
  /\ clock \in 0..MaxRequests
  /\ version \in Versions
  /\ unsent \subseteq Games
  /\ signal \subseteq Workers
  /\ view \in [Games -> Hashes \cup {NoHash}]
  /\ faults \in 0..MaxFaults

\* The worker executes an analyzer run, or is about to report its failure.
Active(w) == pc[w] \in {"running", "failing"}

\* The claim in w's hands is the newest thing that happened to its row's queue
\* entry: same row, same request, same attempt number.
Holds(w, g) ==
  /\ Active(w)
  /\ job[w].game = g /\ row[g].id = job[w].id
  /\ row[g].requested = job[w].epoch /\ row[g].attempts = job[w].attempt

\* No attempt of a request is executed by two workers (FOR UPDATE SKIP LOCKED
\* and the attempt_count increment in the claim), whatever requeues, faults and
\* late reports do.
AttemptUnique ==
  \A u, w \in Workers :
    u # w /\ Active(u) /\ Active(w) /\ job[u].id = job[w].id /\ job[u].epoch = job[w].epoch
      => job[u].attempt # job[w].attempt

\* A row is left running with nobody working on it only after a fault: no
\* schedule of uploads, requeues, deletions and late reports alone orphans one.
OrphanNeedsFault ==
  \A g \in Games :
    row[g] # NoRow /\ row[g].status = "running"
      => faults > 0 \/ \E w \in Workers : Holds(w, g)

(***************************************************************************)
(* The inductive invariant behind AttemptUnique and OrphanNeedsFault.      *)
(***************************************************************************)

\* Whoever is beyond the claim statement holds a job.
JobsTyped == \A w \in Workers : pc[w] = "claiming" \/ Active(w) => job[w] \in Job

\* A locked row belongs to the open claim transaction of its holder.
LocksHeld == \A g \in Games : lock[g] # Free => pc[lock[g]] = "claiming" /\ job[lock[g]].game = g

\* ... and is still the queued row that transaction selected.
ClaimsFresh ==
  \A w \in Workers : pc[w] = "claiming" =>
    /\ lock[job[w].game] = w
    /\ RowPresent(w)
    /\ row[job[w].game].status = "queued"
    /\ row[job[w].game].requested = job[w].epoch
    /\ row[job[w].game].attempts + 1 = job[w].attempt

\* Ids are serial: distinct per row, handed out no later than the last request.
IdsSerial ==
  \A g \in Games : row[g] # NoRow =>
    /\ row[g].id <= row[g].requested /\ row[g].requested <= clock
    /\ \A h \in Games \ {g} : row[h] # NoRow => row[h].id # row[g].id

\* A job in execution never runs ahead of its row: its request is the row's
\* current one or an older one, and within a request its attempt is not newer.
JobsBehindRow ==
  \A w \in Workers : Active(w) =>
    /\ job[w].id <= job[w].epoch /\ job[w].epoch <= clock
    /\ \A g \in Games : row[g] # NoRow /\ row[g].id = job[w].id =>
         /\ job[w].game = g
         /\ job[w].epoch <= row[g].requested
         /\ job[w].epoch = row[g].requested => job[w].attempt <= row[g].attempts

\* Rows, and rows about to be inserted by ListSeasons, belong to existing games.
RowsHaveGames == \A g \in Games : row[g] # NoRow \/ view[g] # NoHash => Exists(g)

IndInv ==
  /\ RowsHaveGames
  /\ JobsTyped
  /\ LocksHeld
  /\ ClaimsFresh
  /\ IdsSerial
  /\ JobsBehindRow
  /\ AttemptUnique
  /\ OrphanNeedsFault

-----------------------------------------------------------------------------
\* With one analyzer version, one row is executed by one worker at a time, so
\* that nobody else empties its output directory job_<id> or reports for it.
SoleRunner ==
  \A u, w \in Workers : u # w /\ Active(u) /\ Active(w) => job[u].id # job[w].id

\* With one analyzer version, no row is claimed more often than
\* REPLAY_ANALYZER_WORKER_MAX_ATTEMPTS allows.
AttemptsBounded ==
  \A g \in Games : row[g] # NoRow => row[g].attempts <= MaxAttempts

\* A succeeded row shows the result of the request it was queued for last, the
\* one whose analyzer_version it carries.
ResultOfRequest ==
  \A g \in Games :
    row[g] # NoRow /\ row[g].status = "succeeded" => row[g].payload = row[g].requested

\* The step leaves finished rows alone, or requeues them as the upsert may.
FinishedKept ==
  \A g \in Games :
    row[g] # NoRow /\ row[g].status \in {"succeeded", "failed"} /\ row'[g] # NoRow
      => \/ row'[g] = row[g]
         \/ row'[g].hash = row[g].hash /\ row'[g].version # row[g].version

\* A finished row changes only by a requeue, for the same replay and another
\* analyzer version (the requeue rule of the upsert).
FinishedOnlyRequeued == [][FinishedKept]_vars

Queued(g) == row[g] # NoRow /\ row[g].status = "queued"

\* The part of FinishedOnlyRequeued the documentation states: a finished row is
\* queued again only for the same replay under another analyzer version.
RequeueRule ==
  [][\A g \in Games :
       row[g] # NoRow /\ row[g].status \in {"succeeded", "failed"} /\ Queued(g)'
         => row'[g].hash = row[g].hash /\ row'[g].version # row[g].version]_vars

Lifecycle == INSTANCE AnalysisLifecycle WITH
  status <- [g \in Games |-> IF row[g] = NoRow THEN "none" ELSE row[g].status],
  tries <- [g \in Games |-> IF row[g] = NoRow THEN 0 ELSE row[g].attempts]

\* With one analyzer version the table goes through the lifecycle of module
\* AnalysisLifecycle and no other way: claims, retries and outcomes of workers
\* that crash, race or lose their transactions included.
RefinesLifecycle == Lifecycle!LifecycleSpec

Settled(g) == row[g] # NoRow => row[g].status \in {"succeeded", "failed"}

\* A queued row is eventually taken out of the queue, even when its
\* notification is lost and workers crash and restart (the poll fallback).
QueuedIsServed == \A g \in Games : Queued(g) ~> ~Queued(g)

\* Every row eventually succeeds, fails or is deleted, unless it is reset again.
JobsSettle == \A g \in Games : []<>Settled(g)

\* ... and without infrastructure faults it does: retries, requeues under another version
\* and deletions all come to an end.
JobsSettleUnlessFault == \A g \in Games : []<>(Settled(g) \/ faults > 0)
=============================================================================
