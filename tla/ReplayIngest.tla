------------------------------ MODULE ReplayIngest ------------------------------
(***************************************************************************)
(* Upload and deletion of recordings, statement by statement: the requests *)
(* of replay_handler.go run concurrently, each in its own READ COMMITTED   *)
(* transaction, and meet at the unique keys, foreign keys and row locks of *)
(* PostgreSQL.                                                             *)
(*                                                                         *)
(* A recording is identified by its (host, start_time).  The lookup by     *)
(* file hash leads to the same game and the same code path as the lookup   *)
(* by (host, start_time), so a request's hash is not represented.  Season  *)
(* data is the subject of another module.                                  *)
(***************************************************************************)
EXTENDS Naturals, FiniteSets, Sequences

CONSTANTS
  Games,        \* recordings
  Users,        \* user names
  Players,      \* [Games -> Seq(Users)], names in the order of the replay
  Requests,     \* the requests of a behaviour; each is received at most once
  Inputs,       \* what a request may ask for
  NoInput,      \* "not received yet"
  NoGame,       \* "no games row"
  MaxFaults     \* bound: bucket failures and server stops

GameRow == [id: Nat, uploads: Nat]

Input == [kind: {"upload", "delete"}, game: Games, uploader: Users,
          named: BOOLEAN,   \* uploader_name was given, not derived from the replay
          data: BOOLEAN]    \* the bytes are there (upload, not local parse)

IsPlayer(u, g) == \E i \in DOMAIN Players[g] : Players[g][i] = u

\* An uploader derived from the replay (autoUploaderName) is one of its players.
ASSUME IngestAssumption ==
  /\ MaxFaults \in Nat
  /\ \A i \in Inputs : ~i.named => IsPlayer(i.uploader, i.game)
  /\ Inputs \subseteq Input
  /\ NoInput \notin Input
  /\ NoGame \notin GameRow
  /\ Players \in [Games -> Seq(Users)]

VARIABLES
  games,        \* committed games rows: [id, uploads], or NoGame
  files,        \* committed replay_files rows: [game, uploader], game an id
  analyses,     \* ids of the games with a committed game_analyses row
  users,        \* committed users.name
  nextId,       \* the games.id sequence
  req, pc,      \* input and control state of every request
  target,       \* id of the games row the request works on
  idx,          \* position in the loop of ensureUsers
  tx,           \* the request's transaction: none, open, or aborted by PostgreSQL
  locks,        \* keys and row locks its open transaction holds
  status,       \* HTTP status of the answer, 0 before
  faults

database == <<games, files, analyses, users>>
vars == <<games, files, analyses, users, nextId, req, pc, target, idx, tx, locks,
          status, faults>>

Init ==
  /\ games = [g \in Games |-> NoGame]
  /\ files = {} /\ analyses = {} /\ users = {}
  /\ nextId = 1
  /\ req = [t \in Requests |-> NoInput]
  /\ pc = [t \in Requests |-> "idle"]
  /\ target = [t \in Requests |-> 0]
  /\ idx = [t \in Requests |-> 1]
  /\ tx = [t \in Requests |-> "none"]
  /\ locks = [t \in Requests |-> {}]
  /\ status = [t \in Requests |-> 0]
  /\ faults = 0
-----------------------------------------------------------------------------
(***************************************************************************)
(* Locks.  An uncommitted insert holds its unique key; rows are locked by  *)
(* foreign-key checks ("share"), UPDATE ("update") and DELETE ("delete").  *)
(***************************************************************************)

UserKey(u) == <<"users", u>>
GameKey(g) == <<"games", g>>
FileKey(id, u) == <<"files", id, u>>
AnalysisKey(id) == <<"analyses", id>>
RowLock(id, mode) == <<"row", id, mode>>

Compatible(m, n) == m # "delete" /\ n # "delete" /\ (m = "share" \/ n = "share")

Conflict(a, b) ==
  IF a[1] = "row" /\ b[1] = "row" THEN a[2] = b[2] /\ ~Compatible(a[3], b[3]) ELSE a = b

Game(t) == req[t].game
Uploader(t) == req[t].uploader
Present(id) == \E g \in Games : games[g] # NoGame /\ games[g].id = id
FilesOf(id) == {f \in files : f.game = id}
NextName(t) == Players[Game(t)][idx[t]]

\* The locks the next statement of t takes.
Wanted(t) ==
  LET at(label, keys) == IF pc[t] = label THEN keys ELSE {}
  IN  UNION {at("addUploader",    {UserKey(Uploader(t))}),
             at("addFile",        {FileKey(target[t], Uploader(t)), RowLock(target[t], "share")}),
             at("enqueue",        {AnalysisKey(target[t])}),
             at("count",          {RowLock(target[t], "update")}),
             at("season",         {RowLock(target[t], "update")}),
             at("create",         {GameKey(Game(t))}),
             at("addUser",        {UserKey(NextName(t))}),
             at("deleteFiles",    {FileKey(f.game, f.uploader) : f \in FilesOf(target[t])}),
             at("deleteAnalysis", {AnalysisKey(id) : id \in analyses \cap {target[t]}}),
             at("deleteGame",     {RowLock(target[t], "delete")})}

\* The requests whose transactions make that statement wait.
Blockers(t) ==
  {r \in Requests \ {t} : \E a \in Wanted(t), b \in locks[r] : Conflict(a, b)}

Waiting(t) == Blockers(t) # {}

At(t, label) == pc[t] = label /\ ~Waiting(t)

Goto(t, label) == pc' = [pc EXCEPT ![t] = label]

\* The statement succeeds and its locks are held until the transaction ends.
Lock(t) == locks' = [locks EXCEPT ![t] = @ \cup Wanted(t)]

\* The handler goes on at label and leaves its transaction in state s.
Leave(t, label, s) ==
  /\ Goto(t, label)
  /\ tx' = [tx EXCEPT ![t] = s]
  /\ locks' = IF s = "open" THEN locks ELSE [locks EXCEPT ![t] = {}]

Answer(t, code, s) == Leave(t, "done", s) /\ status' = [status EXCEPT ![t] = code]

\* Mutant: an error return that forgets the rollback.
RollbackForgotten(t) == Answer(t, 500, "open")

\* An error return with the function's err set: the deferred Rollback runs.
Rollback(t) == Answer(t, 500, "none")
-----------------------------------------------------------------------------
(***************************************************************************)
(* processParsedReplayResult: uploader, lookup, dispatch.                  *)
(***************************************************************************)

Receive(t, input) ==
  /\ pc[t] = "idle"
  /\ req' = [req EXCEPT ![t] = input]
  /\ Goto(t, IF input.kind = "delete" THEN "find" ELSE "uploader")
  /\ UNCHANGED <<database, nextId, target, idx, tx, locks, status, faults>>

\* getOrCreateUser: the query ...
FindUploader(t) ==
  /\ At(t, "uploader")
  /\ Goto(t, IF Uploader(t) \in users THEN "lookup" ELSE "addUploader")
  /\ UNCHANGED <<database, nextId, req, target, idx, tx, locks, status, faults>>

\* ... and the insert, a statement of its own that nothing undoes.
AddUploader(t) ==
  /\ At(t, "addUploader")
  /\ \/ /\ Uploader(t) \notin users
        /\ users' = users \cup {Uploader(t)}
        /\ Goto(t, "lookup")
        /\ UNCHANGED <<tx, locks, status>>
     \/ /\ Uploader(t) \in users
        /\ Answer(t, 500, "none")
        /\ UNCHANGED users
  /\ UNCHANGED <<games, files, analyses, nextId, req, target, idx, faults>>

\* Mutant: the participation check is dropped.
RejectsNobody(t) == FALSE

\* isUploaderInParsedPlayers, consulted for new games only.
Rejects(t) == req[t].named /\ ~IsPlayer(Uploader(t), Game(t))

\* The two lookups and the branch they decide.
Lookup(t) ==
  /\ At(t, "lookup")
  /\ \/ /\ games[Game(t)] # NoGame
        /\ target' = [target EXCEPT ![t] = games[Game(t)].id]
        /\ Goto(t, "begin")
        /\ UNCHANGED <<tx, locks, status>>
     \/ /\ games[Game(t)] = NoGame
        /\ \/ Rejects(t) /\ Answer(t, 400, "none")
           \/ ~Rejects(t) /\ Goto(t, "create") /\ UNCHANGED <<tx, locks, status>>
        /\ UNCHANGED target
  /\ UNCHANGED <<database, nextId, req, idx, faults>>
-----------------------------------------------------------------------------
(***************************************************************************)
(* addReplayFileToGame.                                                    *)
(***************************************************************************)

\* Mutant: the duplicate check forgets the uploader.
UploadedByAnybody(t) == FilesOf(target[t]) # {}

AlreadyUploaded(t) == [game |-> target[t], uploader |-> Uploader(t)] \in files

\* Begin, and the duplicate check.  Its early return leaves err nil, so that
\* the deferred Rollback does not run; the caller goes on as after a success.
BeginAdd(t) ==
  /\ At(t, "begin")
  /\ Leave(t, IF AlreadyUploaded(t) THEN "season" ELSE "addFile", "open")
  /\ UNCHANGED <<database, nextId, req, target, idx, status, faults>>

\* Mutant: the schema has no unique (game, uploader) index.
AddFileUnchecked(t) ==
  /\ At(t, "addFile")
  /\ \/ /\ Present(target[t])
        /\ locks' = [locks EXCEPT ![t] = @ \cup {RowLock(target[t], "share")}]
        /\ Goto(t, IF req[t].data THEN "store" ELSE "count")
        /\ UNCHANGED <<tx, status>>
     \/ /\ ~Present(target[t])
        /\ Rollback(t)
  /\ UNCHANGED <<database, nextId, req, target, idx, faults>>

\* The replay_files insert: foreign key, and unique (game, uploader).
AddFile(t) ==
  /\ At(t, "addFile")
  /\ \/ /\ Present(target[t]) /\ ~AlreadyUploaded(t)
        /\ Lock(t)
        /\ Goto(t, IF req[t].data THEN "store" ELSE "count")
        /\ UNCHANGED <<tx, status>>
     \/ /\ ~Present(target[t]) \/ AlreadyUploaded(t)
        /\ Rollback(t)
  /\ UNCHANGED <<database, nextId, req, target, idx, faults>>

\* ensureReplayInBucket, for both paths.
Store(t) ==
  /\ At(t, "store")
  /\ Goto(t, "enqueue")
  /\ UNCHANGED <<database, nextId, req, target, idx, tx, locks, status, faults>>

\* The bucket is unavailable.  The error is returned from a scope whose own
\* err shadows the one the deferred function looks at: no Rollback.
StoreFails(t) ==
  /\ At(t, "store")
  /\ faults < MaxFaults
  /\ faults' = faults + 1
  /\ Answer(t, 500, "open")
  /\ UNCHANGED <<database, nextId, req, target, idx>>

New(t) == GameKey(Game(t)) \in locks[t]

\* upsertGameAnalysisQueuedTx, for both paths: its row is locked whether or
\* not the upsert changes it (what it writes is the subject of AnalysisQueue).
Enqueue(t) ==
  /\ At(t, "enqueue")
  /\ Lock(t)
  /\ Goto(t, IF New(t) THEN "commitNew" ELSE "count")
  /\ UNCHANGED <<database, nextId, req, target, idx, tx, status, faults>>

Count(t) ==
  /\ At(t, "count")
  /\ Lock(t)
  /\ Goto(t, "commitAdd")
  /\ UNCHANGED <<database, nextId, req, target, idx, tx, status, faults>>

NewFile(t) == [game |-> target[t], uploader |-> Uploader(t)]

QueuedIds(t) == {id \in {target[t]} : AnalysisKey(id) \in locks[t]}

\* Mutant: the increment is lost.
CountedNot(t) == games

Counted(t) == [games EXCEPT ![Game(t)].uploads = @ + 1]

CommitAdd(t) ==
  /\ At(t, "commitAdd")
  /\ files' = files \cup {NewFile(t)}
  /\ games' = Counted(t)
  /\ analyses' = analyses \cup QueuedIds(t)
  /\ Leave(t, "season", "none")
  /\ UNCHANGED <<users, nextId, req, target, idx, status, faults>>

\* applySeasonToGame, on the client: an UPDATE of the games row (a request
\* without season data would only read it), which fails if the row is gone.
ApplySeason(t) ==
  /\ At(t, "season")
  /\ Goto(t, "done")
  /\ status' = [status EXCEPT ![t] = IF Present(target[t]) THEN 200 ELSE 500]
  /\ UNCHANGED <<database, nextId, req, target, idx, tx, locks, faults>>
-----------------------------------------------------------------------------
(***************************************************************************)
(* createNewGame.                                                          *)
(***************************************************************************)

\* Begin, and the games insert: unique (host, start_time).
Create(t) ==
  /\ At(t, "create")
  /\ \/ /\ games[Game(t)] = NoGame
        /\ tx' = [tx EXCEPT ![t] = "open"]
        /\ Lock(t)
        /\ target' = [target EXCEPT ![t] = nextId]
        /\ Goto(t, "checkUser")
        /\ UNCHANGED status
     \/ /\ games[Game(t)] # NoGame
        /\ Rollback(t)
        /\ UNCHANGED target
  /\ nextId' = nextId + 1
  /\ UNCHANGED <<database, req, idx, faults>>

\* Mutant: ensureUsers takes uncommitted users of others for existing ones.
VisibleDirty(t, u) == u \in users \/ \E r \in Requests : UserKey(u) \in locks[r]

\* READ COMMITTED: committed names, and its own.
Visible(t, u) == u \in users \/ UserKey(u) \in locks[t]

\* ensureUsers, one name: the query ...  After the last name, the players,
\* the replay file and the details are inserted under keys of the new id.
CheckUser(t) ==
  /\ At(t, "checkUser")
  /\ \/ /\ idx[t] > Len(Players[Game(t)])
        /\ Goto(t, IF req[t].data THEN "store" ELSE "commitNew")
        /\ UNCHANGED idx
     \/ /\ idx[t] <= Len(Players[Game(t)])
        /\ IF Visible(t, NextName(t))
           THEN idx' = [idx EXCEPT ![t] = @ + 1] /\ UNCHANGED pc
           ELSE Goto(t, "addUser") /\ UNCHANGED idx
  /\ UNCHANGED <<database, nextId, req, target, tx, locks, status, faults>>

\* ... and the insert: unique (name).
AddUser(t) ==
  /\ At(t, "addUser")
  /\ \/ /\ NextName(t) \notin users
        /\ Lock(t)
        /\ idx' = [idx EXCEPT ![t] = @ + 1]
        /\ Goto(t, "checkUser")
        /\ UNCHANGED <<tx, status>>
     \/ /\ NextName(t) \in users
        /\ Rollback(t)
        /\ UNCHANGED idx
  /\ UNCHANGED <<database, nextId, req, target, faults>>

CommitNew(t) ==
  /\ At(t, "commitNew")
  /\ games' = [games EXCEPT ![Game(t)] = [id |-> target[t], uploads |-> 1]]
  /\ files' = files \cup {NewFile(t)}
  /\ analyses' = analyses \cup QueuedIds(t)
  /\ users' = users \cup {u \in Users : UserKey(u) \in locks[t]}
  /\ Leave(t, "reread", "none")
  /\ UNCHANGED <<nextId, req, target, idx, status, faults>>

\* The game is queried again for the answer; a deletion may be faster.
Reread(t) ==
  /\ At(t, "reread")
  /\ Goto(t, "done")
  /\ status' = [status EXCEPT ![t] = IF Present(target[t]) THEN 201 ELSE 500]
  /\ UNCHANGED <<database, nextId, req, target, idx, tx, locks, faults>>
-----------------------------------------------------------------------------
(***************************************************************************)
(* DeleteGame.  A DELETE sees the committed rows only.                     *)
(***************************************************************************)

\* Mutant: the deletes run on the client instead of the transaction.
FindOutsideTx(t) ==
  /\ At(t, "find")
  /\ games[Game(t)] # NoGame
  /\ target' = [target EXCEPT ![t] = games[Game(t)].id]
  /\ Goto(t, "deleteFiles")
  /\ UNCHANGED <<database, nextId, req, idx, tx, locks, status, faults>>

\* Begin, and the query of the game.
Find(t) ==
  /\ At(t, "find")
  /\ \/ /\ games[Game(t)] # NoGame
        /\ tx' = [tx EXCEPT ![t] = "open"]
        /\ target' = [target EXCEPT ![t] = games[Game(t)].id]
        /\ Goto(t, "deleteFiles")
        /\ UNCHANGED <<locks, status>>
     \/ /\ games[Game(t)] = NoGame
        /\ Answer(t, 404, "none")
        /\ UNCHANGED target
  /\ UNCHANGED <<database, nextId, req, idx, faults>>

DeleteFiles(t) ==
  /\ At(t, "deleteFiles")
  /\ Lock(t)
  /\ Goto(t, "deleteAnalysis")
  /\ UNCHANGED <<database, nextId, req, target, idx, tx, status, faults>>

DeleteAnalysis(t) ==
  /\ At(t, "deleteAnalysis")
  /\ Lock(t)
  /\ Goto(t, "deleteGame")
  /\ UNCHANGED <<database, nextId, req, target, idx, tx, status, faults>>

\* Mutant: the schema deletes dependent rows instead of refusing (CASCADE).
ReferencedNever(t) == FALSE

\* Rows that appeared after the deletes above still refer to the game.
Referenced(t) ==
  \/ \E f \in FilesOf(target[t]) : FileKey(f.game, f.uploader) \notin locks[t]
  \/ target[t] \in analyses /\ AnalysisKey(target[t]) \notin locks[t]

DeleteRow(t) ==
  /\ At(t, "deleteGame")
  /\ \/ /\ Present(target[t]) /\ ~Referenced(t)
        /\ Lock(t)
        /\ Goto(t, "commitDelete")
        /\ UNCHANGED <<tx, status>>
     \/ /\ ~Present(target[t]) \/ Referenced(t)
        /\ Rollback(t)
  /\ UNCHANGED <<database, nextId, req, target, idx, faults>>

CommitDelete(t) ==
  /\ At(t, "commitDelete")
  /\ games' = [games EXCEPT ![Game(t)] = NoGame]
  /\ files' = {f \in files : FileKey(f.game, f.uploader) \notin locks[t]}
  /\ analyses' = {id \in analyses : AnalysisKey(id) \notin locks[t]}
  /\ Answer(t, 200, "none")
  /\ UNCHANGED <<users, nextId, req, target, idx, faults>>
-----------------------------------------------------------------------------
\* Requests reached from t by following the waits of n + 1 statements.
WaitsFor(t) ==
  LET reached[n \in 0..Cardinality(Requests)] ==
        IF n = 0 THEN Blockers(t)
        ELSE reached[n - 1] \cup UNION {Blockers(r) : r \in reached[n - 1]}
  IN  reached[Cardinality(Requests)]

\* PostgreSQL breaks a cycle of waits by aborting a transaction of it; its
\* locks are gone at once.  The error of the upsert is shadowed like the one of
\* the bucket and leaves the aborted transaction open, all others roll back.
BreakDeadlock(t) ==
  /\ Waiting(t) /\ t \in WaitsFor(t)
  /\ Answer(t, 500, IF pc[t] = "enqueue" THEN "aborted" ELSE "none")
  /\ UNCHANGED <<database, nextId, req, target, idx, faults>>

\* The server process ends: requests go unanswered, PostgreSQL rolls back.
ServerStops ==
  /\ faults < MaxFaults
  /\ faults' = faults + 1
  /\ pc' = [t \in Requests |-> IF pc[t] \in {"idle", "done"} THEN pc[t] ELSE "cut"]
  /\ tx' = [t \in Requests |-> "none"]
  /\ locks' = [t \in Requests |-> {}]
  /\ UNCHANGED <<database, nextId, req, target, idx, status>>

\* One statement of a request, in the order of the handlers.
Statement(t) ==
  \/ FindUploader(t) \/ AddUploader(t) \/ Lookup(t)
  \/ BeginAdd(t) \/ AddFile(t) \/ Store(t) \/ Enqueue(t) \/ Count(t) \/ CommitAdd(t)
  \/ ApplySeason(t)
  \/ Create(t) \/ CheckUser(t) \/ AddUser(t) \/ CommitNew(t) \/ Reread(t)
  \/ Find(t) \/ DeleteFiles(t) \/ DeleteAnalysis(t) \/ DeleteRow(t) \/ CommitDelete(t)

Next ==
  \/ \E t \in Requests :
       \/ \E input \in Inputs : Receive(t, input)
       \/ Statement(t) \/ StoreFails(t) \/ BreakDeadlock(t)
  \/ ServerStops

Spec == Init /\ [][Next]_vars

(***************************************************************************)
(* A handler that can execute a statement eventually does, and PostgreSQL  *)
(* looks for deadlocks (deadlock_timeout).  Nothing makes the bucket fail, *)
(* the server stop, or a client send a request.                            *)
(***************************************************************************)
FairSpec ==
  /\ Spec
  /\ \A t \in Requests : WF_vars(Statement(t)) /\ WF_vars(BreakDeadlock(t))
-----------------------------------------------------------------------------
(***************************************************************************)
(* Properties.                                                             *)
(***************************************************************************)

Labels == {"idle", "uploader", "addUploader", "lookup", "begin", "addFile", "store",
           "enqueue", "count", "commitAdd", "create", "checkUser", "addUser", "commitNew", "season", "reread",
           "find", "deleteFiles", "deleteAnalysis", "deleteGame", "commitDelete", "done", "cut"}

\* Every variable keeps its type; keys are held by open transactions only.
TypeOK ==
  /\ games \in [Games -> GameRow \cup {NoGame}]
  /\ files \subseteq [game: Nat, uploader: Users]
  /\ analyses \subseteq Nat
  /\ users \subseteq Users
  /\ nextId \in Nat
  /\ req \in [Requests -> Inputs \cup {NoInput}]
  /\ pc \in [Requests -> Labels]
  /\ target \in [Requests -> Nat]
  /\ idx \in [Requests -> Nat]
  /\ tx \in [Requests -> {"none", "open", "aborted"}]
  /\ DOMAIN locks = Requests
  /\ \A t \in Requests : tx[t] # "open" => locks[t] = {}
  /\ status \in [Requests -> {0, 200, 201, 400, 404, 500}]
  /\ faults \in 0..MaxFaults

\* upload_count, the m of the reliability m/N, is the number of contributions
\* on record, after any interleaving of uploads, deletions and rollbacks.
CountMatchesFiles ==
  \A g \in Games : games[g] # NoGame => games[g].uploads = Cardinality(FilesOf(games[g].id))

\* Contributions and analysis rows belong to recorded games: a deletion racing
\* an upload removes everything or nothing.
NoStrayRows == (\A f \in files : Present(f.game)) /\ \A id \in analyses : Present(id)

\* An upload answered with success is on record as long as its game is.
AcknowledgedIsRecorded ==
  \A t \in Requests :
    /\ pc[t] = "done" /\ status[t] \in {200, 201}
    /\ req[t].kind = "upload" /\ Present(target[t])
    => NewFile(t) \in files

\* Every recorded game was contributed by somebody who played it.
SomePlayerUploaded ==
  \A g \in Games : games[g] # NoGame => \E f \in FilesOf(games[g].id) : IsPlayer(f.uploader, g)

\* Players and uploaders of recorded games have a users row, although the names
\* may have been inserted by a transaction that was rolled back.
PlayersAreUsers ==
  /\ \A f \in files : f.uploader \in users
  /\ \A g \in Games : games[g] # NoGame => \A u \in Users : IsPlayer(u, g) => u \in users

\* An answered request keeps others waiting only after the bucket failed.
LocksLeakByFaultOnly ==
  \A t \in Requests : pc[t] = "done" /\ locks[t] # {} => faults > 0

\* Every request is eventually answered, whatever waits and deadlocks it meets,
\* unless the bucket fails or the server stops.
EveryRequestAnswered ==
  \A t \in Requests : pc[t] # "idle" ~> pc[t] = "done" \/ faults > 0

(***************************************************************************)
(* The inductive invariant behind the safety properties.                   *)
(***************************************************************************)

\* A request that adds a file to a recorded game, past its insert.
Adding(t) ==
  pc[t] \in {"count", "commitAdd"} \/ (pc[t] \in {"store", "enqueue"} /\ ~New(t))

\* A request that records a new game, past its insert.
Creating(t) ==
  pc[t] \in {"checkUser", "addUser", "commitNew"} \/ (pc[t] \in {"store", "enqueue"} /\ New(t))

\* The game of the request is recorded under the id the request works on.
Recorded(t) == games[Game(t)] # NoGame /\ games[Game(t)].id = target[t]

\* Locks are not shared: whoever asked for a conflicting one waited.
LocksExclusive ==
  \A t, r \in Requests : t # r => \A a \in locks[t], b \in locks[r] : ~Conflict(a, b)

\* Ids are serial, one id never names two games, and the id of a game that is
\* not committed yet is known to its request only.
IdsFresh ==
  /\ nextId > 0
  /\ \A t \in Requests : target[t] < nextId
  /\ \A g \in Games : games[g] # NoGame =>
       /\ games[g].id > 0 /\ games[g].id < nextId
       /\ \A h \in Games : games[h] # NoGame /\ games[h].id = games[g].id => h = g
       /\ \A t \in Requests : target[t] = games[g].id => Game(t) = g
  /\ \A t \in Requests : Creating(t) =>
       target[t] > 0 /\ ~Present(target[t]) /\ \A r \in Requests \ {t} : target[r] # target[t]

Lockless == {"idle", "uploader", "addUploader", "lookup", "begin", "create", "season", "reread",
             "find", "cut"}

\* Locks are held between the first insert or delete and the end of the
\* transaction, and beyond the answer only after a fault.
LocksInTx(t) ==
  /\ pc[t] \in Lockless \cup {"addFile", "deleteFiles"} => locks[t] = {}
  /\ pc[t] \notin Lockless \cup {"done"} => tx[t] = "open"

\* A request that has not been received has no input and no target.
IdleBlank(t) ==
  /\ pc[t] = "idle" => target[t] = 0
  /\ pc[t] # "idle" => req[t] \in Inputs

\* The foreign-key lock keeps the game, the unique key keeps the contribution out.
AdderProtected(t) ==
  Adding(t) =>
    /\ FileKey(target[t], Uploader(t)) \in locks[t]
    /\ RowLock(target[t], "share") \in locks[t]
    /\ Recorded(t) /\ ~AlreadyUploaded(t)

\* The key of the game keeps other recordings of it out.
CreatorProtected(t) ==
  /\ pc[t] = "create" \/ Creating(t) => IsPlayer(Uploader(t), Game(t))
  /\ Creating(t) => GameKey(Game(t)) \in locks[t] /\ games[Game(t)] = NoGame

\* A deletion locks rows of its own game only; once it holds the games row
\* nothing else refers to it.
DeleterProtected(t) ==
  /\ pc[t] \in {"deleteAnalysis", "deleteGame", "commitDelete"} =>
       \A k \in locks[t] : k[1] \in {"files", "analyses"} => k[2] = target[t]
  /\ pc[t] = "commitDelete" =>
       RowLock(target[t], "delete") \in locks[t] /\ Recorded(t) /\ ~Referenced(t)

\* An upload that has committed is on record until its game is deleted.
CommittedRecorded(t) ==
  pc[t] \in {"season", "reread"} /\ Present(target[t]) => NewFile(t) \in files

\* Uploaders have a users row before the lookup; ensureUsers has seen or
\* inserted every name before its position.
NamesKnown(t) ==
  /\ pc[t] \in {"idle", "uploader", "addUploader", "lookup", "create"} => idx[t] = 1
  /\ pc[t] \in {"lookup", "begin", "addFile", "create"} \/ Adding(t) \/ Creating(t)
       => Uploader(t) \in users
  /\ Creating(t) => \A i \in DOMAIN Players[Game(t)] : i < idx[t] => Visible(t, Players[Game(t)][i])
  /\ pc[t] \in {"store", "enqueue", "commitNew"} /\ Creating(t) => idx[t] > Len(Players[Game(t)])

RequestInv(t) ==
  /\ LocksInTx(t)
  /\ IdleBlank(t)
  /\ AdderProtected(t)
  /\ CreatorProtected(t)
  /\ DeleterProtected(t)
  /\ CommittedRecorded(t)
  /\ NamesKnown(t)

IngestInv ==
  /\ NoStrayRows
  /\ LocksExclusive
  /\ IdsFresh
  /\ \A t \in Requests : RequestInv(t)

Archive == INSTANCE ReplayArchive WITH
  contributors <- [g \in Games |-> IF games[g] = NoGame THEN {}
                                   ELSE {f.uploader : f \in FilesOf(games[g].id)}],
  reliability <- [g \in Games |-> IF games[g] = NoGame THEN 0 ELSE games[g].uploads]

\* Requests, transactions and aborts together implement ReplayArchive: what
\* readers see changes by one contribution or one deletion at a time.
RefinesArchive == Archive!ArchiveSpec

(***************************************************************************)
(* What the documentation says and the code does not do.                   *)
(***************************************************************************)

\* A user who uploads a recording again is rejected with 409.  (A request that
\* gets to "season" with its transaction open was refused by the duplicate check.)
SameUserRejected ==
  [][\A t \in Requests :
       pc[t] = "season" /\ tx[t] = "open" /\ pc'[t] = "done" => status'[t] = 409]_vars

\* An answered request has ended its transaction.
TransactionsEnd == \A t \in Requests : pc[t] = "done" => tx[t] = "none"
=============================================================================
