------------------------------- MODULE EntStore -------------------------------
(***************************************************************************)
(* The tables behind the generated ent client, and the transactions the    *)
(* handlers and the jobs run on them.  What each builder accepts, adds,    *)
(* checks, writes and reads comes from the generated code of its entity    *)
(* (the Ent* modules); what the database demands comes from the migration. *)
(* The raw INSERTs of the queue and of the snapshot jobs bypass the        *)
(* builders, and with them their defaults and their checks.  One upload    *)
(* reads, statement by statement, while games are deleted under it.        *)
(***************************************************************************)
EXTENDS EntTypes, SequencesExt

CONSTANTS
  StoredUploads,      \* recordings: hash, host, start, players, label, no, data, details
  Uploaders,          \* names of uploaders
  MaxStoreRequests    \* bound: requests that reach the tables

VARIABLES
  tables,             \* the rows of each entity, by id
  serials,            \* the next id of each table
  wordKept,           \* whether every statement so far did what the client reported
  upload,             \* the upload under way: its stage and what it has read
  statements,         \* the transaction the database is to run next
  storeRequests       \* requests so far

-----------------------------------------------------------------------------
MatchupCode == INSTANCE EntAnalyzerRaceMatchup
SettingCode == INSTANCE EntAppSetting
GameCode == INSTANCE EntGame
AnalysisCode == INSTANCE EntGameAnalysis
DetailCode == INSTANCE EntGameDetail
PlayerCode == INSTANCE EntPlayer
RankingCode == INSTANCE EntRanking3v3
FileCode == INSTANCE EntReplayFile
UserCode == INSTANCE EntUser

\* What the generated code and the migration say of each entity.
Schema ==
  [AnalyzerRaceMatchup |-> MatchupCode!Entity, AppSetting |-> SettingCode!Entity,
   Game |-> GameCode!Entity, GameAnalysis |-> AnalysisCode!Entity, GameDetail |-> DetailCode!Entity,
   Player |-> PlayerCode!Entity, Ranking3v3 |-> RankingCode!Entity, ReplayFile |-> FileCode!Entity,
   User |-> UserCode!Entity]

Entities == DOMAIN Schema

\* A recording that is stored has a game, players with a seat, and what was cut out of it; the
\* name of an uploader is not blank.
ASSUME StoreAssumption ==
  /\ StoredUploads \subseteq
       [hash : Nat, host : Nat, start : Nat, players : Seq([name : Nat, slot : Nat]),
        label : Nat \cup {Nil}, no : Nat \cup {Nil}, data : BOOLEAN,
        details : SUBSET SUBSET DetailCode!Columns]
  /\ Uploaders \subseteq Nat \ {Zero}

storeVars == <<tables, serials, wordKept, upload, statements, storeRequests>>

NoUpload == [stage |-> "idle"]

-----------------------------------------------------------------------------
(***************************************************************************)
(* A statement is a record: what it does, the entity of, and its values.   *)
(* It takes a database, [rows, next, kept, failed], to the next one.       *)
(***************************************************************************)
\* A function, and another one where it has no value: TLC's @@, by a definition that proofs can use.
f ?? g == [x \in DOMAIN f \cup DOMAIN g |-> IF x \in DOMAIN f THEN f[x] ELSE g[x]]

Present(f) == [c \in {x \in DOMAIN f : f[x] # Nil} |-> f[c]]

\* A row as an entity: NULL leaves the zero value, except where the field is a pointer.
Node(E, row) ==
  [c \in Schema[E].assigned |->
     IF row[c] = Nil /\ c \notin Schema[E].nillable THEN Zero ELSE row[c]]

RowOf(E, written) ==
  [c \in Schema[E].columns \cup Schema[E].foreignKeys |->
     (written ?? Schema[E].databaseDefaults ?? [x \in {c} |-> Nil])[c]]

\* The row enters the table if the migration allows it; told is whether the client says so truly.
Insert(db, E, row, told) ==
  LET code == Schema[E]
      missing == \E c \in code.notNull : row[c] = Nil
      taken == \E key \in code.unique, i \in DOMAIN db.rows[E] :
                 \A c \in key : db.rows[E][i][c] = row[c]
      dangling == \E c \in DOMAIN code.references :
                    row[c] \notin DOMAIN db.rows[code.references[c]] \cup {Nil}
  IN  IF missing \/ taken \/ dangling
      THEN [db EXCEPT !.failed = TRUE, !.kept = @ /\ told /\ ~missing]
      ELSE [db EXCEPT !.rows[E] = ([i \in {db.next[E]} |-> row] ?? @), !.next[E] = @ + 1,
                      !.kept = @ /\ told]

\* Save of a create builder: defaults, check, and the columns createSpec writes.  What the
\* mutation reports must reach the row, and the entity handed back must read like the row.
Create(db, s) ==
  LET code == Schema[s.of]
      mutation == s.set ?? code.createDefaults
      written == [c \in DOMAIN mutation \cap code.inserted |-> mutation[c]]
                 ?? [c \in DOMAIN code.insertedEdges |-> s.links[code.insertedEdges[c]]]
      row == RowOf(s.of, written)
      node == [c \in code.columns |->
                 IF c \in DOMAIN written THEN written[c]
                 ELSE IF c \in code.nillable THEN Nil ELSE Zero]
      told == /\ DOMAIN mutation \subseteq code.settable \cap code.fields
              /\ \A c \in DOMAIN mutation : node[c] = mutation[c]
              /\ node = Node(s.of, row)
  IN  IF /\ code.required \subseteq DOMAIN mutation
         /\ code.requiredEdges \subseteq DOMAIN s.links
         /\ \A c \in code.notEmpty \cap DOMAIN mutation : mutation[c] # Zero
      THEN Insert(db, s.of, row, told)
      ELSE [db EXCEPT !.failed = TRUE]

\* A raw INSERT names its columns and has no default but the database's.
InsertRaw(db, E, written) == Insert(db, E, RowOf(E, written), DOMAIN written \subseteq Schema[E].columns)

\* Save of an update builder over some rows: it sets, adds to NULL as to zero, and stamps the
\* columns that have an update default.
Update(db, s, writes) ==
  LET code == Schema[s.of]
      mutation == s.set ?? [c \in code.updateDefaults |-> Now]
      Changed(row) ==
        [c \in DOMAIN row |->
           IF c \in DOMAIN mutation \cap writes THEN mutation[c]
           ELSE IF c \in DOMAIN s.add \cap writes
                THEN s.add[c] + (IF row[c] = Nil THEN Zero ELSE row[c])
                ELSE row[c]]
  IN  IF \E c \in code.notEmpty \cap DOMAIN mutation : mutation[c] = Zero
      THEN [db EXCEPT !.failed = TRUE]
      ELSE [db EXCEPT
              !.rows[s.of] = [i \in DOMAIN @ |-> IF i \in s.ids THEN Changed(@[i]) ELSE @[i]],
              !.kept = /\ @
                       /\ DOMAIN mutation \subseteq writes \cap code.fields
                       /\ DOMAIN s.add \subseteq writes \cap code.addedFields]

\* The builder of one row fails where the row is gone.
UpdateOne(db, s) ==
  IF s.ids \subseteq DOMAIN db.rows[s.of] THEN Update(db, s, Schema[s.of].updatedOne)
  ELSE [db EXCEPT !.failed = TRUE]

\* A foreign key takes no action of its own: a row that is referred to cannot go.
Delete(db, s) ==
  IF \E F \in Entities : \E c \in DOMAIN Schema[F].references :
       Schema[F].references[c] = s.of /\ \E i \in DOMAIN db.rows[F] : db.rows[F][i][c] \in s.ids
  THEN [db EXCEPT !.failed = TRUE, !.kept = FALSE]
  ELSE [db EXCEPT !.rows[s.of] = [i \in DOMAIN @ \ s.ids |-> @[i]]]

\* A user by name: a blank name is skipped, a known one is not created again.
EnsureUser(db, s) ==
  IF s.set.name = Zero \/ \E i \in DOMAIN db.rows.User : db.rows.User[i].name = s.set.name THEN db
  ELSE Create(db, s)

\* The columns named by the INSERT that requests an analysis, and by the one that queues it.
RequestedColumns ==
  {"game_id", "file_hash", "bucket_key", "analyzer_version", "status", "attempt_count", "priority",
   "requested_at", "next_retry_at", "quality_report_json", "summary_json", "analysis_phase_json",
   "analysis_events_json", "analysis_timeseries_json", "artifact_manifest_json", "created_at",
   "updated_at"}
QueuedColumns == RequestedColumns \cup {"artifact_result_dir"}

AnalysisValues(columns, s) ==
  [c \in columns |->
     CASE c = "game_id" -> s.game
       [] c = "file_hash" -> s.hash
       [] c = "analyzer_version" -> s.version
       [] c \in {"requested_at", "next_retry_at", "created_at", "updated_at"} -> Now
       [] c \in {"bucket_key", "status"} -> Some
       [] c = "artifact_result_dir" -> Nil
       [] OTHER -> Zero]

Analyses(db, s) == {i \in DOMAIN db.rows.GameAnalysis : db.rows.GameAnalysis[i].game_id = s.game}

\* The upsert: a row of the same recording by another version starts again, any other stays.
QueueAnalysis(db, s) ==
  LET Restarted(row) ==
        IF row.file_hash = s.hash /\ row.analyzer_version # s.version
        THEN [c \in {"started_at", "finished_at", "last_error"} |-> Nil]
             ?? AnalysisValues(QueuedColumns \ {"game_id", "created_at"}, s) ?? row
        ELSE row
  IN  IF Analyses(db, s) = {}
      THEN InsertRaw(db, "GameAnalysis", Present(AnalysisValues(QueuedColumns, s)))
      ELSE [db EXCEPT !.rows.GameAnalysis =
              [i \in DOMAIN @ |-> IF i \in Analyses(db, s) THEN Restarted(@[i]) ELSE @[i]]]

insertQueuedAnalysisRow(db, s) ==
  IF Analyses(db, s) = {} THEN InsertRaw(db, "GameAnalysis", AnalysisValues(RequestedColumns, s)) ELSE db

\* After a failure the rest of a transaction does nothing.
Execute(db, s) ==
  IF db.failed THEN db
  ELSE CASE s.does = "create" -> Create(db, s)
         [] s.does = "update" -> Update(db, s, Schema[s.of].updated)
         [] s.does = "update one" -> UpdateOne(db, s)
         [] s.does = "delete" -> Delete(db, s)
         [] s.does = "insert" -> InsertRaw(db, s.of, s.set)
         [] s.does = "ensure" -> EnsureUser(db, s)
         [] s.does = "queue" -> QueueAnalysis(db, s)
         [] s.does = "request" -> insertQueuedAnalysisRow(db, s)

Creating(E, set, links) == [does |-> "create", of |-> E, set |-> set, links |-> links]
Updating(E, id, set, add) == [does |-> "update one", of |-> E, ids |-> {id}, set |-> set, add |-> add]
UpdatingAll(E, ids, set) == [does |-> "update", of |-> E, ids |-> ids, set |-> set, add |-> <<>>]
Deleting(E, ids) == [does |-> "delete", of |-> E, ids |-> ids]
Inserting(E, set) == [does |-> "insert", of |-> E, set |-> set]
Ensuring(name) == [does |-> "ensure", of |-> "User", set |-> [name |-> name], links |-> <<>>]
Queueing(game, hash, version) == [does |-> "queue", game |-> game, hash |-> hash, version |-> version]
Requesting(game, hash) == [does |-> "request", game |-> game, hash |-> hash, version |-> Some]

\* The rows that an edge, a <<table, column>>, ties to the row id; the rows with a value.
Holding(edge, id) == {i \in DOMAIN tables[edge[1]] : tables[edge[1]][i][edge[2]] = id}
RowsWith(E, column, value) == Holding(<<E, column>>, value)

-----------------------------------------------------------------------------
(***************************************************************************)
(* What the handlers ask of the client.                                    *)
(***************************************************************************)
StoreInit ==
  /\ tables = [E \in Entities |-> <<>>]
  /\ serials = [E \in Entities |-> 1]
  /\ wordKept = TRUE
  /\ upload = NoUpload
  /\ statements = <<>>
  /\ storeRequests = 0

\* The database after a list of statements.
Outcome(list) ==
  LET After[k \in 0 .. Len(list)] ==
        IF k = 0 THEN [rows |-> tables, next |-> serials, kept |-> wordKept, failed |-> FALSE]
        ELSE Execute(After[k - 1], list[k])
  IN  After[Len(list)]

\* Transactions run one after another: each takes effect as a whole or leaves the tables as they
\* were, and an upload whose transaction fails is answered with an error.
RunTransaction ==
  /\ statements # <<>>
  /\ \E db \in {Outcome(statements)} :
       /\ wordKept' = db.kept
       /\ IF db.failed THEN UNCHANGED <<tables, serials>> ELSE tables' = db.rows /\ serials' = db.next
       /\ upload' = IF upload.stage # "adding" THEN upload
                    ELSE IF db.failed THEN NoUpload ELSE [upload EXCEPT !.stage = "season"]
  /\ statements' = <<>>
  /\ UNCHANGED storeRequests

\* The actions below hand a transaction to the database.
Transaction(list) ==
  /\ statements = <<>>
  /\ statements' = list
  /\ UNCHANGED <<tables, serials, wordKept>>

Ask ==
  /\ storeRequests < MaxStoreRequests
  /\ storeRequests' = storeRequests + 1

UserOf(name) == CHOOSE i \in DOMAIN tables.User : tables.User[i].name = name

RandomFlag(no) == IF no \in {7, 8} THEN Some ELSE Zero

CreatingFile(u, game, user) ==
  Creating("ReplayFile", [file_hash |-> u.hash, filename |-> Some], [game |-> game, uploader |-> user])

CreatingPlayer(p, no, game) ==
  Creating("Player",
           [name |-> p.name, player_id |-> p.slot, is_random_selected |-> RandomFlag(no)]
           ?? [c \in Schema.Player.columns \ {"created_at"} |-> Some],
           [game |-> game])

CreatingGame(u) ==
  Creating("Game",
           Present([season_label |-> u.label, season_no |-> u.no])
           ?? [host |-> u.host, start_time |-> u.start]
           ?? [c \in {"map_name", "map_width", "map_height", "game_length", "game_type", "game_speed",
                      "title", "player_count", "upload_count", "winner_team"} |-> Some],
           <<>>)

QueueingData(u, game, version) == IF u.data THEN <<Queueing(game, u.hash, version)>> ELSE <<>>

createGameRows(u, user, version) ==
  LET game == serials.Game
  IN  <<CreatingGame(u)>>
      \o [k \in DOMAIN u.players |-> Ensuring(u.players[k].name)]
      \o [k \in DOMAIN u.players |-> CreatingPlayer(u.players[k], u.no, game)]
      \o <<CreatingFile(u, game, user)>>
      \o QueueingData(u, game, version)
      \o (IF u.details = {} THEN <<>>
          ELSE <<Creating("GameDetail", [c \in UNION u.details |-> Some], [game |-> game])>>)

addReplayFileToGame(u, game, user, version) ==
  <<CreatingFile(u, game, user)>> \o QueueingData(u, game, version)
  \o <<Updating("Game", game, <<>>, [upload_count |-> 1])>>

\* The season of a game, and then the random flags of its players.  These are two transactions:
\* the second cannot fail here, and SeasonMeta has what happens between them.
Stamp(game, label, no) ==
  <<Updating("Game", game, Present([season_label |-> label, season_no |-> no]), <<>>)>>
  \o (IF no = Nil THEN <<>>
      ELSE <<UpdatingAll("Player", Holding(Schema.Player.has.game, game),
                         [is_random_selected |-> RandomFlag(no)])>>)

-----------------------------------------------------------------------------
(***************************************************************************)
(* The steps of an upload.                                                 *)
(***************************************************************************)
\* The uploader is found or created, then the recording is looked up by its hash, and the game
\* by host and start where the hash is new; the interleavings of these are those of ReplayIngest.
Search ==
  /\ Ask
  /\ upload.stage = "idle"
  /\ \E u \in StoredUploads, name \in Uploaders :
       LET files == RowsWith("ReplayFile", "file_hash", u.hash)
           games == RowsWith("Game", "host", u.host) \cap RowsWith("Game", "start_time", u.start)
           read == [u |-> u, name |-> name]
       IN  /\ Transaction(<<Ensuring(name)>>)
           /\ \/ \E file \in files :
                   LET edge == Schema.ReplayFile.loads.game
                   IN  upload' = [stage |-> "game", game |-> tables[edge[1]][file][edge[2]]] ?? read
              \/ /\ files = {}
                 /\ \E game \in games : upload' = [stage |-> "players", game |-> game] ?? read
              \/ /\ files = {} /\ games = {}
                 /\ upload' = [stage |-> "create"] ?? read

\* The game of the recording: gone by now, the upload is answered with an error.
LoadGame ==
  /\ upload.stage = "game"
  /\ Transaction(<<>>)
  /\ upload' = IF upload.game \in DOMAIN tables.Game THEN [upload EXCEPT !.stage = "players"] ELSE NoUpload
  /\ UNCHANGED storeRequests

LoadPlayers ==
  /\ upload.stage = "players"
  /\ Transaction(<<>>)
  /\ upload' = [players |-> Holding(Schema.Game.loads.players, upload.game), stage |-> "add"] ?? upload
  /\ UNCHANGED storeRequests

\* A recording of a new game, which its uploader must have played.
StoreGame ==
  /\ upload.stage = "create"
  /\ \E version \in {Some, 2} :
       Transaction(IF \E p \in Range(upload.u.players) : p.name = upload.name
                   THEN createGameRows(upload.u, UserOf(upload.name), version) ELSE <<>>)
  /\ upload' = NoUpload
  /\ UNCHANGED storeRequests

\* Another recording of a game: the uploader's first one of it is added.
StoreFile ==
  /\ upload.stage = "add"
  /\ LET user == UserOf(upload.name)
         already == Holding(Schema.ReplayFile.has.game, upload.game)
                    \cap Holding(Schema.ReplayFile.has.uploader, user) # {}
     IN \E version \in {Some, 2} :
          /\ Transaction(IF already THEN <<>> ELSE addReplayFileToGame(upload.u, upload.game, user, version))
          /\ upload' = [upload EXCEPT !.stage = IF already THEN "season" ELSE "adding"]
  /\ UNCHANGED storeRequests

applySeasonToGame ==
  /\ upload.stage = "season"
  /\ Transaction(IF upload.u.label = Nil /\ upload.u.no = Nil THEN <<>>
                 ELSE Stamp(upload.game, upload.u.label, upload.u.no))
  /\ upload' = NoUpload
  /\ UNCHANGED storeRequests

-----------------------------------------------------------------------------
(***************************************************************************)
(* The other requests and the jobs.                                        *)
(***************************************************************************)
SetGameSeason ==
  /\ Ask
  /\ \E game \in DOMAIN tables.Game, no \in {Nil, 7, 9} : Transaction(Stamp(game, Some, no))
  /\ UNCHANGED upload

setCurrentSeason ==
  /\ Ask
  /\ \E value \in {Some, 2} :
       LET row == RowsWith("AppSetting", "key", Some)
       IN  Transaction(<<IF row = {} THEN Creating("AppSetting", [key |-> Some, value |-> value], <<>>)
                         ELSE Updating("AppSetting", CHOOSE i \in row : TRUE, [value |-> value], <<>>)>>)
  /\ UNCHANGED upload

\* The request names a game it read earlier, and a recording of it; the game may be gone.
RequestAnalysis ==
  /\ Ask
  /\ \E game \in 1 .. serials.Game - 1 :
       LET files == Holding(Schema.Game.loads.replay_files, game)
       IN \E hash \in IF game \in DOMAIN tables.Game THEN {tables.ReplayFile[i].file_hash : i \in files}
                      ELSE {u.hash : u \in StoredUploads} :
            Transaction(<<Requesting(game, hash)>>)
  /\ UNCHANGED upload

\* The columns named by the INSERTs of the snapshot jobs.
SnapshotColumns ==
  [Ranking3v3 |-> {"name", "rank", "games", "wins", "losses", "draws", "win_rate", "avg_apm",
                   "avg_eapm", "min_games", "computed_at", "created_at", "updated_at"},
   AnalyzerRaceMatchup |-> {"team_size", "team_a", "team_b", "matchup_key", "games", "team_a_wins",
                            "team_b_wins", "team_a_win_rate", "team_b_win_rate", "computed_at",
                            "created_at", "updated_at"}]

BuildSnapshot ==
  /\ Ask
  /\ \E E \in DOMAIN SnapshotColumns :
       Transaction(<<Deleting(E, DOMAIN tables[E]), Inserting(E, [c \in SnapshotColumns[E] |-> Some])>>)
  /\ UNCHANGED upload

\* The tables whose rows go before the row of the game does.
AnalysesStay == <<"Player", "ReplayFile", "GameDetail">>
DeletedWithGame == <<"Player", "ReplayFile", "GameAnalysis", "GameDetail">>

DeleteGameRows ==
  /\ Ask
  /\ \E game \in DOMAIN tables.Game :
       LET edges == Range(Schema.Game.loads)
           Children(E) == UNION {Holding(edge, game) : edge \in {x \in edges : x[1] = E}}
           Cascade(E) == Deleting(E, Children(E))
       IN  Transaction([k \in DOMAIN DeletedWithGame |-> Cascade(DeletedWithGame[k])]
                       \o <<Deleting("Game", {game})>>)
  /\ UNCHANGED upload

StoreNext ==
  \/ RunTransaction \/ Search \/ LoadGame \/ LoadPlayers \/ StoreGame \/ StoreFile \/ applySeasonToGame
  \/ SetGameSeason \/ setCurrentSeason \/ RequestAnalysis \/ BuildSnapshot \/ DeleteGameRows

StoreSpec == StoreInit /\ [][StoreNext]_storeVars

-----------------------------------------------------------------------------
\* Every row satisfies the migration, whichever way it was written.
RowsWhole ==
  \A E \in Entities :
    LET code == Schema[E]
        rows == tables[E]
    IN  /\ \A i \in DOMAIN rows :
             /\ \A c \in code.notNull : rows[i][c] # Nil
             /\ \A c \in DOMAIN code.references : rows[i][c] \in DOMAIN tables[code.references[c]]
        /\ \A i, j \in DOMAIN rows, key \in code.unique :
             i # j => \E c \in key : rows[i][c] # rows[j][c]

\* The players an upload read with a game are the players of that game: all of them, unless the
\* game has been deleted since.
UploadSeesOneGame ==
  upload.stage \in {"add", "adding", "season"} =>
    IF upload.game \in DOMAIN tables.Game
    THEN upload.players = Holding(Schema.Game.loads.players, upload.game)
    ELSE upload.players \cap DOMAIN tables.Player = {}

KindOf ==
  [string |-> "text", time |-> "time", json |-> "json", bool |-> "boolean", float64 |-> "float",
   int |-> "integer", int32 |-> "integer", uint8 |-> "integer", uint16 |-> "integer",
   uint32 |-> "integer"]

\* The files generated for an entity speak of the same columns, with the same types, and no
\* builder can set to NULL or leave NULL what the migration forbids.
FilesAgree ==
  \A E \in Entities :
    LET code == Schema[E]
        linked == DOMAIN code.insertedEdges
    IN  /\ DOMAIN code.typed = code.columns /\ code.settable = code.columns
        /\ code.assigned = code.columns /\ code.fields = code.columns
        /\ \A c \in code.columns : c \in code.scanned[KindOf[code.typed[c]]]
        /\ \A c \in code.foreignKeys : c \in code.scanned.integer
        /\ code.foreignKeys \subseteq linked /\ linked \subseteq DOMAIN code.references
        /\ code.notNull \subseteq code.required \cup linked
        /\ code.inserted \cup linked = code.columns \cup code.foreignKeys
        /\ code.updated = code.updatedOne /\ code.offered = code.offeredOne
        /\ code.updated = code.inserted \ {"created_at"}
        /\ code.updateDefaults \subseteq code.updated
        /\ code.clearedFields \cap code.notNull = {}
        /\ code.addedFields \cup code.clearedFields \subseteq code.updated
        /\ DOMAIN code.loads = code.edges /\ code.reaches = code.loads /\ code.has = code.loads

\* The generated client and the raw statements beside it keep their word: each statement writes
\* what its mutation reports and reads back what it wrote, none is refused for a column it
\* forgot or a child it left behind, the rows satisfy the migration, and an upload that reads a
\* game in several statements sees one game.
ClientKeepsItsWord == wordKept /\ RowsWhole /\ UploadSeesOneGame /\ FilesAgree
=============================================================================
