------------------------------- MODULE EntGame -------------------------------
(***************************************************************************)
(* The generated code of the Game entity: what each of its files says      *)
(* about the columns of its table. EntStore gives these definitions their  *)
(* meaning.                                                                *)
(***************************************************************************)
EXTENDS EntTypes

\* The columns of a query, and the foreign keys a query adds when it loads an edge.
Columns == {"host", "start_time", "map_name", "map_width", "map_height", "game_length",
            "game_type", "game_speed", "title", "player_count", "upload_count", "winner_team",
            "season_label", "season_no", "created_at", "updated_at"}
ForeignKeys == {}

\* The table the migration creates.
NotNull == {"host", "start_time", "player_count", "upload_count", "winner_team", "created_at",
            "updated_at"}
Unique == {{"host", "start_time"}}
References == <<>>
DatabaseDefaults == [player_count |-> Zero, upload_count |-> Some, winner_team |-> Zero]

\* The create builder: its setters, defaults(), check() and createSpec().
Settable == Columns
CreateDefaults == [player_count |-> Zero, upload_count |-> Some, winner_team |-> Zero,
                   created_at |-> Now, updated_at |-> Now]
Required == {"host", "start_time", "player_count", "upload_count", "winner_team", "created_at",
             "updated_at"}
RequiredEdges == {}
NotEmpty == {"host"}
Inserted == Columns
InsertedEdges == <<>>

\* The update builders: what they offer, defaults() and check(), and what each sqlSave() writes.
Offered == Columns \ {"created_at"}
OfferedOne == Columns \ {"created_at"}
UpdateDefaults == {"updated_at"}
Updated == Columns \ {"created_at"}
UpdatedOne == Columns \ {"created_at"}

\* What the mutation reports to hooks: the fields set, added to and cleared, and the edges.
Fields == Columns
AddedFields == {"map_width", "map_height", "game_length", "player_count", "upload_count",
                "winner_team", "season_no"}
ClearedFields == {"map_name", "map_width", "map_height", "game_length", "game_type", "game_speed",
                  "title", "season_label", "season_no"}
Edges == {"players", "replay_files", "game_detail", "analysis"}

\* The type a setter by name demands, and the type a column is scanned into.
Typed == [host |-> "string", start_time |-> "time", map_name |-> "string", map_width |-> "uint16",
          map_height |-> "uint16", game_length |-> "int", game_type |-> "string",
          game_speed |-> "string", title |-> "string", player_count |-> "int",
          upload_count |-> "int", winner_team |-> "uint8", season_label |-> "string",
          season_no |-> "int", created_at |-> "time", updated_at |-> "time"]
Scanned == [integer |-> {"map_width", "map_height", "game_length", "player_count", "upload_count",
                         "winner_team", "season_no"},
            text |-> {"host", "map_name", "game_type", "game_speed", "title", "season_label"},
            time |-> {"start_time", "created_at", "updated_at"}]
Assigned == Columns
Nillable == {"season_label", "season_no"}

\* The edges a query loads with its rows, those a query starts from, and those a predicate follows:
\* each over the table and the column that hold its key.
Loads == [players |-> <<"Player", "game_players">>,
          replay_files |-> <<"ReplayFile", "game_replay_files">>,
          game_detail |-> <<"GameDetail", "game_game_detail">>,
          analysis |-> <<"GameAnalysis", "game_id">>]
Reaches == [players |-> <<"Player", "game_players">>,
            replay_files |-> <<"ReplayFile", "game_replay_files">>,
            game_detail |-> <<"GameDetail", "game_game_detail">>,
            analysis |-> <<"GameAnalysis", "game_id">>]
Has == [players |-> <<"Player", "game_players">>,
        replay_files |-> <<"ReplayFile", "game_replay_files">>,
        game_detail |-> <<"GameDetail", "game_game_detail">>,
        analysis |-> <<"GameAnalysis", "game_id">>]

Entity ==
  [columns |-> Columns, foreignKeys |-> ForeignKeys, notNull |-> NotNull, unique |-> Unique,
   references |-> References, databaseDefaults |-> DatabaseDefaults, settable |-> Settable,
   createDefaults |-> CreateDefaults, required |-> Required, requiredEdges |-> RequiredEdges,
   notEmpty |-> NotEmpty, inserted |-> Inserted, insertedEdges |-> InsertedEdges,
   offered |-> Offered, offeredOne |-> OfferedOne, updateDefaults |-> UpdateDefaults,
   updated |-> Updated, updatedOne |-> UpdatedOne, fields |-> Fields, addedFields |-> AddedFields,
   clearedFields |-> ClearedFields, edges |-> Edges, typed |-> Typed, scanned |-> Scanned,
   assigned |-> Assigned, nillable |-> Nillable, loads |-> Loads, reaches |-> Reaches,
   has |-> Has]
=============================================================================
