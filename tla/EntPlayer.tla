------------------------------ MODULE EntPlayer ------------------------------
(***************************************************************************)
(* The generated code of the Player entity: what each of its files says    *)
(* about the columns of its table. EntStore gives these definitions their  *)
(* meaning.                                                                *)
(***************************************************************************)
EXTENDS EntTypes

\* The columns of a query, and the foreign keys a query adds when it loads an edge.
Columns == {"name", "race", "team", "color", "player_id", "apm", "eapm", "cmd_count",
            "effective_cmd_count", "start_location_x", "start_location_y", "start_direction",
            "redundancy", "is_winner", "is_random_selected", "result", "created_at"}
ForeignKeys == {"game_players"}

\* The table the migration creates.
NotNull == {"name", "race", "team", "player_id", "is_winner", "is_random_selected", "result",
            "created_at", "game_players"}
Unique == {{"player_id", "game_players"}}
References == [game_players |-> "Game"]
DatabaseDefaults == [is_winner |-> Zero, is_random_selected |-> Zero, result |-> Some]

\* The create builder: its setters, defaults(), check() and createSpec().
Settable == Columns
CreateDefaults == [is_winner |-> Zero, is_random_selected |-> Zero, result |-> Some,
                   created_at |-> Now]
Required == {"name", "race", "team", "player_id", "is_winner", "is_random_selected", "result",
             "created_at"}
RequiredEdges == {"game"}
NotEmpty == {"name", "race"}
Inserted == Columns
InsertedEdges == [game_players |-> "game"]

\* The update builders: what they offer, defaults() and check(), and what each sqlSave() writes.
Offered == Columns \ {"created_at"}
OfferedOne == Columns \ {"created_at"}
UpdateDefaults == {}
Updated == Columns \ {"created_at"}
UpdatedOne == Columns \ {"created_at"}

\* What the mutation reports to hooks: the fields set, added to and cleared, and the edges.
Fields == Columns
AddedFields == {"team", "player_id", "apm", "eapm", "cmd_count", "effective_cmd_count",
                "start_location_x", "start_location_y", "start_direction", "redundancy"}
ClearedFields == {"color", "apm", "eapm", "cmd_count", "effective_cmd_count", "start_location_x",
                  "start_location_y", "start_direction", "redundancy"}
Edges == {"game"}

\* The type a setter by name demands, and the type a column is scanned into.
Typed == [name |-> "string", race |-> "string", team |-> "uint8", color |-> "string",
          player_id |-> "uint8", apm |-> "int32", eapm |-> "int32", cmd_count |-> "uint32",
          effective_cmd_count |-> "uint32", start_location_x |-> "uint16",
          start_location_y |-> "uint16", start_direction |-> "int32", redundancy |-> "int",
          is_winner |-> "bool", is_random_selected |-> "bool", result |-> "string",
          created_at |-> "time"]
Scanned == [boolean |-> {"is_winner", "is_random_selected"},
            integer |-> {"team", "player_id", "apm", "eapm", "cmd_count", "effective_cmd_count",
                         "start_location_x", "start_location_y", "start_direction", "redundancy",
                         "game_players"},
            text |-> {"name", "race", "color", "result"},
            time |-> {"created_at"}]
Assigned == Columns
Nillable == {}

\* The edges a query loads with its rows, those a query starts from, and those a predicate follows:
\* each over the table and the column that hold its key.
Loads == [game |-> <<"Player", "game_players">>]
Reaches == [game |-> <<"Player", "game_players">>]
Has == [game |-> <<"Player", "game_players">>]

Entity ==
  [columns |-> Columns, foreignKeys |-> ForeignKeys, notNull |-> NotNull, unique |-> Unique,
   references |-> References, databaseDefaults |-> DatabaseDefaults, settable |-> Settable,
   createDefaults |-> CreateDefaults, required |-> Required, requiredEdges |-> RequiredEdges,
   notEmpty |-> NotEmpty, inserted |-> Inserted, insertedEdges |-> InsertedEdges,
   offered |-> Offered, offeredOne |-> OfferedOne, updateDefaults |-> UpdateDefaults,
   updated |-> Updated, updatedOne |-> UpdatedOne, fields |-> Fields, addedFields |-> AddedFields,
   clearedFields |-> ClearedFields, edges |-> Edges, typed |-> Typed, scanned |-> Scanned,
   assigned |-> Assigned, nillable |-> Nillable, loads |-> Loads, reaches |-> Reaches,
   has |-> Has]
=============================================================================
