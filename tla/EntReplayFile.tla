---------------------------- MODULE EntReplayFile ----------------------------
(***************************************************************************)
(* The generated code of the ReplayFile entity: what each of its files     *)
(* says about the columns of its table. EntStore gives these definitions   *)
(* their meaning.                                                          *)
(***************************************************************************)
EXTENDS EntTypes

\* The columns of a query, and the foreign keys a query adds when it loads an edge.
Columns == {"file_hash", "filename", "created_at"}
ForeignKeys == {"game_replay_files", "user_uploaded_replay_files"}

\* The table the migration creates.
NotNull == (Columns \cup ForeignKeys)
Unique == {{"game_replay_files", "user_uploaded_replay_files"}}
References == [game_replay_files |-> "Game", user_uploaded_replay_files |-> "User"]
DatabaseDefaults == <<>>

\* The create builder: its setters, defaults(), check() and createSpec().
Settable == Columns
CreateDefaults == [created_at |-> Now]
Required == Columns
RequiredEdges == {"game", "uploader"}
NotEmpty == {"file_hash", "filename"}
Inserted == Columns
InsertedEdges == [game_replay_files |-> "game", user_uploaded_replay_files |-> "uploader"]

\* The update builders: what they offer, defaults() and check(), and what each sqlSave() writes.
Offered == {"file_hash", "filename"}
OfferedOne == {"file_hash", "filename"}
UpdateDefaults == {}
Updated == {"file_hash", "filename"}
UpdatedOne == {"file_hash", "filename"}

\* What the mutation reports to hooks: the fields set, added to and cleared, and the edges.
Fields == Columns
AddedFields == {}
ClearedFields == {}
Edges == {"game", "uploader"}

\* The type a setter by name demands, and the type a column is scanned into.
Typed == [file_hash |-> "string", filename |-> "string", created_at |-> "time"]
Scanned == [text |-> {"file_hash", "filename"},
            time |-> {"created_at"},
            integer |-> {"game_replay_files", "user_uploaded_replay_files"}]
Assigned == Columns
Nillable == {}

\* The edges a query loads with its rows, those a query starts from, and those a predicate follows:
\* each over the table and the column that hold its key.
Loads == [game |-> <<"ReplayFile", "game_replay_files">>,
          uploader |-> <<"ReplayFile", "user_uploaded_replay_files">>]
Reaches == [game |-> <<"ReplayFile", "game_replay_files">>,
            uploader |-> <<"ReplayFile", "user_uploaded_replay_files">>]
Has == [game |-> <<"ReplayFile", "game_replay_files">>,
        uploader |-> <<"ReplayFile", "user_uploaded_replay_files">>]

Entity ==
  [columns |-> Columns, foreignKeys |-> ForeignKeys, notNull |-> NotNull, unique |-> Unique,
   references |-> References, databaseDefaults |-> DatabaseDefaults, settable |-> Settable,
   createDefaults |-> CreateDefaults, required |-> Required, requiredEdges |-> RequiredEdges,
   notEmpty |-> NotEmpty, inserted |-> Inserted, insertedEdges |-> InsertedEdges,
   offered |-> Offered, offeredOne |-> OfferedOne, updateDefaults |-> UpdateDefaults,
   updated |-> Updated, updatedOne |-> UpdatedOne, fields |-> Fields, addedFields |-> AddedFields,
   clearedFields |-> ClearedFields, edges |-> Edges, typed |-> Typed, scanned |-> Scanned,
   assigned |-> Assigned, nillable |-> Nillable, loads |-> Loads, reaches |-> Reaches,
   has |-> Has]
=============================================================================
