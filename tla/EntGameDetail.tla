---------------------------- MODULE EntGameDetail ----------------------------
(***************************************************************************)
(* The generated code of the GameDetail entity: what each of its files     *)
(* says about the columns of its table. EntStore gives these definitions   *)
(* their meaning.                                                          *)
(***************************************************************************)
EXTENDS EntTypes

\* The columns of a query, and the foreign keys a query adds when it loads an edge.
Columns == {"apm_timeline", "build_orders", "compressed_build_orders", "chat_messages"}
ForeignKeys == {"game_game_detail"}

\* The table the migration creates.
NotNull == {"game_game_detail"}
Unique == {{"game_game_detail"}}
References == [game_game_detail |-> "Game"]
DatabaseDefaults == <<>>

\* The create builder: its setters, defaults(), check() and createSpec().
Settable == Columns
CreateDefaults == <<>>
Required == {}
RequiredEdges == {"game"}
NotEmpty == {}
Inserted == Columns
InsertedEdges == [game_game_detail |-> "game"]

\* The update builders: what they offer, defaults() and check(), and what each sqlSave() writes.
Offered == Columns
OfferedOne == Columns
UpdateDefaults == {}
Updated == Columns
UpdatedOne == Columns

\* What the mutation reports to hooks: the fields set, added to and cleared, and the edges.
Fields == Columns
AddedFields == {}
ClearedFields == Columns
Edges == {"game"}

\* The type a setter by name demands, and the type a column is scanned into.
Typed == [apm_timeline |-> "json", build_orders |-> "json", compressed_build_orders |-> "json",
          chat_messages |-> "json"]
Scanned == [json |-> {"apm_timeline", "build_orders", "compressed_build_orders", "chat_messages"},
            integer |-> {"game_game_detail"}]
Assigned == Columns
Nillable == {}

\* The edges a query loads with its rows, those a query starts from, and those a predicate follows:
\* each over the table and the column that hold its key.
Loads == [game |-> <<"GameDetail", "game_game_detail">>]
Reaches == [game |-> <<"GameDetail", "game_game_detail">>]
Has == [game |-> <<"GameDetail", "game_game_detail">>]

Entity ==
  [columns |-> Columns, foreignKeys |-> ForeignKeys, notNull |-> NotNull, unique |-> Unique,
   references |-> References, databaseDefaults |-> DatabaseDefaults, settable |-> Settable,
   createDefaults |-> CreateDefaults, required |-> Required, requiredEdges |-> RequiredEdges,
   notEmpty |-> NotEmpty, inserted |-> Inserted, insertedEdges |-> InsertedEdges,
   offered |-> Offered, offeredOne |-> OfferedOne, updateDefaults |-> UpdateDefaults,
   updated |-> Updated, updatedOne |-> UpdatedOne, fields |-> Fields, addedFields |-> AddedFields,
   clearedFields |-> ClearedFields, edges |-> Edges, typed |-> Typed, scanned |-> Scanned,
   assigned |-> Assigned, nillable |-> Nillable, loads |-> Loads, reaches |-> Reaches,
   has |-> Has]
=============================================================================
