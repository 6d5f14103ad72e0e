------------------------------- MODULE EntUser -------------------------------
(***************************************************************************)
(* The generated code of the User entity: what each of its files says      *)
(* about the columns of its table. EntStore gives these definitions their  *)
(* meaning.                                                                *)
(***************************************************************************)
EXTENDS EntTypes

\* The columns of a query, and the foreign keys a query adds when it loads an edge.
Columns == {"name", "total_games", "wins", "losses", "draws", "average_apm", "average_eapm",
            "created_at", "updated_at"}
ForeignKeys == {}

\* The table the migration creates.
NotNull == Columns
Unique == {{"name"}}
References == <<>>
DatabaseDefaults == [total_games |-> Zero, wins |-> Zero, losses |-> Zero, draws |-> Zero,
                     average_apm |-> Zero, average_eapm |-> Zero]

\* The create builder: its setters, defaults(), check() and createSpec().
Settable == Columns
CreateDefaults == [total_games |-> Zero, wins |-> Zero, losses |-> Zero, draws |-> Zero,
                   average_apm |-> Zero, average_eapm |-> Zero, created_at |-> Now,
                   updated_at |-> Now]
Required == Columns
RequiredEdges == {}
NotEmpty == {"name"}
Inserted == Columns
InsertedEdges == <<>>

\* The update builders: what they offer, defaults() and check(), and what each sqlSave() writes.
Offered == Columns \ {"created_at"}
OfferedOne == Columns \ {"created_at"}
UpdateDefaults == {"updated_at"}
Updated == Columns \ {"created_at"}
UpdatedOne == Columns \ {"created_at"}

\* What the mutation reports to hooks: the fields set, added to and cleared, and the edges.
Fields == Columns
AddedFields == Columns \ {"name", "created_at", "updated_at"}
ClearedFields == {}
Edges == {"uploaded_replay_files"}

\* The type a setter by name demands, and the type a column is scanned into.
Typed == [name |-> "string", total_games |-> "int", wins |-> "int", losses |-> "int",
          draws |-> "int", average_apm |-> "float64", average_eapm |-> "float64",
          created_at |-> "time", updated_at |-> "time"]
Scanned == [float |-> {"average_apm", "average_eapm"},
            integer |-> {"total_games", "wins", "losses", "draws"},
            text |-> {"name"},
            time |-> {"created_at", "updated_at"}]
Assigned == Columns
Nillable == {}

\* The edges a query loads with its rows, those a query starts from, and those a predicate follows:
\* each over the table and the column that hold its key.
Loads == [uploaded_replay_files |-> <<"ReplayFile", "user_uploaded_replay_files">>]
Reaches == [uploaded_replay_files |-> <<"ReplayFile", "user_uploaded_replay_files">>]
Has == [uploaded_replay_files |-> <<"ReplayFile", "user_uploaded_replay_files">>]

Entity ==
  [columns |-> Columns, foreignKeys |-> ForeignKeys, notNull |-> NotNull, unique |-> Unique,
   references |-> References, databaseDefaults |-> DatabaseDefaults, settable |-> Settable,
   createDefaults |-> CreateDefaults, required |-> Required, requiredEdges |-> RequiredEdges,
   notEmpty |-> NotEmpty, inserted |-> Inserted, insertedEdges |-> InsertedEdges,
   offered |-> Offered, offeredOne |-> OfferedOne, updateDefaults |-> UpdateDefaults,
   updated |-> Updated, updatedOne |-> UpdatedOne, fields |-> Fields, addedFields |-> AddedFields,
   clearedFields |-> ClearedFields, edges |-> Edges, typed |-> Typed, scanned |-> Scanned,
   assigned |-> Assigned, nillable |-> Nillable, loads |-> Loads, reaches |-> Reaches,
   has |-> Has]
=============================================================================
