---------------------------- MODULE EntRanking3v3 ----------------------------
(***************************************************************************)
(* The generated code of the Ranking3v3 entity: what each of its files     *)
(* says about the columns of its table. EntStore gives these definitions   *)
(* their meaning.                                                          *)
(***************************************************************************)
EXTENDS EntTypes

\* The columns of a query, and the foreign keys a query adds when it loads an edge.
Columns == {"name", "rank", "games", "wins", "losses", "draws", "win_rate", "avg_apm", "avg_eapm",
            "min_games", "computed_at", "created_at", "updated_at"}
ForeignKeys == {}

\* The table the migration creates.
NotNull == Columns
Unique == {{"name"}}
References == <<>>
DatabaseDefaults == [rank |-> Zero, games |-> Zero, wins |-> Zero, losses |-> Zero,
                     draws |-> Zero, win_rate |-> Zero, avg_apm |-> Zero, avg_eapm |-> Zero,
                     min_games |-> 20]

\* The create builder: its setters, defaults(), check() and createSpec().
Settable == Columns
CreateDefaults == [rank |-> Zero, games |-> Zero, wins |-> Zero, losses |-> Zero, draws |-> Zero,
                   win_rate |-> Zero, avg_apm |-> Zero, avg_eapm |-> Zero, min_games |-> 20,
                   computed_at |-> Now, created_at |-> Now, updated_at |-> Now]
Required == Columns
RequiredEdges == {}
NotEmpty == {"name"}
Inserted == Columns
InsertedEdges == <<>>

\* The update builders: what they offer, defaults() and check(), and what each sqlSave() writes.
Offered == Columns \ {"created_at"}
OfferedOne == Columns \ {"created_at"}
UpdateDefaults == {"updated_at"}
Updated == Columns \ {"created_at"}
UpdatedOne == Columns \ {"created_at"}

\* What the mutation reports to hooks: the fields set, added to and cleared, and the edges.
Fields == Columns
AddedFields == {"rank", "games", "wins", "losses", "draws", "win_rate", "avg_apm", "avg_eapm",
                "min_games"}
ClearedFields == {}
Edges == {}

\* The type a setter by name demands, and the type a column is scanned into.
Typed == [name |-> "string", rank |-> "int", games |-> "int", wins |-> "int", losses |-> "int",
          draws |-> "int", win_rate |-> "float64", avg_apm |-> "float64", avg_eapm |-> "float64",
          min_games |-> "int", computed_at |-> "time", created_at |-> "time",
          updated_at |-> "time"]
Scanned == [float |-> {"win_rate", "avg_apm", "avg_eapm"},
            integer |-> {"rank", "games", "wins", "losses", "draws", "min_games"},
            text |-> {"name"},
            time |-> {"computed_at", "created_at", "updated_at"}]
Assigned == Columns
Nillable == {}

\* It has no edges.
Loads == <<>>
Reaches == <<>>
Has == <<>>

Entity ==
  [columns |-> Columns, foreignKeys |-> ForeignKeys, notNull |-> NotNull, unique |-> Unique,
   references |-> References, databaseDefaults |-> DatabaseDefaults, settable |-> Settable,
   createDefaults |-> CreateDefaults, required |-> Required, requiredEdges |-> RequiredEdges,
   notEmpty |-> NotEmpty, inserted |-> Inserted, insertedEdges |-> InsertedEdges,
   offered |-> Offered, offeredOne |-> OfferedOne, updateDefaults |-> UpdateDefaults,
   updated |-> Updated, updatedOne |-> UpdatedOne, fields |-> Fields, addedFields |-> AddedFields,
   clearedFields |-> ClearedFields, edges |-> Edges, typed |-> Typed, scanned |-> Scanned,
   assigned |-> Assigned, nillable |-> Nillable, loads |-> Loads, reaches |-> Reaches,
   has |-> Has]
=============================================================================
