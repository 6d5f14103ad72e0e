------------------------ MODULE EntAnalyzerRaceMatchup ------------------------
(***************************************************************************)
(* The generated code of the AnalyzerRaceMatchup entity: what each of its  *)
(* files says about the columns of its table. EntStore gives these         *)
(* definitions their meaning.                                              *)
(***************************************************************************)
EXTENDS EntTypes

\* The columns of a query, and the foreign keys a query adds when it loads an edge.
Columns == {"team_size", "team_a", "team_b", "matchup_key", "games", "team_a_wins", "team_b_wins",
            "team_a_win_rate", "team_b_win_rate", "computed_at", "created_at", "updated_at"}
ForeignKeys == {}

\* The table the migration creates.
NotNull == Columns
Unique == {{"team_size", "team_a", "team_b"}}
References == <<>>
DatabaseDefaults == [team_size |-> Zero, games |-> Zero, team_a_wins |-> Zero,
                     team_b_wins |-> Zero, team_a_win_rate |-> Zero, team_b_win_rate |-> Zero]

\* The create builder: its setters, defaults(), check() and createSpec().
Settable == Columns
CreateDefaults == [team_size |-> Zero, games |-> Zero, team_a_wins |-> Zero, team_b_wins |-> Zero,
                   team_a_win_rate |-> Zero, team_b_win_rate |-> Zero, computed_at |-> Now,
                   created_at |-> Now, updated_at |-> Now]
Required == Columns
RequiredEdges == {}
NotEmpty == {"team_a", "team_b", "matchup_key"}
Inserted == Columns
InsertedEdges == <<>>

\* The update builders: what they offer, defaults() and check(), and what each sqlSave() writes.
Offered == Columns \ {"created_at"}
OfferedOne == Columns \ {"created_at"}
UpdateDefaults == {"updated_at"}
Updated == Columns \ {"created_at"}
UpdatedOne == Columns \ {"created_at"}

\* What the mutation reports to hooks: the fields set, added to and cleared, and the edges.
Fields == Columns
AddedFields == {"team_size", "games", "team_a_wins", "team_b_wins", "team_a_win_rate",
                "team_b_win_rate"}
ClearedFields == {}
Edges == {}

\* The type a setter by name demands, and the type a column is scanned into.
Typed == [team_size |-> "int", team_a |-> "string", team_b |-> "string", matchup_key |-> "string",
          games |-> "int", team_a_wins |-> "int", team_b_wins |-> "int",
          team_a_win_rate |-> "float64", team_b_win_rate |-> "float64", computed_at |-> "time",
          created_at |-> "time", updated_at |-> "time"]
Scanned == [float |-> {"team_a_win_rate", "team_b_win_rate"},
            integer |-> {"team_size", "games", "team_a_wins", "team_b_wins"},
            text |-> {"team_a", "team_b", "matchup_key"},
            time |-> {"computed_at", "created_at", "updated_at"}]
Assigned == Columns
Nillable == {}

\* It has no edges.
Loads == <<>>
Reaches == <<>>
Has == <<>>

Entity ==
  [columns |-> Columns, foreignKeys |-> ForeignKeys, notNull |-> NotNull, unique |-> Unique,
   references |-> References, databaseDefaults |-> DatabaseDefaults, settable |-> Settable,
   createDefaults |-> CreateDefaults, required |-> Required, requiredEdges |-> RequiredEdges,
   notEmpty |-> NotEmpty, inserted |-> Inserted, insertedEdges |-> InsertedEdges,
   offered |-> Offered, offeredOne |-> OfferedOne, updateDefaults |-> UpdateDefaults,
   updated |-> Updated, updatedOne |-> UpdatedOne, fields |-> Fields, addedFields |-> AddedFields,
   clearedFields |-> ClearedFields, edges |-> Edges, typed |-> Typed, scanned |-> Scanned,
   assigned |-> Assigned, nillable |-> Nillable, loads |-> Loads, reaches |-> Reaches,
   has |-> Has]
=============================================================================
