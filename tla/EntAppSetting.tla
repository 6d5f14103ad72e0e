---------------------------- MODULE EntAppSetting ----------------------------
(***************************************************************************)
(* The generated code of the AppSetting entity: what each of its files     *)
(* says about the columns of its table. EntStore gives these definitions   *)
(* their meaning.                                                          *)
(***************************************************************************)
EXTENDS EntTypes

\* The columns of a query, and the foreign keys a query adds when it loads an edge.
Columns == {"key", "value", "created_at", "updated_at"}
ForeignKeys == {}

\* The table the migration creates.
NotNull == {"key", "created_at", "updated_at"}
Unique == {{"key"}}
References == <<>>
DatabaseDefaults == <<>>

\* The create builder: its setters, defaults(), check() and createSpec().
Settable == Columns
CreateDefaults == [created_at |-> Now, updated_at |-> Now]
Required == {"key", "created_at", "updated_at"}
RequiredEdges == {}
NotEmpty == {"key"}
Inserted == Columns
InsertedEdges == <<>>

\* The update builders: what they offer, defaults() and check(), and what each sqlSave() writes.
Offered == {"key", "value", "updated_at"}
OfferedOne == {"key", "value", "updated_at"}
UpdateDefaults == {"updated_at"}
Updated == {"key", "value", "updated_at"}
UpdatedOne == {"key", "value", "updated_at"}

\* What the mutation reports to hooks: the fields set, added to and cleared, and the edges.
Fields == Columns
AddedFields == {}
ClearedFields == {"value"}
Edges == {}

\* The type a setter by name demands, and the type a column is scanned into.
Typed == [key |-> "string", value |-> "string", created_at |-> "time", updated_at |-> "time"]
Scanned == [text |-> {"key", "value"},
            time |-> {"created_at", "updated_at"}]
Assigned == Columns
Nillable == {}

\* It has no edges.
Loads == <<>>
Reaches == <<>>
Has == <<>>

Entity ==
  [columns |-> Columns, foreignKeys |-> ForeignKeys, notNull |-> NotNull, unique |-> Unique,
   references |-> References, databaseDefaults |-> DatabaseDefaults, settable |-> Settable,
   createDefaults |-> CreateDefaults, required |-> Required, requiredEdges |-> RequiredEdges,
   notEmpty |-> NotEmpty, inserted |-> Inserted, insertedEdges |-> InsertedEdges,
   offered |-> Offered, offeredOne |-> OfferedOne, updateDefaults |-> UpdateDefaults,
   updated |-> Updated, updatedOne |-> UpdatedOne, fields |-> Fields, addedFields |-> AddedFields,
   clearedFields |-> ClearedFields, edges |-> Edges, typed |-> Typed, scanned |-> Scanned,
   assigned |-> Assigned, nillable |-> Nillable, loads |-> Loads, reaches |-> Reaches,
   has |-> Has]
=============================================================================
