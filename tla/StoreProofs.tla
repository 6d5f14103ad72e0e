----------------------------- MODULE StoreProofs -----------------------------
(***************************************************************************)
(* Proofs about EntStore, for any recordings, uploaders and number of      *)
(* requests, and for the schema that the generated code has: its files     *)
(* agree, every statement keeps the tables whole and does what the client  *)
(* reports, and an upload sees one game.  A statement is shown to keep the *)
(* tables whole by what it asks of its entity; a transaction by induction  *)
(* over its statements, on the least statement that would not; and the     *)
(* actions by what they hand to the database.                              *)
(***************************************************************************)
EXTENDS EntStore, SequenceTheorems, WellFoundedInduction, TLAPS

-----------------------------------------------------------------------------
(* The generated files of each entity agree. *)

\* The columns of each file.
Named(code) ==
  /\ DOMAIN code.typed = code.columns /\ code.settable = code.columns
  /\ code.assigned = code.columns /\ code.fields = code.columns
  /\ DOMAIN code.loads = code.edges /\ code.reaches = code.loads /\ code.has = code.loads

\* The types of the columns.
Scannable(code) ==
  /\ \A c \in code.columns : c \in code.scanned[KindOf[code.typed[c]]]
  /\ \A c \in code.foreignKeys : c \in code.scanned.integer

\* What the migration demands, against what the create builder writes.
Creatable(code) ==
  LET linked == DOMAIN code.insertedEdges
  IN  /\ code.foreignKeys \subseteq linked /\ linked \subseteq DOMAIN code.references
      /\ code.notNull \subseteq code.required \cup linked
      /\ code.inserted \cup linked = code.columns \cup code.foreignKeys
      /\ code.inserted \subseteq code.columns
      /\ DOMAIN code.references \subseteq code.notNull
      /\ \A c \in DOMAIN code.references : code.references[c] \in {"Game", "User"}
      /\ code.notNull \subseteq code.columns \cup code.foreignKeys
      /\ \A key \in code.unique : key \subseteq code.columns \cup code.foreignKeys

\* The defaults of the migration are among those of the create builder.
Defaulted(code) ==
  /\ DOMAIN code.databaseDefaults \subseteq DOMAIN code.createDefaults
  /\ DOMAIN code.createDefaults \subseteq code.inserted
  /\ \A c \in DOMAIN code.createDefaults : code.createDefaults[c] \in Nat
  /\ \A c \in DOMAIN code.databaseDefaults : code.databaseDefaults[c] \in Nat

\* What the update builders write.
Updatable(code) ==
  /\ code.updated = code.updatedOne /\ code.offered = code.offeredOne
  /\ code.updated = code.inserted \ {"created_at"}
  /\ code.updateDefaults \subseteq code.updated
  /\ code.clearedFields \cap code.notNull = {}
  /\ code.addedFields \cup code.clearedFields \subseteq code.updated

Agrees(code) ==
  /\ Named(code) /\ Scannable(code) /\ Creatable(code) /\ Defaulted(code) /\ Updatable(code)

LEMMA AnalyzerRaceMatchupAgrees == Agrees(MatchupCode!Entity)
<1>1. Named(MatchupCode!Entity)
  BY DEF Named, MatchupCode!Entity, MatchupCode!Columns, MatchupCode!Typed, MatchupCode!Settable,
         MatchupCode!Assigned, MatchupCode!Fields, MatchupCode!Loads, MatchupCode!Edges,
         MatchupCode!Reaches, MatchupCode!Has
<1>2. Scannable(MatchupCode!Entity)
  BY DEF Scannable, KindOf, MatchupCode!Entity, MatchupCode!Columns, MatchupCode!ForeignKeys,
         MatchupCode!Typed, MatchupCode!Scanned
<1>3. Creatable(MatchupCode!Entity)
  BY DEF Creatable, MatchupCode!Entity, MatchupCode!Columns, MatchupCode!ForeignKeys,
         MatchupCode!NotNull, MatchupCode!Unique, MatchupCode!References, MatchupCode!Required,
         MatchupCode!Inserted, MatchupCode!InsertedEdges
<1>4. Defaulted(MatchupCode!Entity)
  BY DEF Defaulted, MatchupCode!Entity, MatchupCode!Columns, MatchupCode!DatabaseDefaults,
         MatchupCode!CreateDefaults, MatchupCode!Inserted, MatchupCode!Zero, MatchupCode!Some,
         MatchupCode!Now
<1>5. Updatable(MatchupCode!Entity)
  BY DEF Updatable, MatchupCode!Entity, MatchupCode!Columns, MatchupCode!NotNull,
         MatchupCode!Inserted, MatchupCode!Offered, MatchupCode!OfferedOne, MatchupCode!Updated,
         MatchupCode!UpdatedOne, MatchupCode!UpdateDefaults, MatchupCode!ClearedFields,
         MatchupCode!AddedFields
<1> QED BY <1>1, <1>2, <1>3, <1>4, <1>5 DEF Agrees

LEMMA AppSettingAgrees == Agrees(SettingCode!Entity)
<1>1. Named(SettingCode!Entity)
  BY DEF Named, SettingCode!Entity, SettingCode!Columns, SettingCode!Typed, SettingCode!Settable,
         SettingCode!Assigned, SettingCode!Fields, SettingCode!Loads, SettingCode!Edges,
         SettingCode!Reaches, SettingCode!Has
<1>2. Scannable(SettingCode!Entity)
  BY DEF Scannable, KindOf, SettingCode!Entity, SettingCode!Columns, SettingCode!ForeignKeys,
         SettingCode!Typed, SettingCode!Scanned
<1>3. Creatable(SettingCode!Entity)
  BY DEF Creatable, SettingCode!Entity, SettingCode!Columns, SettingCode!ForeignKeys,
         SettingCode!NotNull, SettingCode!Unique, SettingCode!References, SettingCode!Required,
         SettingCode!Inserted, SettingCode!InsertedEdges
<1>4. Defaulted(SettingCode!Entity)
  BY DEF Defaulted, SettingCode!Entity, SettingCode!Columns, SettingCode!DatabaseDefaults,
         SettingCode!CreateDefaults, SettingCode!Inserted, SettingCode!Zero, SettingCode!Some,
         SettingCode!Now
<1>5. Updatable(SettingCode!Entity)
  BY DEF Updatable, SettingCode!Entity, SettingCode!Columns, SettingCode!NotNull,
         SettingCode!Inserted, SettingCode!Offered, SettingCode!OfferedOne, SettingCode!Updated,
         SettingCode!UpdatedOne, SettingCode!UpdateDefaults, SettingCode!ClearedFields,
         SettingCode!AddedFields
<1> QED BY <1>1, <1>2, <1>3, <1>4, <1>5 DEF Agrees

LEMMA GameAgrees == Agrees(GameCode!Entity)
<1>1. Named(GameCode!Entity)
  BY DEF Named, GameCode!Entity, GameCode!Columns, GameCode!Typed, GameCode!Settable,
         GameCode!Assigned, GameCode!Fields, GameCode!Loads, GameCode!Edges, GameCode!Reaches,
         GameCode!Has
<1>2. Scannable(GameCode!Entity)
  BY DEF Scannable, KindOf, GameCode!Entity, GameCode!Columns, GameCode!ForeignKeys,
         GameCode!Typed, GameCode!Scanned
<1>3. Creatable(GameCode!Entity)
  BY DEF Creatable, GameCode!Entity, GameCode!Columns, GameCode!ForeignKeys, GameCode!NotNull,
         GameCode!Unique, GameCode!References, GameCode!Required, GameCode!Inserted,
         GameCode!InsertedEdges
<1>4. Defaulted(GameCode!Entity)
  BY DEF Defaulted, GameCode!Entity, GameCode!Columns, GameCode!DatabaseDefaults,
         GameCode!CreateDefaults, GameCode!Inserted, GameCode!Zero, GameCode!Some, GameCode!Now
<1>5. Updatable(GameCode!Entity)
  BY DEF Updatable, GameCode!Entity, GameCode!Columns, GameCode!NotNull, GameCode!Inserted,
         GameCode!Offered, GameCode!OfferedOne, GameCode!Updated, GameCode!UpdatedOne,
         GameCode!UpdateDefaults, GameCode!ClearedFields, GameCode!AddedFields
<1> QED BY <1>1, <1>2, <1>3, <1>4, <1>5 DEF Agrees

LEMMA GameAnalysisAgrees == Agrees(AnalysisCode!Entity)
<1>1. Named(AnalysisCode!Entity)
  BY DEF Named, AnalysisCode!Entity, AnalysisCode!Columns, AnalysisCode!Typed,
         AnalysisCode!Settable, AnalysisCode!Assigned, AnalysisCode!Fields, AnalysisCode!Loads,
         AnalysisCode!Edges, AnalysisCode!Reaches, AnalysisCode!Has
<1>2. Scannable(AnalysisCode!Entity)
  BY DEF Scannable, KindOf, AnalysisCode!Entity, AnalysisCode!Columns, AnalysisCode!ForeignKeys,
         AnalysisCode!Typed, AnalysisCode!Scanned
<1>3. Creatable(AnalysisCode!Entity)
  BY DEF Creatable, AnalysisCode!Entity, AnalysisCode!Columns, AnalysisCode!ForeignKeys,
         AnalysisCode!NotNull, AnalysisCode!Unique, AnalysisCode!References,
         AnalysisCode!Required, AnalysisCode!Inserted, AnalysisCode!InsertedEdges
<1>4. Defaulted(AnalysisCode!Entity)
  BY DEF Defaulted, AnalysisCode!Entity, AnalysisCode!Columns, AnalysisCode!DatabaseDefaults,
         AnalysisCode!CreateDefaults, AnalysisCode!Inserted, AnalysisCode!Zero, AnalysisCode!Some,
         AnalysisCode!Now
<1>5. Updatable(AnalysisCode!Entity)
  BY DEF Updatable, AnalysisCode!Entity, AnalysisCode!Columns, AnalysisCode!NotNull,
         AnalysisCode!Inserted, AnalysisCode!Offered, AnalysisCode!OfferedOne,
         AnalysisCode!Updated, AnalysisCode!UpdatedOne, AnalysisCode!UpdateDefaults,
         AnalysisCode!ClearedFields, AnalysisCode!AddedFields
<1> QED BY <1>1, <1>2, <1>3, <1>4, <1>5 DEF Agrees

LEMMA GameDetailAgrees == Agrees(DetailCode!Entity)
<1>1. Named(DetailCode!Entity)
  BY DEF Named, DetailCode!Entity, DetailCode!Columns, DetailCode!Typed, DetailCode!Settable,
         DetailCode!Assigned, DetailCode!Fields, DetailCode!Loads, DetailCode!Edges,
         DetailCode!Reaches, DetailCode!Has
<1>2. Scannable(DetailCode!Entity)
  BY DEF Scannable, KindOf, DetailCode!Entity, DetailCode!Columns, DetailCode!ForeignKeys,
         DetailCode!Typed, DetailCode!Scanned
<1>3. Creatable(DetailCode!Entity)
  BY DEF Creatable, DetailCode!Entity, DetailCode!Columns, DetailCode!ForeignKeys,
         DetailCode!NotNull, DetailCode!Unique, DetailCode!References, DetailCode!Required,
         DetailCode!Inserted, DetailCode!InsertedEdges
<1>4. Defaulted(DetailCode!Entity)
  BY DEF Defaulted, DetailCode!Entity, DetailCode!Columns, DetailCode!DatabaseDefaults,
         DetailCode!CreateDefaults, DetailCode!Inserted, DetailCode!Zero, DetailCode!Some,
         DetailCode!Now
<1>5. Updatable(DetailCode!Entity)
  BY DEF Updatable, DetailCode!Entity, DetailCode!Columns, DetailCode!NotNull,
         DetailCode!Inserted, DetailCode!Offered, DetailCode!OfferedOne, DetailCode!Updated,
         DetailCode!UpdatedOne, DetailCode!UpdateDefaults, DetailCode!ClearedFields,
         DetailCode!AddedFields
<1> QED BY <1>1, <1>2, <1>3, <1>4, <1>5 DEF Agrees

LEMMA PlayerAgrees == Agrees(PlayerCode!Entity)
<1>1. Named(PlayerCode!Entity)
  BY DEF Named, PlayerCode!Entity, PlayerCode!Columns, PlayerCode!Typed, PlayerCode!Settable,
         PlayerCode!Assigned, PlayerCode!Fields, PlayerCode!Loads, PlayerCode!Edges,
         PlayerCode!Reaches, PlayerCode!Has
<1>2. Scannable(PlayerCode!Entity)
  BY DEF Scannable, KindOf, PlayerCode!Entity, PlayerCode!Columns, PlayerCode!ForeignKeys,
         PlayerCode!Typed, PlayerCode!Scanned
<1>3. Creatable(PlayerCode!Entity)
  BY DEF Creatable, PlayerCode!Entity, PlayerCode!Columns, PlayerCode!ForeignKeys,
         PlayerCode!NotNull, PlayerCode!Unique, PlayerCode!References, PlayerCode!Required,
         PlayerCode!Inserted, PlayerCode!InsertedEdges
<1>4. Defaulted(PlayerCode!Entity)
  BY DEF Defaulted, PlayerCode!Entity, PlayerCode!Columns, PlayerCode!DatabaseDefaults,
         PlayerCode!CreateDefaults, PlayerCode!Inserted, PlayerCode!Zero, PlayerCode!Some,
         PlayerCode!Now
<1>5. Updatable(PlayerCode!Entity)
  BY DEF Updatable, PlayerCode!Entity, PlayerCode!Columns, PlayerCode!NotNull,
         PlayerCode!Inserted, PlayerCode!Offered, PlayerCode!OfferedOne, PlayerCode!Updated,
         PlayerCode!UpdatedOne, PlayerCode!UpdateDefaults, PlayerCode!ClearedFields,
         PlayerCode!AddedFields
<1> QED BY <1>1, <1>2, <1>3, <1>4, <1>5 DEF Agrees

LEMMA Ranking3v3Agrees == Agrees(RankingCode!Entity)
<1>1. Named(RankingCode!Entity)
  BY DEF Named, RankingCode!Entity, RankingCode!Columns, RankingCode!Typed, RankingCode!Settable,
         RankingCode!Assigned, RankingCode!Fields, RankingCode!Loads, RankingCode!Edges,
         RankingCode!Reaches, RankingCode!Has
<1>2. Scannable(RankingCode!Entity)
  BY DEF Scannable, KindOf, RankingCode!Entity, RankingCode!Columns, RankingCode!ForeignKeys,
         RankingCode!Typed, RankingCode!Scanned
<1>3. Creatable(RankingCode!Entity)
  BY DEF Creatable, RankingCode!Entity, RankingCode!Columns, RankingCode!ForeignKeys,
         RankingCode!NotNull, RankingCode!Unique, RankingCode!References, RankingCode!Required,
         RankingCode!Inserted, RankingCode!InsertedEdges
<1>4. Defaulted(RankingCode!Entity)
  BY DEF Defaulted, RankingCode!Entity, RankingCode!Columns, RankingCode!DatabaseDefaults,
         RankingCode!CreateDefaults, RankingCode!Inserted, RankingCode!Zero, RankingCode!Some,
         RankingCode!Now
<1>5. Updatable(RankingCode!Entity)
  BY DEF Updatable, RankingCode!Entity, RankingCode!Columns, RankingCode!NotNull,
         RankingCode!Inserted, RankingCode!Offered, RankingCode!OfferedOne, RankingCode!Updated,
         RankingCode!UpdatedOne, RankingCode!UpdateDefaults, RankingCode!ClearedFields,
         RankingCode!AddedFields
<1> QED BY <1>1, <1>2, <1>3, <1>4, <1>5 DEF Agrees

LEMMA ReplayFileAgrees == Agrees(FileCode!Entity)
<1>1. Named(FileCode!Entity)
  BY DEF Named, FileCode!Entity, FileCode!Columns, FileCode!Typed, FileCode!Settable,
         FileCode!Assigned, FileCode!Fields, FileCode!Loads, FileCode!Edges, FileCode!Reaches,
         FileCode!Has
<1>2. Scannable(FileCode!Entity)
  BY DEF Scannable, KindOf, FileCode!Entity, FileCode!Columns, FileCode!ForeignKeys,
         FileCode!Typed, FileCode!Scanned
<1>3. Creatable(FileCode!Entity)
  BY DEF Creatable, FileCode!Entity, FileCode!Columns, FileCode!ForeignKeys, FileCode!NotNull,
         FileCode!Unique, FileCode!References, FileCode!Required, FileCode!Inserted,
         FileCode!InsertedEdges
<1>4. Defaulted(FileCode!Entity)
  BY DEF Defaulted, FileCode!Entity, FileCode!Columns, FileCode!DatabaseDefaults,
         FileCode!CreateDefaults, FileCode!Inserted, FileCode!Zero, FileCode!Some, FileCode!Now
<1>5. Updatable(FileCode!Entity)
  BY DEF Updatable, FileCode!Entity, FileCode!Columns, FileCode!NotNull, FileCode!Inserted,
         FileCode!Offered, FileCode!OfferedOne, FileCode!Updated, FileCode!UpdatedOne,
         FileCode!UpdateDefaults, FileCode!ClearedFields, FileCode!AddedFields
<1> QED BY <1>1, <1>2, <1>3, <1>4, <1>5 DEF Agrees

LEMMA UserAgrees == Agrees(UserCode!Entity)
<1>1. Named(UserCode!Entity)
  BY DEF Named, UserCode!Entity, UserCode!Columns, UserCode!Typed, UserCode!Settable,
         UserCode!Assigned, UserCode!Fields, UserCode!Loads, UserCode!Edges, UserCode!Reaches,
         UserCode!Has
<1>2. Scannable(UserCode!Entity)
  BY DEF Scannable, KindOf, UserCode!Entity, UserCode!Columns, UserCode!ForeignKeys,
         UserCode!Typed, UserCode!Scanned
<1>3. Creatable(UserCode!Entity)
  BY DEF Creatable, UserCode!Entity, UserCode!Columns, UserCode!ForeignKeys, UserCode!NotNull,
         UserCode!Unique, UserCode!References, UserCode!Required, UserCode!Inserted,
         UserCode!InsertedEdges
<1>4. Defaulted(UserCode!Entity)
  BY DEF Defaulted, UserCode!Entity, UserCode!Columns, UserCode!DatabaseDefaults,
         UserCode!CreateDefaults, UserCode!Inserted, UserCode!Zero, UserCode!Some, UserCode!Now
<1>5. Updatable(UserCode!Entity)
  BY DEF Updatable, UserCode!Entity, UserCode!Columns, UserCode!NotNull, UserCode!Inserted,
         UserCode!Offered, UserCode!OfferedOne, UserCode!Updated, UserCode!UpdatedOne,
         UserCode!UpdateDefaults, UserCode!ClearedFields, UserCode!AddedFields
<1> QED BY <1>1, <1>2, <1>3, <1>4, <1>5 DEF Agrees

LEMMA SchemaAgrees == \A E \in Entities : Agrees(Schema[E])
BY AnalyzerRaceMatchupAgrees, AppSettingAgrees, GameAgrees, GameAnalysisAgrees, GameDetailAgrees,
   PlayerAgrees, Ranking3v3Agrees, ReplayFileAgrees, UserAgrees
DEF Schema, Entities

LEMMA FilesAlwaysAgree == FilesAgree
BY SchemaAgrees DEF FilesAgree, Agrees, Named, Scannable, Creatable, Updatable

-----------------------------------------------------------------------------
(* A database whose rows are whole, and what a statement leaves of it. *)

Cols(E) == Schema[E].columns \cup Schema[E].foreignKeys
Values == Nat \cup {Nil}

\* The rows have the columns of their table, and ids below the next one.
Typed(rows, next) ==
  /\ DOMAIN rows = Entities /\ rows = [E \in Entities |-> rows[E]]
  /\ next \in [Entities -> Nat]
  /\ \A E \in Entities :
       /\ DOMAIN rows[E] \subseteq Nat
       /\ \A i \in DOMAIN rows[E] : i < next[E] /\ rows[E][i] \in [Cols(E) -> Values]

\* RowsWhole, of any rows: no NULL where the migration forbids it, no reference to a row that
\* is gone, no two rows with the same key.
NothingMissing(rows) ==
  \A E \in Entities : \A i \in DOMAIN rows[E] : \A c \in Schema[E].notNull : rows[E][i][c] # Nil
NothingDangling(rows) ==
  \A E \in Entities : \A i \in DOMAIN rows[E] : \A c \in DOMAIN Schema[E].references :
    rows[E][i][c] \in DOMAIN rows[Schema[E].references[c]]
NothingTwice(rows) ==
  \A E \in Entities : \A i, j \in DOMAIN rows[E] : \A key \in Schema[E].unique :
    i # j => \E c \in key : rows[E][i][c] # rows[E][j][c]

Whole(rows) == NothingMissing(rows) /\ NothingDangling(rows) /\ NothingTwice(rows)

LEMMA WholeRows == RowsWhole <=> Whole(tables)
BY DEF RowsWhole, Whole, NothingMissing, NothingDangling, NothingTwice

Fine(db) ==
  /\ db = [rows |-> db.rows, next |-> db.next, kept |-> db.kept, failed |-> db.failed]
  /\ Typed(db.rows, db.next) /\ Whole(db.rows) /\ db.kept = TRUE /\ db.failed \in BOOLEAN

\* Only table E changes, and its rows stay.
Grows(a, b, E) ==
  /\ \A F \in Entities \ {E} : b[F] = a[F]
  /\ \A i \in DOMAIN a[E] : i \in DOMAIN b[E] /\ b[E][i] = a[E][i]

\* What the schema says of an entity.
LEMMA SchemaFacts ==
  ASSUME NEW E \in Entities
  PROVE  /\ DOMAIN Schema[E].references \subseteq Schema[E].notNull
         /\ \A c \in DOMAIN Schema[E].references : Schema[E].references[c] \in Entities
         /\ Schema[E].notNull \subseteq Cols(E)
         /\ \A key \in Schema[E].unique : key \subseteq Cols(E)
BY SchemaAgrees DEF Agrees, Creatable, Cols, Entities, Schema

LEMMA InsertKeeps ==
  ASSUME NEW db, Fine(db), NEW E \in Entities, NEW row \in [Cols(E) -> Values],
         \A c \in Schema[E].notNull : row[c] # Nil
  PROVE  Fine(Insert(db, E, row, TRUE)) /\ Grows(db.rows, Insert(db, E, row, TRUE).rows, E)
<1> DEFINE taken == \E key \in Schema[E].unique, i \in DOMAIN db.rows[E] :
                      \A c \in key : db.rows[E][i][c] = row[c]
           dangling == \E c \in DOMAIN Schema[E].references :
                         row[c] \notin DOMAIN db.rows[Schema[E].references[c]] \cup {Nil}
           new == Insert(db, E, row, TRUE)
<1>1. CASE taken \/ dangling
  <2>1. new = [db EXCEPT !.failed = TRUE, !.kept = @ /\ TRUE /\ TRUE]
    BY <1>1 DEF Insert
  <2>2. new.rows = db.rows /\ new.next = db.next /\ new.kept = TRUE /\ new.failed = TRUE
        /\ new = [rows |-> new.rows, next |-> new.next, kept |-> new.kept, failed |-> new.failed]
    BY <2>1 DEF Fine
  <2> HIDE DEF new
  <2> QED BY <2>2 DEF Fine, Grows, new
<1>2. CASE ~taken /\ ~dangling
  <2> DEFINE id == db.next[E]
             table == [i \in {id} |-> row] ?? db.rows[E]
  <2>1. new = [db EXCEPT !.rows[E] = table, !.next[E] = id + 1, !.kept = @ /\ TRUE]
    BY <1>2 DEF Insert
  <2>2. /\ new.rows = [db.rows EXCEPT ![E] = table] /\ new.next = [db.next EXCEPT ![E] = id + 1]
        /\ new.kept = TRUE /\ new.failed \in BOOLEAN
        /\ new = [rows |-> new.rows, next |-> new.next, kept |-> new.kept, failed |-> new.failed]
    BY <2>1 DEF Fine
  <2>3. id \in Nat /\ id \notin DOMAIN db.rows[E]
    BY DEF Fine, Typed
  <2>4. /\ DOMAIN table = DOMAIN db.rows[E] \cup {id} /\ table[id] = row
        /\ \A i \in DOMAIN db.rows[E] : table[i] = db.rows[E][i]
    BY <2>3 DEF ??
  <2> HIDE DEF new, table
  <2>5. /\ DOMAIN new.rows = Entities /\ new.rows = [F \in Entities |-> new.rows[F]]
        /\ new.next \in [Entities -> Nat] /\ new.next[E] = id + 1 /\ new.rows[E] = table
        /\ \A F \in Entities \ {E} : new.rows[F] = db.rows[F] /\ new.next[F] = db.next[F]
    BY <2>2, <2>3 DEF Fine, Typed
  <2>6. Typed(new.rows, new.next)
    BY <2>3, <2>4, <2>5 DEF Fine, Typed
  <2>7. NothingMissing(new.rows)
    BY <2>4, <2>5 DEF Fine, Whole, NothingMissing
  <2>8. NothingDangling(new.rows)
    <3>1. \A F \in Entities : DOMAIN db.rows[F] \subseteq DOMAIN new.rows[F]
      BY <2>4, <2>5
    <3>2. \A c \in DOMAIN Schema[E].references : row[c] \in DOMAIN db.rows[Schema[E].references[c]]
      BY <1>2, SchemaFacts
    <3>3. ASSUME NEW F \in Entities, NEW i \in DOMAIN new.rows[F], NEW c \in DOMAIN Schema[F].references
          PROVE  new.rows[F][i][c] \in DOMAIN db.rows[Schema[F].references[c]]
      BY <2>4, <2>5, <3>2 DEF Fine, Whole, NothingDangling
    <3> QED BY <3>1, <3>3, SchemaFacts DEF NothingDangling
  <2>9. NothingTwice(new.rows)
    <3>1. \A i \in DOMAIN db.rows[E], key \in Schema[E].unique : \E c \in key : db.rows[E][i][c] # row[c]
      BY <1>2
    <3> HIDE DEF taken, dangling
    <3> QED BY <2>4, <2>5, <3>1 DEF Fine, Whole, NothingTwice
  <2>10. Fine(new)
    BY <2>2, <2>6, <2>7, <2>8, <2>9 DEF Fine, Whole
  <2>11. Grows(db.rows, new.rows, E)
    BY <2>4, <2>5 DEF Grows
  <2> QED BY <2>10, <2>11 DEF new
<1> QED BY <1>1, <1>2

\* A create builder that sets columns of its entity to values, and links its rows to others.
Creates(s) ==
  LET code == Schema[s.of]
  IN  /\ s.of \in Entities /\ code.columns \cap DOMAIN code.insertedEdges = {}
      /\ DOMAIN s.set \subseteq code.columns /\ \A c \in DOMAIN s.set : s.set[c] \in Nat
      /\ \A c \in DOMAIN code.insertedEdges : s.links[code.insertedEdges[c]] \in Nat

LEMMA FailureKeeps ==
  ASSUME NEW db, Fine(db), NEW E \in Entities
  PROVE  Fine([db EXCEPT !.failed = TRUE]) /\ Grows(db.rows, [db EXCEPT !.failed = TRUE].rows, E)
<1> DEFINE new == [db EXCEPT !.failed = TRUE]
<1>0. new = [db EXCEPT !.failed = TRUE]
  OBVIOUS
<1> HIDE DEF new
<1>1. /\ new.rows = db.rows /\ new.next = db.next /\ new.kept = db.kept /\ new.failed = TRUE
      /\ new = [rows |-> new.rows, next |-> new.next, kept |-> new.kept, failed |-> new.failed]
  BY <1>0 DEF Fine
<1>2. Fine(new)
  BY <1>1 DEF Fine
<1>3. Grows(db.rows, new.rows, E)
  BY <1>1 DEF Grows
<1> QED BY <1>2, <1>3 DEF new

\* What check() of a create builder demands.
Accepts(s) ==
  LET code == Schema[s.of]
      mutation == s.set ?? code.createDefaults
  IN  /\ code.required \subseteq DOMAIN mutation
      /\ code.requiredEdges \subseteq DOMAIN s.links
      /\ \A c \in code.notEmpty \cap DOMAIN mutation : mutation[c] # Zero

\* The row that a create builder writes has every column the migration demands, and reads like
\* the entity the client hands back.
LEMMA CreateInserts ==
  ASSUME NEW db, Fine(db), NEW s, Creates(s)
  PROVE  IF Accepts(s)
         THEN \E row \in [Cols(s.of) -> Values] :
                /\ \A c \in Schema[s.of].notNull : row[c] # Nil
                /\ \A c \in DOMAIN s.set : row[c] = s.set[c]
                /\ Create(db, s) = Insert(db, s.of, row, TRUE)
         ELSE Create(db, s) = [db EXCEPT !.failed = TRUE]
<1> DEFINE E == s.of
           code == Schema[s.of]
           mutation == s.set ?? code.createDefaults
           written == [c \in DOMAIN mutation \cap code.inserted |-> mutation[c]]
                      ?? [c \in DOMAIN code.insertedEdges |-> s.links[code.insertedEdges[c]]]
           row == RowOf(s.of, written)
           node == [c \in code.columns |->
                      IF c \in DOMAIN written THEN written[c]
                      ELSE IF c \in code.nillable THEN Nil ELSE Zero]
           told == /\ DOMAIN mutation \subseteq code.settable \cap code.fields
                   /\ \A c \in DOMAIN mutation : node[c] = mutation[c]
                   /\ node = Node(s.of, row)
<1>1. Create(db, s) = IF Accepts(s) THEN Insert(db, s.of, row, told) ELSE [db EXCEPT !.failed = TRUE]
  BY DEF Create, Accepts
<1>0. /\ Accepts(s) => code.required \subseteq DOMAIN mutation
      /\ \A c \in DOMAIN s.set : c \in DOMAIN mutation /\ mutation[c] = s.set[c]
  BY DEF Accepts, ??
<1>2. E \in Entities /\ Creatable(code) /\ Defaulted(code) /\ Named(code)
  BY SchemaAgrees DEF Creates, Agrees
<1>3. /\ DOMAIN mutation \subseteq code.columns /\ DOMAIN code.databaseDefaults \subseteq DOMAIN mutation
      /\ \A c \in DOMAIN mutation : mutation[c] \in Nat
  BY <1>2 DEF ??, Creates, Creatable, Defaulted
<1>4. code.columns = code.inserted
  BY <1>2 DEF Creates, Creatable
<1> HIDE DEF mutation
<1>5. /\ DOMAIN written = DOMAIN mutation \cup DOMAIN code.insertedEdges
      /\ \A c \in DOMAIN mutation : written[c] = mutation[c]
      /\ \A c \in DOMAIN written : written[c] \in Nat
  BY <1>3, <1>4 DEF ??, Creates
<1> HIDE DEF written
<1>6. /\ row \in [Cols(E) -> Values]
      /\ \A c \in Cols(E) : row[c] = IF c \in DOMAIN written THEN written[c] ELSE Nil
  <2>1. ASSUME NEW c \in Cols(E)
        PROVE  (written ?? code.databaseDefaults ?? [x \in {c} |-> Nil])[c]
                 = IF c \in DOMAIN written THEN written[c] ELSE Nil
    BY <1>3, <1>5 DEF ??
  <2>2. row = [c \in Cols(E) |-> (written ?? code.databaseDefaults ?? [x \in {c} |-> Nil])[c]]
    BY DEF RowOf, Cols
  <2> HIDE DEF row
  <2>3. \A c \in Cols(E) : row[c] = IF c \in DOMAIN written THEN written[c] ELSE Nil
    BY <2>1, <2>2
  <2> QED BY <1>5, <2>2, <2>3 DEF Values
<1> HIDE DEF row
<1>7. told
  <2>1. DOMAIN mutation \subseteq code.settable \cap code.fields
    BY <1>2, <1>3 DEF Named
  <2>2. \A c \in DOMAIN mutation : node[c] = mutation[c]
    BY <1>3, <1>5
  <2>3. \A c \in code.columns : node[c] = IF row[c] = Nil /\ c \notin code.nillable THEN Zero ELSE row[c]
    BY <1>5, <1>6 DEF Cols, Nil
  <2>4. node = Node(s.of, row)
    BY <1>2, <2>3 DEF Node, Named
  <2> QED BY <2>1, <2>2, <2>4
<1>8. CASE Accepts(s)
  <2>1. \A c \in code.notNull : row[c] # Nil
    BY <1>0, <1>2, <1>5, <1>6, <1>8, SchemaFacts DEF Creatable, Nil
  <2>2. told = TRUE
    BY <1>7
  <2> HIDE DEF told
  <2>3. Create(db, s) = Insert(db, E, row, TRUE)
    BY <1>1, <1>8, <2>2
  <2>4. \A c \in DOMAIN s.set : row[c] = s.set[c]
    BY <1>0, <1>3, <1>5, <1>6 DEF Cols
  <2> QED BY <1>6, <1>8, <2>1, <2>3, <2>4
<1>9. CASE ~Accepts(s)
  BY <1>1, <1>9
<1> QED BY <1>8, <1>9

LEMMA CreateKeeps ==
  ASSUME NEW db, Fine(db), NEW s, Creates(s)
  PROVE  Fine(Create(db, s)) /\ Grows(db.rows, Create(db, s).rows, s.of)
<1>1. s.of \in Entities
  BY DEF Creates
<1>2. CASE Accepts(s)
  <2>1. PICK row \in [Cols(s.of) -> Values] :
          /\ \A c \in Schema[s.of].notNull : row[c] # Nil
          /\ Create(db, s) = Insert(db, s.of, row, TRUE)
    BY <1>2, CreateInserts
  <2> QED BY <1>1, <2>1, InsertKeeps
<1>3. CASE ~Accepts(s)
  <2>1. Create(db, s) = [db EXCEPT !.failed = TRUE]
    BY <1>3, CreateInserts
  <2> QED BY <1>1, <2>1, FailureKeeps
<1> QED BY <1>2, <1>3

\* The columns that tie a row to others or tell it from them.
Keys(E) == DOMAIN Schema[E].references \cup UNION Schema[E].unique

\* Only table E changes: its rows keep their keys.
Rewrites(a, b, E) ==
  /\ \A F \in Entities \ {E} : b[F] = a[F]
  /\ DOMAIN b[E] = DOMAIN a[E]
  /\ \A i \in DOMAIN a[E] : \A c \in Keys(E) : b[E][i][c] = a[E][i][c]

\* Rows may be written again as long as they keep their keys and their columns.
LEMMA RewriteKeeps ==
  ASSUME NEW db, Fine(db), NEW E \in Entities, NEW table, DOMAIN table = DOMAIN db.rows[E],
         \A i \in DOMAIN table : /\ table[i] \in [Cols(E) -> Values]
                                 /\ \A c \in Keys(E) : table[i][c] = db.rows[E][i][c]
                                 /\ \A c \in Schema[E].notNull : table[i][c] # Nil,
         NEW new, new = [rows |-> [db.rows EXCEPT ![E] = table], next |-> db.next, kept |-> TRUE,
                         failed |-> db.failed]
  PROVE  Fine(new) /\ Rewrites(db.rows, new.rows, E)
<1>1. /\ new = [rows |-> new.rows, next |-> new.next, kept |-> new.kept, failed |-> new.failed]
      /\ new.next = db.next /\ new.kept = TRUE /\ new.failed \in BOOLEAN
      /\ new.rows = [db.rows EXCEPT ![E] = table]
  BY DEF Fine
<1>2. /\ DOMAIN new.rows = Entities /\ new.rows = [F \in Entities |-> new.rows[F]]
      /\ new.rows[E] = table /\ \A F \in Entities \ {E} : new.rows[F] = db.rows[F]
      /\ \A F \in Entities : DOMAIN new.rows[F] = DOMAIN db.rows[F]
  BY <1>1 DEF Fine, Typed
<1>3. Typed(new.rows, new.next)
  BY <1>1, <1>2 DEF Fine, Typed
<1>4. NothingMissing(new.rows)
  BY <1>2 DEF Fine, Whole, NothingMissing
<1>5. NothingDangling(new.rows)
  <2>1. ASSUME NEW F \in Entities, NEW i \in DOMAIN new.rows[F], NEW c \in DOMAIN Schema[F].references
        PROVE  new.rows[F][i][c] \in DOMAIN db.rows[Schema[F].references[c]]
    <3>1. i \in DOMAIN db.rows[F] /\ new.rows[F][i][c] = db.rows[F][i][c]
      BY <1>2 DEF Keys
    <3> QED BY <3>1 DEF Fine, Whole, NothingDangling
  <2> QED BY <1>2, <2>1, SchemaFacts DEF NothingDangling
<1>6. NothingTwice(new.rows)
  <2>1. ASSUME NEW i \in DOMAIN db.rows[E], NEW key \in Schema[E].unique, NEW c \in key
        PROVE  table[i][c] = db.rows[E][i][c]
    BY DEF Keys
  <2> QED BY <1>2, <2>1 DEF Fine, Whole, NothingTwice
<1> QED BY <1>1, <1>2, <1>3, <1>4, <1>5, <1>6 DEF Fine, Whole, Rewrites

\* An update builder that sets columns to values, or adds to them, and leaves the keys alone.
Updates(s) ==
  LET code == Schema[s.of]
  IN  /\ s.of \in Entities /\ code.updateDefaults \cap Keys(s.of) = {}
      /\ DOMAIN s.set \subseteq code.updated \ Keys(s.of) /\ \A c \in DOMAIN s.set : s.set[c] \in Nat
      /\ DOMAIN s.add \subseteq code.addedFields \ Keys(s.of) /\ \A c \in DOMAIN s.add : s.add[c] \in Nat

LEMMA UpdateKeeps ==
  ASSUME NEW db, Fine(db), NEW s, Updates(s), NEW writes, writes = Schema[s.of].updated
  PROVE  Fine(Update(db, s, writes)) /\ Rewrites(db.rows, Update(db, s, writes).rows, s.of)
<1> DEFINE E == s.of
           code == Schema[s.of]
           mutation == s.set ?? [c \in code.updateDefaults |-> Now]
           Changed(row) ==
             [c \in DOMAIN row |->
                IF c \in DOMAIN mutation \cap writes THEN mutation[c]
                ELSE IF c \in DOMAIN s.add \cap writes
                     THEN s.add[c] + (IF row[c] = Nil THEN Zero ELSE row[c])
                     ELSE row[c]]
           blank == \E c \in code.notEmpty \cap DOMAIN mutation : mutation[c] = Zero
           table == [i \in DOMAIN db.rows[E] |->
                       IF i \in s.ids THEN Changed(db.rows[E][i]) ELSE db.rows[E][i]]
           new == Update(db, s, writes)
<1>1. /\ E \in Entities /\ Updatable(code) /\ Creatable(code) /\ Named(code)
      /\ code.updated \subseteq code.columns
  BY SchemaAgrees DEF Updates, Agrees, Updatable, Creatable
<1>2. /\ DOMAIN mutation \subseteq writes /\ DOMAIN mutation \cap Keys(E) = {}
      /\ \A c \in DOMAIN mutation : mutation[c] \in Nat
      /\ DOMAIN s.add \subseteq writes /\ DOMAIN s.add \cap Keys(E) = {}
  BY <1>1 DEF ??, Updates, Updatable, Now
<1> HIDE DEF mutation
<1>3. CASE blank
  <2>1. new = [db EXCEPT !.failed = TRUE]
    BY <1>3 DEF Update, mutation
  <2>2. Fine(new) /\ new.rows = db.rows
    BY <1>1, <2>1, FailureKeeps DEF Fine
  <2> HIDE DEF new
  <2> QED BY <1>1, <2>2 DEF Rewrites, new
<1>4. CASE ~blank
  <2>1. ASSUME NEW row \in [Cols(E) -> Values], \A c \in code.notNull : row[c] # Nil
        PROVE  /\ Changed(row) \in [Cols(E) -> Values]
               /\ \A c \in Keys(E) : Changed(row)[c] = row[c]
               /\ \A c \in code.notNull : Changed(row)[c] # Nil
    <3>1. \A c \in Cols(E) : \/ Changed(row)[c] = row[c] /\ row[c] \in Values
                             \/ Changed(row)[c] \in Nat /\ c \notin Keys(E)
      BY <1>2, <2>1 DEF Updates, Values, Nil, Zero
    <3>2. code.notNull \subseteq Cols(E) /\ Keys(E) \subseteq Cols(E)
      BY <1>1, SchemaFacts DEF Keys
    <3>3. Changed(row) = [c \in Cols(E) |-> Changed(row)[c]]
      OBVIOUS
    <3> HIDE DEF Changed
    <3>4. \A c \in Cols(E) : Changed(row)[c] \in Values /\ (row[c] # Nil => Changed(row)[c] # Nil)
      BY <3>1 DEF Values, Nil
    <3>5. Changed(row) \in [Cols(E) -> Values]
      BY <3>3, <3>4
    <3>6. \A c \in Keys(E) : Changed(row)[c] = row[c]
      BY <3>1, <3>2
    <3> QED BY <2>1, <3>2, <3>4, <3>5, <3>6
  <2>2. /\ DOMAIN table = DOMAIN db.rows[E]
        /\ \A i \in DOMAIN table : table[i] = IF i \in s.ids THEN Changed(db.rows[E][i]) ELSE db.rows[E][i]
    OBVIOUS
  <2>3. new = [db EXCEPT !.rows[E] = table,
                         !.kept = /\ @
                                  /\ DOMAIN mutation \subseteq writes \cap code.fields
                                  /\ DOMAIN s.add \subseteq writes \cap code.addedFields]
    BY <1>4 DEF Update, mutation
  <2> HIDE DEF table, new, Changed, blank
  <2>4. \A i \in DOMAIN table : db.rows[E][i] \in [Cols(E) -> Values]
                               /\ \A c \in code.notNull : db.rows[E][i][c] # Nil
    BY <1>1, <2>2 DEF Fine, Typed, Whole, NothingMissing
  <2>5. \A i \in DOMAIN table : /\ table[i] \in [Cols(E) -> Values]
                                /\ \A c \in Keys(E) : table[i][c] = db.rows[E][i][c]
                                /\ \A c \in code.notNull : table[i][c] # Nil
    BY <2>1, <2>2, <2>4
  <2>6. /\ DOMAIN mutation \subseteq writes \cap code.fields
        /\ DOMAIN s.add \subseteq writes \cap code.addedFields
    BY <1>1, <1>2 DEF Updates, Named
  <2>7. new = [rows |-> [db.rows EXCEPT ![E] = table], next |-> db.next, kept |-> TRUE, failed |-> db.failed]
    BY <2>3, <2>6 DEF Fine
  <2>8. Fine(new) /\ Rewrites(db.rows, new.rows, E)
    BY <1>1, <2>2, <2>5, <2>7, RewriteKeeps
  <2> QED BY <2>8 DEF new
<1> QED BY <1>3, <1>4

\* An INSERT of the program's own, of columns whose values the database can do without.
Inserts(E, written) ==
  /\ E \in Entities /\ DOMAIN written \subseteq Schema[E].columns
  /\ \A c \in DOMAIN written : written[c] \in Nat
  /\ Schema[E].notNull \subseteq DOMAIN written \cup DOMAIN Schema[E].databaseDefaults

LEMMA InsertRawKeeps ==
  ASSUME NEW db, Fine(db), NEW E, NEW written, Inserts(E, written)
  PROVE  Fine(InsertRaw(db, E, written)) /\ Grows(db.rows, InsertRaw(db, E, written).rows, E)
<1> DEFINE row == RowOf(E, written)
           defaults == Schema[E].databaseDefaults
<1>1. E \in Entities /\ Defaulted(Schema[E])
  BY SchemaAgrees DEF Inserts, Agrees
<1>2. \A c \in Cols(E) : (written ?? defaults ?? [x \in {c} |-> Nil])[c]
                           = IF c \in DOMAIN written THEN written[c]
                             ELSE IF c \in DOMAIN defaults THEN defaults[c] ELSE Nil
  BY DEF ??
<1>3. row = [c \in Cols(E) |-> (written ?? defaults ?? [x \in {c} |-> Nil])[c]]
  BY DEF RowOf, Cols
<1> HIDE DEF row
<1>4. \A c \in Cols(E) : row[c] = IF c \in DOMAIN written THEN written[c]
                                  ELSE IF c \in DOMAIN defaults THEN defaults[c] ELSE Nil
  BY <1>2, <1>3
<1>5. row \in [Cols(E) -> Values]
  BY <1>1, <1>3, <1>4 DEF Inserts, Defaulted, Values
<1>6. \A c \in Schema[E].notNull : row[c] # Nil
  BY <1>1, <1>4, SchemaFacts DEF Inserts, Defaulted, Nil
<1>7. (DOMAIN written \subseteq Schema[E].columns) = TRUE
  BY DEF Inserts
<1>8. InsertRaw(db, E, written) = Insert(db, E, row, TRUE)
  BY <1>7 DEF InsertRaw, row
<1> QED BY <1>1, <1>5, <1>6, <1>8, InsertKeeps

\* Table E loses the rows of ids, and nothing else changes.
Loses(a, b, E, ids) ==
  /\ \A F \in Entities \ {E} : b[F] = a[F]
  /\ DOMAIN b[E] = DOMAIN a[E] \ ids
  /\ \A i \in DOMAIN b[E] : b[E][i] = a[E][i]

\* Rows that nothing refers to can go.
LEMMA DeleteKeeps ==
  ASSUME NEW db, Fine(db), NEW s, s.of \in Entities,
         \A F \in Entities : \A c \in DOMAIN Schema[F].references :
           Schema[F].references[c] = s.of => \A i \in DOMAIN db.rows[F] : db.rows[F][i][c] \notin s.ids
  PROVE  /\ Fine(Delete(db, s)) /\ Delete(db, s).failed = db.failed
         /\ Loses(db.rows, Delete(db, s).rows, s.of, s.ids)
<1> DEFINE E == s.of
           new == Delete(db, s)
           table == [i \in DOMAIN db.rows[E] \ s.ids |-> db.rows[E][i]]
<1>1. new = [db EXCEPT !.rows[E] = table]
  BY DEF Delete
<1>2. DOMAIN table = DOMAIN db.rows[E] \ s.ids /\ \A i \in DOMAIN table : table[i] = db.rows[E][i]
  OBVIOUS
<1> HIDE DEF new, table
<1>3. /\ new = [rows |-> new.rows, next |-> new.next, kept |-> new.kept, failed |-> new.failed]
      /\ new.next = db.next /\ new.kept = TRUE /\ new.failed = db.failed
      /\ new.rows = [db.rows EXCEPT ![E] = table]
  BY <1>1 DEF Fine
<1>4. /\ DOMAIN new.rows = Entities /\ new.rows = [F \in Entities |-> new.rows[F]]
      /\ new.rows[E] = table /\ \A F \in Entities \ {E} : new.rows[F] = db.rows[F]
      /\ \A F \in Entities : /\ DOMAIN new.rows[F] \subseteq DOMAIN db.rows[F]
                             /\ \A i \in DOMAIN new.rows[F] : new.rows[F][i] = db.rows[F][i]
  BY <1>2, <1>3 DEF Fine, Typed
<1>5. Typed(new.rows, new.next)
  BY <1>3, <1>4 DEF Fine, Typed
<1>6. NothingMissing(new.rows) /\ NothingTwice(new.rows)
  BY <1>4 DEF Fine, Whole, NothingMissing, NothingTwice
<1>7. NothingDangling(new.rows)
  <2>1. ASSUME NEW F \in Entities, NEW i \in DOMAIN new.rows[F], NEW c \in DOMAIN Schema[F].references
        PROVE  new.rows[F][i][c] \in DOMAIN new.rows[Schema[F].references[c]]
    <3>1. /\ new.rows[F][i][c] = db.rows[F][i][c] /\ i \in DOMAIN db.rows[F]
          /\ new.rows[F][i][c] \in DOMAIN db.rows[Schema[F].references[c]]
      BY <1>4 DEF Fine, Whole, NothingDangling
    <3>2. CASE Schema[F].references[c] = E
      BY <1>2, <1>4, <3>1, <3>2
    <3>3. CASE Schema[F].references[c] # E
      BY <1>4, <3>1, <3>3, SchemaFacts
    <3> QED BY <3>2, <3>3
  <2> QED BY <2>1 DEF NothingDangling
<1>8. Fine(new)
  BY <1>3, <1>5, <1>6, <1>7 DEF Fine, Whole
<1>9. Loses(db.rows, new.rows, E, s.ids)
  BY <1>2, <1>4 DEF Loses
<1> QED BY <1>3, <1>8, <1>9 DEF new

\* What is known of the analysis of a game when it is queued.
Queues(s) == s.game \in Nat /\ s.hash \in Nat /\ s.version \in Nat

LEMMA AnalysisColumns ==
  /\ "GameAnalysis" \in Entities /\ Keys("GameAnalysis") = {"game_id"}
  /\ RequestedColumns \subseteq Schema["GameAnalysis"].columns
  /\ Schema["GameAnalysis"].notNull \subseteq RequestedColumns
  /\ QueuedColumns \subseteq Schema["GameAnalysis"].columns
  /\ Cols("GameAnalysis") = Schema["GameAnalysis"].columns
  /\ {"started_at", "finished_at", "last_error"} \cap Schema["GameAnalysis"].notNull = {}
BY DEF Entities, Schema, Keys, Cols, RequestedColumns, QueuedColumns, AnalysisCode!Entity,
       AnalysisCode!References,
       AnalysisCode!Unique, AnalysisCode!Columns, AnalysisCode!NotNull, AnalysisCode!ForeignKeys

LEMMA AnalysisValuesFacts ==
  ASSUME NEW s, Queues(s), NEW columns, columns \subseteq QueuedColumns
  PROVE  /\ DOMAIN AnalysisValues(columns, s) = columns
         /\ \A c \in columns : AnalysisValues(columns, s)[c] \in Values
         /\ \A c \in columns \ {"artifact_result_dir"} : AnalysisValues(columns, s)[c] \in Nat
<1>1. ASSUME NEW c \in columns
      PROVE  /\ AnalysisValues(columns, s)[c] \in Values
             /\ c # "artifact_result_dir" => AnalysisValues(columns, s)[c] \in Nat
  BY DEF AnalysisValues, Queues, Values, Now, Some, Zero, Nil
<1>2. DOMAIN AnalysisValues(columns, s) = columns
  BY DEF AnalysisValues
<1> QED BY <1>1, <1>2

LEMMA RequestKeeps ==
  ASSUME NEW db, Fine(db), NEW s, Queues(s)
  PROVE  /\ Fine(insertQueuedAnalysisRow(db, s))
         /\ Grows(db.rows, insertQueuedAnalysisRow(db, s).rows, "GameAnalysis")
<1> DEFINE written == AnalysisValues(RequestedColumns, s)
<1>1. RequestedColumns \subseteq QueuedColumns /\ "artifact_result_dir" \notin RequestedColumns
  BY DEF QueuedColumns, RequestedColumns
<1>2. DOMAIN written = RequestedColumns /\ \A c \in RequestedColumns : written[c] \in Nat
  BY <1>1, AnalysisValuesFacts
<1> HIDE DEF written
<1>3. Inserts("GameAnalysis", written)
  BY <1>2, AnalysisColumns DEF Inserts
<1>4. CASE Analyses(db, s) = {}
  <2>1. insertQueuedAnalysisRow(db, s) = InsertRaw(db, "GameAnalysis", written)
    BY <1>4 DEF insertQueuedAnalysisRow, written
  <2> QED BY <1>3, <2>1, InsertRawKeeps
<1>5. CASE Analyses(db, s) # {}
  <2>1. insertQueuedAnalysisRow(db, s) = db
    BY <1>5 DEF insertQueuedAnalysisRow
  <2> QED BY <2>1 DEF Grows
<1> QED BY <1>4, <1>5

LEMMA QueueKeeps ==
  ASSUME NEW db, Fine(db), NEW s, Queues(s)
  PROVE  /\ Fine(QueueAnalysis(db, s))
         /\ \/ Grows(db.rows, QueueAnalysis(db, s).rows, "GameAnalysis")
            \/ Rewrites(db.rows, QueueAnalysis(db, s).rows, "GameAnalysis")
<1>1. CASE Analyses(db, s) = {}
  <2> DEFINE values == AnalysisValues(QueuedColumns, s)
             written == Present(values)
  <2>1. /\ DOMAIN values = QueuedColumns /\ \A c \in QueuedColumns : values[c] \in Values
        /\ \A c \in QueuedColumns \ {"artifact_result_dir"} : values[c] \in Nat
    BY AnalysisValuesFacts
  <2>2. values["artifact_result_dir"] = Nil
    BY DEF AnalysisValues, QueuedColumns
  <2>3. /\ QueuedColumns = RequestedColumns \cup {"artifact_result_dir"}
        /\ "artifact_result_dir" \notin RequestedColumns
    BY DEF QueuedColumns, RequestedColumns
  <2> HIDE DEF values
  <2>4. DOMAIN written = RequestedColumns /\ \A c \in RequestedColumns : written[c] \in Nat
    BY <2>1, <2>2, <2>3 DEF Present, Nil
  <2>5. QueueAnalysis(db, s) = InsertRaw(db, "GameAnalysis", written)
    BY <1>1 DEF QueueAnalysis, values
  <2> HIDE DEF written
  <2>6. Inserts("GameAnalysis", written)
    BY <2>4, AnalysisColumns DEF Inserts
  <2> QED BY <2>5, <2>6, InsertRawKeeps
<1>2. CASE Analyses(db, s) # {}
  <2> DEFINE E == "GameAnalysis"
             cleared == [c \in {"started_at", "finished_at", "last_error"} |-> Nil]
             fresh == AnalysisValues(QueuedColumns \ {"game_id", "created_at"}, s)
             Restarted(row) ==
               IF row.file_hash = s.hash /\ row.analyzer_version # s.version
               THEN cleared ?? fresh ?? row ELSE row
             table == [i \in DOMAIN db.rows[E] |->
                         IF i \in Analyses(db, s) THEN Restarted(db.rows[E][i]) ELSE db.rows[E][i]]
             new == QueueAnalysis(db, s)
  <2>1. new = [db EXCEPT !.rows.GameAnalysis = table]
    BY <1>2 DEF QueueAnalysis
  <2>2. /\ DOMAIN fresh = QueuedColumns \ {"game_id", "created_at"}
        /\ \A c \in DOMAIN fresh : fresh[c] \in Values
        /\ \A c \in DOMAIN fresh \ {"artifact_result_dir"} : fresh[c] \in Nat
    BY AnalysisValuesFacts
  <2>3. /\ "artifact_result_dir" \notin Schema[E].notNull
        /\ QueuedColumns \ {"game_id", "created_at"} \subseteq Cols(E) /\ DOMAIN cleared \subseteq Cols(E)
        /\ DOMAIN cleared \cap Schema[E].notNull = {} /\ "game_id" \notin DOMAIN cleared
    BY AnalysisColumns DEF Cols, Schema, AnalysisCode!Entity, AnalysisCode!NotNull, AnalysisCode!Columns
  <2> HIDE DEF fresh
  <2>4. ASSUME NEW row \in [Cols(E) -> Values], \A c \in Schema[E].notNull : row[c] # Nil
        PROVE  /\ (cleared ?? fresh ?? row) \in [Cols(E) -> Values]
               /\ (cleared ?? fresh ?? row)["game_id"] = row["game_id"]
               /\ \A c \in Schema[E].notNull : (cleared ?? fresh ?? row)[c] # Nil
    <3> DEFINE both == cleared ?? fresh ?? row
    <3>1. both = [c \in Cols(E) |-> both[c]]
      BY <2>2, <2>3, <2>4 DEF ??
    <3>2. \A c \in Cols(E) : both[c] = IF c \in DOMAIN cleared THEN Nil
                                        ELSE IF c \in DOMAIN fresh THEN fresh[c] ELSE row[c]
      BY <2>2, <2>3, <2>4 DEF ??
    <3> HIDE DEF both, cleared
    <3>3. \A c \in Cols(E) : both[c] \in Values
      BY <2>2, <2>4, <3>2 DEF Values
    <3>4. both["game_id"] = row["game_id"]
      BY <2>2, <2>3, <3>2, AnalysisColumns DEF RequestedColumns
    <3>5. \A c \in Schema[E].notNull : both[c] # Nil
      BY <2>2, <2>3, <2>4, <3>2, AnalysisColumns, SchemaFacts DEF Nil
    <3> QED BY <3>1, <3>3, <3>4, <3>5 DEF both
  <2>5. DOMAIN table = DOMAIN db.rows[E]
        /\ \A i \in DOMAIN table :
             table[i] = IF i \in Analyses(db, s) THEN Restarted(db.rows[E][i]) ELSE db.rows[E][i]
    OBVIOUS
  <2>6. \A i \in DOMAIN table : /\ db.rows[E][i] \in [Cols(E) -> Values]
                                /\ \A c \in Schema[E].notNull : db.rows[E][i][c] # Nil
    BY <2>5, AnalysisColumns DEF Fine, Typed, Whole, NothingMissing
  <2> HIDE DEF table, new, cleared
  <2>7. \A i \in DOMAIN table : /\ table[i] \in [Cols(E) -> Values]
                                /\ \A c \in Keys(E) : table[i][c] = db.rows[E][i][c]
                                /\ \A c \in Schema[E].notNull : table[i][c] # Nil
    BY <2>4, <2>5, <2>6, AnalysisColumns
  <2>8. new = [rows |-> [db.rows EXCEPT ![E] = table], next |-> db.next, kept |-> TRUE, failed |-> db.failed]
    BY <2>1 DEF Fine
  <2>9. Fine(new) /\ Rewrites(db.rows, new.rows, E)
    BY <2>5, <2>7, <2>8, AnalysisColumns, RewriteKeeps
  <2> QED BY <2>9 DEF new
<1> QED BY <1>1, <1>2

-----------------------------------------------------------------------------
(* Statements, one after another. *)

Harmless(s) ==
  \/ s.does = "create" /\ Creates(s)
  \/ s.does \in {"update", "update one"} /\ Updates(s)
  \/ s.does = "delete" /\ s.of \in Entities \ {"Game", "User"}
  \/ s.does = "insert" /\ Inserts(s.of, s.set)
  \/ s.does = "ensure" /\ s.of = "User" /\ Creates(s)
  \/ s.does \in {"queue", "request"} /\ Queues(s)

\* A statement that leaves the games and their players as they are.
Quiet(s) == Harmless(s) /\ (s.does \in {"create", "insert", "delete"} => s.of \notin {"Game", "Player"})

\* The users stay, and with them their names; the games stay, and with them their players.
Stays(a, b) ==
  /\ \A i \in DOMAIN a.User : i \in DOMAIN b.User /\ b.User[i].name = a.User[i].name
  /\ DOMAIN b.Game = DOMAIN a.Game /\ DOMAIN b.Player = DOMAIN a.Player
  /\ \A i \in DOMAIN a.Player : b.Player[i].game_players = a.Player[i].game_players

LEMMA KeysFacts ==
  /\ {"User", "Game", "Player"} \subseteq Entities
  /\ "name" \in Keys("User") /\ "game_players" \in Keys("Player")
BY DEF Entities, Schema, Keys, UserCode!Entity, UserCode!Unique, PlayerCode!Entity, PlayerCode!Unique,
       PlayerCode!References

LEMMA ChangesStay ==
  ASSUME NEW a, NEW b, NEW E \in Entities,
         \/ Grows(a, b, E) /\ E \notin {"Game", "Player"}
         \/ Rewrites(a, b, E)
         \/ \E ids : Loses(a, b, E, ids) /\ E \notin {"Game", "Player", "User"}
  PROVE  Stays(a, b)
<1>1. CASE Grows(a, b, E) /\ E \notin {"Game", "Player"}
  BY <1>1, KeysFacts DEF Grows, Stays
<1>2. CASE Rewrites(a, b, E)
  BY <1>2, KeysFacts DEF Rewrites, Stays
<1>3. CASE \E ids : Loses(a, b, E, ids) /\ E \notin {"Game", "Player", "User"}
  BY <1>3, KeysFacts DEF Loses, Stays
<1> QED BY <1>1, <1>2, <1>3

LEMMA ExecuteKeeps ==
  ASSUME NEW db, Fine(db), NEW s, Harmless(s)
  PROVE  Fine(Execute(db, s)) /\ (Quiet(s) => Stays(db.rows, Execute(db, s).rows))
<1> DEFINE new == Execute(db, s)
<1>0. Stays(db.rows, db.rows)
  BY DEF Stays
<1>1. CASE db.failed
  <2>1. new = db
    BY <1>1 DEF Execute
  <2> QED BY <1>0, <2>1
<1>2. CASE ~db.failed /\ s.does = "create" /\ Creates(s)
  <2>1. new = Create(db, s)
    BY <1>2 DEF Execute
  <2>2. Fine(new) /\ Grows(db.rows, new.rows, s.of) /\ s.of \in Entities
    BY <1>2, <2>1, CreateKeeps DEF Creates
  <2> HIDE DEF new
  <2>3. Quiet(s) => Stays(db.rows, new.rows)
    BY <1>2, <2>2, ChangesStay DEF Quiet
  <2> QED BY <2>2, <2>3 DEF new
<1>3. CASE ~db.failed /\ s.does \in {"update", "update one"} /\ Updates(s)
  <2> DEFINE code == Schema[s.of]
  <2>1. s.of \in Entities /\ code.updated = code.updatedOne
    BY <1>3, SchemaAgrees DEF Updates, Agrees, Updatable
  <2>2. new \in {Update(db, s, code.updated), Update(db, s, code.updatedOne), [db EXCEPT !.failed = TRUE]}
    <3>1. CASE s.does = "update"
      BY <1>3, <3>1 DEF Execute
    <3>2. CASE s.does = "update one"
      <4>1. new = UpdateOne(db, s)
        BY <1>3, <3>2 DEF Execute
      <4> QED BY <4>1 DEF UpdateOne
    <3> QED BY <1>3, <3>1, <3>2
  <2>3. CASE new = Update(db, s, code.updated)
    <3>1. Fine(new) /\ Rewrites(db.rows, new.rows, s.of)
      BY <1>3, <2>3, UpdateKeeps
    <3> HIDE DEF new
    <3> QED BY <2>1, <3>1, ChangesStay DEF new
  <2>4. CASE new = [db EXCEPT !.failed = TRUE]
    <3>1. Fine(new) /\ new.rows = db.rows
      BY <2>1, <2>4, FailureKeeps DEF Fine
    <3> HIDE DEF new
    <3> QED BY <1>0, <3>1 DEF new
  <2> HIDE DEF new
  <2> QED BY <2>1, <2>2, <2>3, <2>4
<1>4. CASE ~db.failed /\ s.does = "delete" /\ s.of \in Entities \ {"Game", "User"}
  <2>1. new = Delete(db, s)
    BY <1>4 DEF Execute
  <2>2. \A F \in Entities : \A c \in DOMAIN Schema[F].references : Schema[F].references[c] # s.of
    BY <1>4, SchemaAgrees DEF Agrees, Creatable
  <2>3. Fine(new) /\ Loses(db.rows, new.rows, s.of, s.ids)
    BY <1>4, <2>1, <2>2, DeleteKeeps
  <2> HIDE DEF new
  <2>4. Quiet(s) => Stays(db.rows, new.rows)
    BY <1>4, <2>3, ChangesStay DEF Quiet
  <2> QED BY <2>3, <2>4 DEF new
<1>5. CASE ~db.failed /\ s.does = "insert" /\ Inserts(s.of, s.set)
  <2>1. new = InsertRaw(db, s.of, s.set)
    BY <1>5 DEF Execute
  <2>2. Fine(new) /\ Grows(db.rows, new.rows, s.of) /\ s.of \in Entities
    BY <1>5, <2>1, InsertRawKeeps DEF Inserts
  <2> HIDE DEF new
  <2>3. Quiet(s) => Stays(db.rows, new.rows)
    BY <1>5, <2>2, ChangesStay DEF Quiet
  <2> QED BY <2>2, <2>3 DEF new
<1>6. CASE ~db.failed /\ s.does = "ensure" /\ s.of = "User" /\ Creates(s)
  <2>1. new = EnsureUser(db, s)
    BY <1>6 DEF Execute
  <2>2. CASE new = Create(db, s)
    <3>1. Fine(new) /\ Grows(db.rows, new.rows, "User")
      BY <1>6, <2>2, CreateKeeps
    <3> HIDE DEF new
    <3> QED BY <3>1, KeysFacts, ChangesStay DEF new
  <2>3. CASE new = db
    <3> HIDE DEF new
    <3> QED BY <1>0, <2>3 DEF new
  <2> HIDE DEF new
  <2> QED BY <2>1, <2>2, <2>3 DEF EnsureUser
<1>7. CASE ~db.failed /\ s.does = "queue" /\ Queues(s)
  <2>1. new = QueueAnalysis(db, s)
    BY <1>7 DEF Execute
  <2>2. Fine(new) /\ (Grows(db.rows, new.rows, "GameAnalysis") \/ Rewrites(db.rows, new.rows, "GameAnalysis"))
    BY <1>7, <2>1, QueueKeeps
  <2> HIDE DEF new
  <2> QED BY <2>2, AnalysisColumns, ChangesStay DEF new
<1>8. CASE ~db.failed /\ s.does = "request" /\ Queues(s)
  <2>1. new = insertQueuedAnalysisRow(db, s)
    BY <1>8 DEF Execute
  <2>2. Fine(new) /\ Grows(db.rows, new.rows, "GameAnalysis")
    BY <1>8, <2>1, RequestKeeps
  <2> HIDE DEF new
  <2> QED BY <2>2, AnalysisColumns, ChangesStay DEF new
<1>9. db.failed \in BOOLEAN
  BY DEF Fine
<1> HIDE DEF new
<1> QED BY <1>1, <1>2, <1>3, <1>4, <1>5, <1>6, <1>7, <1>8, <1>9 DEF Harmless, new

-----------------------------------------------------------------------------
(* A transaction is a run over its statements. *)

\* What induction over the statements of a list rests on.
LEMMA LeastNumber ==
  ASSUME NEW T \in SUBSET Nat, T # {} PROVE \E n \in T : \A m \in T : n <= m
<1>1. \E n \in T : \A m \in T : ~(<<m, n>> \in OpToRel(<, Nat))
  BY NatLessThanWellFounded, WFMin
<1>2. OpToRel(<, Nat) = {pair \in Nat \X Nat : pair[1] < pair[2]}
  BY DEF OpToRel
<1>3. \A m, n \in Nat : ~(<<m, n>> \in {pair \in Nat \X Nat : pair[1] < pair[2]}) => n <= m
  OBVIOUS
<1> QED BY <1>1, <1>2, <1>3

LEMMA UpTo ==
  ASSUME NEW n \in Nat, NEW Bad \in SUBSET (0 .. n), 0 \notin Bad,
         \A i \in 1 .. n : i - 1 \notin Bad => i \notin Bad
  PROVE  Bad = {}
<1> SUFFICES ASSUME Bad # {} PROVE FALSE
  OBVIOUS
<1>1. PICK m \in Bad : \A k \in Bad : m <= k
  BY LeastNumber
<1>2. m \in 1 .. n /\ ~(m <= m - 1)
  OBVIOUS
<1> QED BY <1>1, <1>2

\* The database after each statement, up to statement n.
RunTo(after, start, list, n) ==
  after = [k \in 0 .. n |-> IF k = 0 THEN start ELSE Execute(after[k - 1], list[k])]

LEMMA RunExists ==
  ASSUME NEW start, NEW list, NEW n \in Nat
  PROVE  \E after : RunTo(after, start, list, n)
<1> DEFINE Bad == {k \in 0 .. n : ~\E after : RunTo(after, start, list, k)}
<1>1. \E after : RunTo(after, start, list, 0)
  <2> DEFINE after == [k \in 0 .. 0 |-> start]
  <2>1. \A k \in 0 .. 0 : k = 0
    OBVIOUS
  <2>2. RunTo(after, start, list, 0)
    BY <2>1 DEF RunTo
  <2> QED BY <2>2
<1>2. ASSUME NEW k \in 1 .. n, NEW old, RunTo(old, start, list, k - 1)
      PROVE  \E after : RunTo(after, start, list, k)
  <2> DEFINE after == [i \in 0 .. k |-> IF i = k THEN Execute(old[k - 1], list[k]) ELSE old[i]]
  <2>1. \A i \in 1 .. k - 1 : i \in 0 .. k - 1 /\ i - 1 \in 0 .. k - 1 /\ i # k /\ i - 1 # k
    OBVIOUS
  <2>2. k \in Nat \ {0} /\ k - 1 \in 0 .. k /\ k - 1 # k /\ 0 # k /\ 0 \in 0 .. k - 1 /\ 0 \in 0 .. k
    OBVIOUS
  <2>3. old[0] = start /\ \A i \in 1 .. k - 1 : old[i] = Execute(old[i - 1], list[i])
    BY <1>2, <2>1, <2>2 DEF RunTo
  <2>4. after[0] = start /\ after[k] = Execute(old[k - 1], list[k]) /\ after[k - 1] = old[k - 1]
    BY <2>2, <2>3
  <2>5. \A i \in 1 .. k - 1 : after[i] = old[i] /\ after[i - 1] = old[i - 1]
    BY <2>1
  <2>6. \A i \in 0 .. k : i = 0 \/ i = k \/ i \in 1 .. k - 1
    OBVIOUS
  <2>7. after = [i \in 0 .. k |-> after[i]]
    OBVIOUS
  <2> HIDE DEF after
  <2>8. \A i \in 0 .. k : after[i] = IF i = 0 THEN start ELSE Execute(after[i - 1], list[i])
    BY <2>2, <2>3, <2>4, <2>5, <2>6
  <2>9. RunTo(after, start, list, k)
    BY <2>7, <2>8 DEF RunTo
  <2> QED BY <2>9
<1>3. Bad = {}
  <2>1. Bad \in SUBSET (0 .. n) /\ 0 \notin Bad
    BY <1>1
  <2>2. ASSUME NEW i \in 1 .. n, i - 1 \notin Bad PROVE i \notin Bad
    <3>1. i - 1 \in 0 .. n
      OBVIOUS
    <3> QED BY <1>2, <2>2, <3>1
  <2> HIDE DEF Bad
  <2> QED BY <2>1, <2>2, UpTo
<1>4. n \in 0 .. n
  OBVIOUS
<1> QED BY <1>3, <1>4

Now0 == [rows |-> tables, next |-> serials, kept |-> wordKept, failed |-> FALSE]

LEMMA OutcomeRuns ==
  ASSUME NEW list, Len(list) \in Nat
  PROVE  \E after : /\ after[0] = Now0 /\ Outcome(list) = after[Len(list)]
                    /\ \A k \in 1 .. Len(list) : after[k] = Execute(after[k - 1], list[k])
<1> DEFINE n == Len(list)
           after == CHOOSE x : RunTo(x, Now0, list, n)
<1>1. RunTo(after, Now0, list, n)
  BY RunExists, Zenon
<1>2. Outcome(list) = after[n]
  BY Zenon DEF Outcome, RunTo, Now0
<1> HIDE DEF after
<1>3. 0 \in 0 .. n /\ \A k \in 1 .. n : k \in 0 .. n /\ k # 0
  OBVIOUS
<1>4. after[0] = Now0 /\ \A k \in 1 .. n : after[k] = Execute(after[k - 1], list[k])
  BY <1>1, <1>3 DEF RunTo
<1> QED BY <1>2, <1>4

LEMMA StaysOn ==
  ASSUME NEW a, NEW b, NEW c, Stays(a, b), Stays(b, c) PROVE Stays(a, c)
BY DEF Stays

\* Harmless statements, in whatever number and order, leave a database that is fine, and quiet
\* ones leave the games as they were.
LEMMA OutcomeKeeps ==
  ASSUME Fine(Now0), NEW list, Len(list) \in Nat, \A k \in 1 .. Len(list) : Harmless(list[k])
  PROVE  /\ Fine(Outcome(list))
         /\ (\A k \in 1 .. Len(list) : Quiet(list[k])) => Stays(tables, Outcome(list).rows)
<1> DEFINE n == Len(list)
           quiet == \A k \in 1 .. n : Quiet(list[k])
<1>1. PICK after : /\ after[0] = Now0 /\ Outcome(list) = after[n]
                   /\ \A k \in 1 .. n : after[k] = Execute(after[k - 1], list[k])
  BY OutcomeRuns
<1> DEFINE Good(k) == Fine(after[k]) /\ (quiet => Stays(tables, after[k].rows))
           Bad == {k \in 0 .. n : ~Good(k)}
<1>2. Good(0)
  <2>1. Now0.rows = tables
    BY DEF Now0
  <2>2. Stays(tables, tables)
    BY DEF Stays
  <2> QED BY <1>1, <2>1, <2>2
<1>3. ASSUME NEW k \in 1 .. n, Good(k - 1) PROVE Good(k)
  <2>1. after[k] = Execute(after[k - 1], list[k])
    BY <1>1
  <2>2. Fine(after[k]) /\ (Quiet(list[k]) => Stays(after[k - 1].rows, after[k].rows))
    BY <1>3, <2>1, ExecuteKeeps
  <2> QED BY <1>3, <2>2, StaysOn
<1> HIDE DEF Good
<1>4. Bad = {}
  <2>1. Bad \in SUBSET (0 .. n) /\ 0 \notin Bad
    BY <1>2
  <2>2. \A i \in 1 .. n : i - 1 \notin Bad => i \notin Bad
    <3> SUFFICES ASSUME NEW i \in 1 .. n, i - 1 \notin Bad PROVE i \notin Bad
      OBVIOUS
    <3>1. i - 1 \in 0 .. n
      OBVIOUS
    <3> QED BY <1>3, <3>1
  <2> HIDE DEF Bad
  <2> QED BY <2>1, <2>2, UpTo
<1>5. Good(n)
  BY <1>4
<1> QED BY <1>1, <1>5 DEF Good

-----------------------------------------------------------------------------
(* What the handlers hand to the database. *)

AllHarmless(list) == \E S : list \in Seq(S) /\ \A s \in S : Harmless(s)
AllQuiet(list) == \E S : list \in Seq(S) /\ \A s \in S : Quiet(s)

LEMMA QuietIsHarmless == ASSUME NEW list, AllQuiet(list) PROVE AllHarmless(list)
BY DEF AllQuiet, AllHarmless, Quiet

LEMMA NoStatement == AllQuiet(<<>>)
<1>1. PICK S : S = {}
  OBVIOUS
<1>2. <<>> \in Seq(S) /\ \A s \in S : Quiet(s)
  BY <1>1
<1> QED BY <1>2 DEF AllQuiet

LEMMA OneStatement == ASSUME NEW s, Quiet(s) PROVE AllQuiet(<<s>>)
<1>1. PICK S : S = {s}
  OBVIOUS
<1>2. <<s>> \in Seq(S) /\ \A x \in S : Quiet(x)
  BY <1>1
<1> QED BY <1>2 DEF AllQuiet

LEMMA TwoStatements == ASSUME NEW r, NEW s, Quiet(r), Quiet(s) PROVE AllQuiet(<<r, s>>)
<1>1. PICK S : S = {r, s}
  OBVIOUS
<1>2. <<r, s>> \in Seq(S) /\ \A x \in S : Quiet(x)
  BY <1>1
<1> QED BY <1>2 DEF AllQuiet

LEMMA OneHarmless == ASSUME NEW s, Harmless(s) PROVE AllHarmless(<<s>>)
<1>1. PICK S : S = {s}
  OBVIOUS
<1>2. <<s>> \in Seq(S) /\ \A x \in S : Harmless(x)
  BY <1>1
<1> QED BY <1>2 DEF AllHarmless

LEMMA JoinedSequences ==
  ASSUME NEW S, NEW T, NEW a \in Seq(S), NEW b \in Seq(T) PROVE a \o b \in Seq(S \cup T)
<1>1. a \in Seq(S \cup T) /\ b \in Seq(S \cup T)
  OBVIOUS
<1> QED BY <1>1

LEMMA QuietJoined == ASSUME NEW a, NEW b, AllQuiet(a), AllQuiet(b) PROVE AllQuiet(a \o b)
<1>1. PICK S : a \in Seq(S) /\ \A s \in S : Quiet(s)
  BY DEF AllQuiet
<1>2. PICK T : b \in Seq(T) /\ \A s \in T : Quiet(s)
  BY DEF AllQuiet
<1>3. a \o b \in Seq(S \cup T)
  BY <1>1, <1>2, JoinedSequences
<1>4. \A s \in S \cup T : Quiet(s)
  BY <1>1, <1>2
<1> QED BY <1>3, <1>4, Zenon DEF AllQuiet

LEMMA HarmlessJoined == ASSUME NEW a, NEW b, AllHarmless(a), AllHarmless(b) PROVE AllHarmless(a \o b)
<1>1. PICK S : a \in Seq(S) /\ \A s \in S : Harmless(s)
  BY DEF AllHarmless
<1>2. PICK T : b \in Seq(T) /\ \A s \in T : Harmless(s)
  BY DEF AllHarmless
<1>3. a \o b \in Seq(S \cup T)
  BY <1>1, <1>2, JoinedSequences
<1>4. \A s \in S \cup T : Harmless(s)
  BY <1>1, <1>2
<1> QED BY <1>3, <1>4, Zenon DEF AllHarmless

LEMMA EnsuringIsQuiet == ASSUME NEW name \in Nat PROVE Quiet(Ensuring(name))
BY DEF Ensuring, Quiet, Harmless, Creates, Entities, Schema, UserCode!Entity, UserCode!Columns,
       UserCode!InsertedEdges

LEMMA FileIsQuiet ==
  ASSUME NEW u \in StoredUploads, NEW game \in Nat, NEW user \in Nat
  PROVE  Quiet(CreatingFile(u, game, user))
<1> DEFINE s == CreatingFile(u, game, user)
<1>1. u.hash \in Nat
  BY StoreAssumption
<1>2. /\ s.does = "create" /\ s.of = "ReplayFile" /\ s.set = [file_hash |-> u.hash, filename |-> Some]
      /\ s.links = [game |-> game, uploader |-> user]
  BY DEF CreatingFile, Creating
<1> HIDE DEF s
<1>3. Creates(s)
  BY <1>1, <1>2 DEF Creates, Entities, Schema, FileCode!Entity, FileCode!Columns, FileCode!InsertedEdges, Some
<1> QED BY <1>2, <1>3 DEF s, Quiet, Harmless

LEMMA QueueingIsQuiet ==
  ASSUME NEW game \in Nat, NEW hash \in Nat, NEW version \in Nat
  PROVE  Quiet(Queueing(game, hash, version)) /\ Quiet(Requesting(game, hash))
BY DEF Queueing, Requesting, Quiet, Harmless, Queues, Some

LEMMA PlayerIsHarmless ==
  ASSUME NEW p, p.name \in Nat, p.slot \in Nat, NEW no, NEW game \in Nat
  PROVE  Harmless(CreatingPlayer(p, no, game))
<1> DEFINE s == CreatingPlayer(p, no, game)
           named == [name |-> p.name, player_id |-> p.slot, is_random_selected |-> RandomFlag(no)]
           others == [c \in Schema.Player.columns \ {"created_at"} |-> Some]
<1>1. s.does = "create" /\ s.of = "Player" /\ s.set = named ?? others /\ s.links = [game |-> game]
  BY DEF CreatingPlayer, Creating
<1>2. RandomFlag(no) \in Nat
  BY DEF RandomFlag, Some, Zero
<1>3. DOMAIN named \subseteq Schema.Player.columns /\ \A c \in DOMAIN named : named[c] \in Nat
  BY <1>2 DEF Schema, PlayerCode!Entity, PlayerCode!Columns
<1>4. DOMAIN others \subseteq Schema.Player.columns /\ \A c \in DOMAIN others : others[c] \in Nat
  BY DEF Some
<1> HIDE DEF s, named, others
<1>5. DOMAIN s.set \subseteq Schema.Player.columns /\ \A c \in DOMAIN s.set : s.set[c] \in Nat
  BY <1>1, <1>3, <1>4 DEF ??
<1>6. /\ "Player" \in Entities /\ Schema.Player.columns \cap DOMAIN Schema.Player.insertedEdges = {}
      /\ \A c \in DOMAIN Schema.Player.insertedEdges : s.links[Schema.Player.insertedEdges[c]] \in Nat
  BY <1>1 DEF Entities, Schema, PlayerCode!Entity, PlayerCode!Columns, PlayerCode!InsertedEdges
<1>7. Creates(s)
  BY <1>1, <1>5, <1>6 DEF Creates
<1> QED BY <1>1, <1>7 DEF s, Harmless

LEMMA PresentFacts ==
  ASSUME NEW label \in Values, NEW no \in Values,
         NEW f, f = Present([season_label |-> label, season_no |-> no])
  PROVE  DOMAIN f \subseteq {"season_label", "season_no"} /\ \A c \in DOMAIN f : f[c] \in Nat
BY DEF Present, Values, Nil

LEMMA GameIsHarmless ==
  ASSUME NEW u \in StoredUploads
  PROVE  Harmless(CreatingGame(u))
<1> DEFINE s == CreatingGame(u)
           season == Present([season_label |-> u.label, season_no |-> u.no])
           key == [host |-> u.host, start_time |-> u.start]
           others == [c \in {"map_name", "map_width", "map_height", "game_length", "game_type", "game_speed",
                             "title", "player_count", "upload_count", "winner_team"} |-> Some]
<1>1. s.does = "create" /\ s.of = "Game" /\ s.set = season ?? key ?? others /\ s.links = <<>>
  BY DEF CreatingGame, Creating
<1>2. u.label \in Values /\ u.no \in Values /\ u.host \in Nat /\ u.start \in Nat
  BY StoreAssumption DEF Values
<1>3. DOMAIN season \subseteq {"season_label", "season_no"} /\ \A c \in DOMAIN season : season[c] \in Nat
  BY <1>2, PresentFacts
<1>4. DOMAIN key = {"host", "start_time"} /\ \A c \in DOMAIN key : key[c] \in Nat
  BY <1>2
<1>5. \A c \in DOMAIN others : others[c] \in Nat
  BY DEF Some
<1>6. DOMAIN others \cup {"season_label", "season_no", "host", "start_time"} \subseteq Schema.Game.columns
  BY DEF Schema, GameCode!Entity, GameCode!Columns
<1> HIDE DEF s, season, key, others
<1>7. DOMAIN s.set \subseteq Schema.Game.columns /\ \A c \in DOMAIN s.set : s.set[c] \in Nat
  BY <1>1, <1>3, <1>4, <1>5, <1>6 DEF ??
<1>8. "Game" \in Entities /\ DOMAIN Schema.Game.insertedEdges = {}
  BY DEF Entities, Schema, GameCode!Entity, GameCode!InsertedEdges
<1>9. Creates(s)
  BY <1>1, <1>7, <1>8 DEF Creates
<1> QED BY <1>1, <1>9 DEF s, Harmless

LEMMA DetailIsQuiet ==
  ASSUME NEW columns \in SUBSET DetailCode!Columns, NEW game \in Nat
  PROVE  Quiet(Creating("GameDetail", [c \in columns |-> Some], [game |-> game]))
BY DEF Creating, Quiet, Harmless, Creates, Entities, Schema, DetailCode!Entity, DetailCode!Columns,
       DetailCode!InsertedEdges, Some

LEMMA GameUpdateIsQuiet ==
  ASSUME NEW game, NEW set, NEW add,
         \A c \in DOMAIN set : set[c] \in Nat, \A c \in DOMAIN add : add[c] \in Nat,
         DOMAIN set \subseteq {"season_label", "season_no"}, DOMAIN add \subseteq {"upload_count"}
  PROVE  Quiet(Updating("Game", game, set, add))
<1> DEFINE s == Updating("Game", game, set, add)
<1>1. s.does = "update one" /\ s.of = "Game" /\ s.set = set /\ s.add = add
  BY DEF Updating
<1>4. Keys("Game") = {"host", "start_time"}
  <2>1. Schema["Game"].references = <<>> /\ Schema["Game"].unique = {{"host", "start_time"}}
    BY DEF Schema, GameCode!Entity, GameCode!References, GameCode!Unique
  <2>2. DOMAIN <<>> = {}
    OBVIOUS
  <2> QED BY <2>1, <2>2 DEF Keys
<1>2. /\ "Game" \in Entities
      /\ Schema["Game"].updateDefaults = {"updated_at"}
      /\ {"season_label", "season_no"} \subseteq Schema["Game"].updated
      /\ "upload_count" \in Schema["Game"].addedFields
  BY DEF Entities, Schema, GameCode!Entity, GameCode!UpdateDefaults, GameCode!Updated,
         GameCode!Columns, GameCode!AddedFields
<1> HIDE DEF s
<1>3. Updates(s)
  BY <1>1, <1>2, <1>4 DEF Updates
<1> QED BY <1>1, <1>3 DEF s, Quiet, Harmless

LEMMA PlayersUpdateIsQuiet ==
  ASSUME NEW ids, NEW flag \in Nat
  PROVE  Quiet(UpdatingAll("Player", ids, [is_random_selected |-> flag]))
<1> DEFINE s == UpdatingAll("Player", ids, [is_random_selected |-> flag])
<1>1. s.does = "update" /\ s.of = "Player" /\ s.set = [is_random_selected |-> flag] /\ s.add = <<>>
  BY DEF UpdatingAll
<1>2. /\ "Player" \in Entities /\ Keys("Player") = {"player_id", "game_players"}
      /\ Schema["Player"].updateDefaults = {} /\ "is_random_selected" \in Schema["Player"].updated
  BY DEF Entities, Schema, Keys, PlayerCode!Entity, PlayerCode!References, PlayerCode!Unique,
         PlayerCode!UpdateDefaults,
         PlayerCode!Updated, PlayerCode!Columns
<1>3. DOMAIN <<>> = {}
  OBVIOUS
<1> HIDE DEF s
<1>4. Updates(s)
  BY <1>1, <1>2, <1>3 DEF Updates
<1> QED BY <1>1, <1>4 DEF s, Quiet, Harmless

LEMMA StampIsQuiet ==
  ASSUME NEW game, NEW label \in Values, NEW no \in Values
  PROVE  AllQuiet(Stamp(game, label, no))
<1> DEFINE f == Present([season_label |-> label, season_no |-> no])
           first == <<Updating("Game", game, f, <<>>)>>
           second == IF no = Nil THEN <<>>
                     ELSE <<UpdatingAll("Player", Holding(Schema.Player.has.game, game),
                                        [is_random_selected |-> RandomFlag(no)])>>
<1>1. DOMAIN f \subseteq {"season_label", "season_no"} /\ \A c \in DOMAIN f : f[c] \in Nat
  BY PresentFacts
<1>2. DOMAIN <<>> = {}
  OBVIOUS
<1> HIDE DEF f
<1>3. AllQuiet(first)
  BY <1>1, <1>2, GameUpdateIsQuiet, OneStatement
<1>4. RandomFlag(no) \in Nat
  BY DEF RandomFlag, Some, Zero
<1>5. AllQuiet(second)
  BY <1>4, NoStatement, OneStatement, PlayersUpdateIsQuiet
<1>6. Stamp(game, label, no) = first \o second
  BY DEF Stamp, f
<1> HIDE DEF first, second
<1> QED BY <1>3, <1>5, <1>6, QuietJoined

LEMMA SettingIsQuiet ==
  ASSUME NEW v \in Nat, NEW id
  PROVE  /\ Quiet(Creating("AppSetting", [key |-> Some, value |-> v], <<>>))
         /\ Quiet(Updating("AppSetting", id, [value |-> v], <<>>))
<1>1. Quiet(Creating("AppSetting", [key |-> Some, value |-> v], <<>>))
  BY DEF Creating, Quiet, Harmless, Creates, Entities, Schema, SettingCode!Entity, SettingCode!Columns,
         SettingCode!InsertedEdges, Some
<1> DEFINE s == Updating("AppSetting", id, [value |-> v], <<>>)
<1>2. s.does = "update one" /\ s.of = "AppSetting" /\ s.set = [value |-> v] /\ s.add = <<>>
  BY DEF Updating
<1>3. /\ "AppSetting" \in Entities
      /\ Schema["AppSetting"].updateDefaults = {"updated_at"} /\ "value" \in Schema["AppSetting"].updated
  BY DEF Entities, Schema, SettingCode!Entity, SettingCode!UpdateDefaults, SettingCode!Updated
<1>4. DOMAIN <<>> = {}
  OBVIOUS
<1>6. Keys("AppSetting") = {"key"}
  <2>1. Schema["AppSetting"].references = <<>> /\ Schema["AppSetting"].unique = {{"key"}}
    BY DEF Schema, SettingCode!Entity, SettingCode!References, SettingCode!Unique
  <2> QED BY <1>4, <2>1 DEF Keys
<1> HIDE DEF s
<1>5. Updates(s)
  <2>1. DOMAIN [value |-> v] = {"value"} /\ [value |-> v]["value"] = v
    OBVIOUS
  <2>2. DOMAIN s.set = {"value"} /\ s.set["value"] = v
    BY <1>2, <2>1
  <2>3. DOMAIN s.add = {}
    BY <1>2, <1>4
  <2> QED BY <1>2, <1>3, <1>6, <2>2, <2>3 DEF Updates
<1> QED BY <1>1, <1>2, <1>5 DEF s, Quiet, Harmless

LEMMA SnapshotIsQuiet ==
  ASSUME NEW E \in DOMAIN SnapshotColumns
  PROVE  AllQuiet(<<Deleting(E, DOMAIN tables[E]), Inserting(E, [c \in SnapshotColumns[E] |-> Some])>>)
<1> DEFINE first == Deleting(E, DOMAIN tables[E])
           second == Inserting(E, [c \in SnapshotColumns[E] |-> Some])
<1>1. E \in {"Ranking3v3", "AnalyzerRaceMatchup"}
  BY DEF SnapshotColumns
<1>2. Quiet(first)
  BY <1>1 DEF Deleting, Quiet, Harmless, Entities, Schema
<1>3. /\ E \in Entities /\ SnapshotColumns[E] \subseteq Schema[E].columns
      /\ Schema[E].notNull \subseteq SnapshotColumns[E]
  <2>1. CASE E = "Ranking3v3"
    BY <2>1 DEF SnapshotColumns, Entities, Schema, RankingCode!Entity, RankingCode!Columns, RankingCode!NotNull
  <2>2. CASE E = "AnalyzerRaceMatchup"
    BY <2>2 DEF SnapshotColumns, Entities, Schema, MatchupCode!Entity, MatchupCode!Columns, MatchupCode!NotNull
  <2> QED BY <1>1, <2>1, <2>2
<1>4. Inserts(E, [c \in SnapshotColumns[E] |-> Some])
  BY <1>3 DEF Inserts, Some
<1>5. Quiet(second)
  BY <1>1, <1>4 DEF Inserting, Quiet, Harmless
<1> HIDE DEF first, second
<1> QED BY <1>2, <1>5, TwoStatements DEF first, second

LEMMA DataIsQuiet ==
  ASSUME NEW u \in StoredUploads, NEW game \in Nat, NEW version \in {Some, 2}
  PROVE  AllQuiet(QueueingData(u, game, version))
<1>1. u.hash \in Nat /\ version \in Nat
  BY StoreAssumption DEF Some
<1> QED BY <1>1, QueueingIsQuiet, OneStatement, NoStatement DEF QueueingData

LEMMA AddingIsQuiet ==
  ASSUME NEW u \in StoredUploads, NEW game \in Nat, NEW user \in Nat, NEW version \in {Some, 2}
  PROVE  AllQuiet(addReplayFileToGame(u, game, user, version))
<1> DEFINE first == <<CreatingFile(u, game, user)>>
           second == QueueingData(u, game, version)
           third == <<Updating("Game", game, <<>>, [upload_count |-> 1])>>
<1>1. AllQuiet(first) /\ AllQuiet(second)
  BY FileIsQuiet, OneStatement, DataIsQuiet
<1>2. AllQuiet(third)
  <2>1. DOMAIN <<>> = {} /\ DOMAIN [upload_count |-> 1] = {"upload_count"}
    OBVIOUS
  <2>2. Quiet(Updating("Game", game, <<>>, [upload_count |-> 1]))
    BY <2>1, GameUpdateIsQuiet
  <2> QED BY <2>2, OneStatement
<1>3. addReplayFileToGame(u, game, user, version) = first \o second \o third
  BY DEF addReplayFileToGame
<1> HIDE DEF first, second, third
<1>4. AllQuiet(first \o second)
  BY <1>1, QuietJoined
<1> QED BY <1>2, <1>3, <1>4, QuietJoined

LEMMA NewGameIsHarmless ==
  ASSUME NEW u \in StoredUploads, NEW user \in Nat, NEW version \in {Some, 2}, serials.Game \in Nat
  PROVE  AllHarmless(createGameRows(u, user, version))
<1> DEFINE game == serials.Game
           a == <<CreatingGame(u)>>
           b == [k \in DOMAIN u.players |-> Ensuring(u.players[k].name)]
           c == [k \in DOMAIN u.players |-> CreatingPlayer(u.players[k], u.no, game)]
           d == <<CreatingFile(u, game, user)>>
           e == QueueingData(u, game, version)
           f == IF u.details = {} THEN <<>>
                ELSE <<Creating("GameDetail", [x \in UNION u.details |-> Some], [game |-> game])>>
<1>1. /\ u.players \in Seq([name : Nat, slot : Nat]) /\ UNION u.details \in SUBSET DetailCode!Columns
      /\ game \in Nat
  BY StoreAssumption
<1>2. AllHarmless(a)
  BY GameIsHarmless, OneHarmless
<1>3. /\ DOMAIN u.players = 1 .. Len(u.players) /\ Len(u.players) \in Nat
      /\ \A k \in DOMAIN u.players : u.players[k] \in [name : Nat, slot : Nat]
  <2>1. ASSUME NEW S, NEW list \in Seq(S)
        PROVE  /\ DOMAIN list = 1 .. Len(list) /\ Len(list) \in Nat
               /\ \A k \in DOMAIN list : list[k] \in S
    BY <2>1
  <2> QED BY <1>1, <2>1
<1>4. ASSUME NEW S, NEW list, DOMAIN list = DOMAIN u.players, list = [k \in DOMAIN list |-> list[k]],
             \A k \in DOMAIN list : list[k] \in S
      PROVE  list \in Seq(S)
  BY <1>3, <1>4
<1>5. AllHarmless(b)
  <2> DEFINE S == {Ensuring(name) : name \in Nat}
  <2>1. \A s \in S : Harmless(s)
    BY EnsuringIsQuiet DEF Quiet
  <2>2. \A k \in DOMAIN b : b[k] \in S
    BY <1>3
  <2>3. DOMAIN b = DOMAIN u.players /\ b = [k \in DOMAIN b |-> b[k]]
    OBVIOUS
  <2> HIDE DEF S, b
  <2>4. b \in Seq(S)
    BY <1>4, <2>2, <2>3
  <2> QED BY <2>1, <2>4 DEF AllHarmless
<1>6. AllHarmless(c)
  <2> DEFINE S == {CreatingPlayer(p, u.no, game) : p \in [name : Nat, slot : Nat]}
  <2>1. \A s \in S : Harmless(s)
    BY <1>1, PlayerIsHarmless
  <2>2. \A k \in DOMAIN c : c[k] \in S
    BY <1>3
  <2>3. DOMAIN c = DOMAIN u.players /\ c = [k \in DOMAIN c |-> c[k]]
    OBVIOUS
  <2> HIDE DEF S, c
  <2>4. c \in Seq(S)
    BY <1>4, <2>2, <2>3
  <2> QED BY <2>1, <2>4 DEF AllHarmless
<1>7. AllHarmless(d) /\ AllHarmless(e)
  BY <1>1, FileIsQuiet, OneStatement, DataIsQuiet, QuietIsHarmless
<1>8. AllHarmless(f)
  BY <1>1, DetailIsQuiet, OneStatement, NoStatement, QuietIsHarmless
<1>9. createGameRows(u, user, version) = a \o b \o c \o d \o e \o f
  BY DEF createGameRows
<1> HIDE DEF a, b, c, d, e, f
<1>10. AllHarmless(a \o b)
  BY <1>2, <1>5, HarmlessJoined
<1>11. AllHarmless(a \o b \o c)
  BY <1>6, <1>10, HarmlessJoined
<1>12. AllHarmless(a \o b \o c \o d)
  BY <1>7, <1>11, HarmlessJoined
<1>13. AllHarmless(a \o b \o c \o d \o e)
  BY <1>7, <1>12, HarmlessJoined
<1> QED BY <1>8, <1>9, <1>13, HarmlessJoined

-----------------------------------------------------------------------------
(* A game goes with everything that refers to it. *)

Erasing(game) ==
  <<Deleting("Player", RowsWith("Player", "game_players", game)),
    Deleting("ReplayFile", RowsWith("ReplayFile", "game_replay_files", game)),
    Deleting("GameAnalysis", RowsWith("GameAnalysis", "game_id", game)),
    Deleting("GameDetail", RowsWith("GameDetail", "game_game_detail", game)),
    Deleting("Game", {game})>>

LEMMA FourAndOne ==
  ASSUME NEW a, NEW b, NEW c, NEW d, NEW e
  PROVE  <<a, b, c, d>> \o <<e>> = <<a, b, c, d, e>>
<1> DEFINE S == {a, b, c, d, e}
<1>1. <<a, b, c, d>> \in Seq(S) /\ <<e>> \in Seq(S) /\ <<a, b, c, d, e>> \in Seq(S)
  OBVIOUS
<1> DEFINE first == <<a, b, c, d>>
           both == <<a, b, c, d>> \o <<e>>
           all == <<a, b, c, d, e>>
<1>2. /\ Len(first) = 4 /\ Len(<<e>>) = 1 /\ Len(all) = 5
      /\ first[1] = a /\ first[2] = b /\ first[3] = c /\ first[4] = d /\ <<e>>[1] = e
      /\ all[1] = a /\ all[2] = b /\ all[3] = c /\ all[4] = d /\ all[5] = e
  OBVIOUS
<1>3. /\ both \in Seq(S) /\ Len(both) = 5
      /\ \A i \in 1 .. 5 : both[i] = IF i <= 4 THEN first[i] ELSE <<e>>[i - 4]
  BY <1>1, <1>2, ConcatProperties
<1> HIDE DEF both, all, first, S
<1>4. \A i \in 1 .. 5 : both[i] = all[i]
  <2>1. \A i \in 1 .. 5 : i \in {1, 2, 3, 4, 5}
    OBVIOUS
  <2>2. both[1] = a /\ both[2] = b /\ both[3] = c /\ both[4] = d /\ both[5] = e
    BY <1>2, <1>3
  <2> QED BY <1>2, <2>1, <2>2
<1>5. all \in Seq(S)
  BY <1>1 DEF all
<1>6. both = all
  BY <1>2, <1>3, <1>4, <1>5, SeqEqual
<1> QED BY <1>6 DEF both, all

\* DeleteGame's list of tables, by the edges that the query of a game loads.
LEMMA CascadeIsErasing ==
  ASSUME NEW game
  PROVE  LET edges == Range(Schema.Game.loads)
             Children(E) == UNION {Holding(edge, game) : edge \in {x \in edges : x[1] = E}}
             Cascade(E) == Deleting(E, Children(E))
         IN  [k \in DOMAIN DeletedWithGame |-> Cascade(DeletedWithGame[k])] \o <<Deleting("Game", {game})>>
               = Erasing(game)
<1> DEFINE edges == Range(Schema.Game.loads)
           Children(E) == UNION {Holding(edge, game) : edge \in {x \in edges : x[1] = E}}
           Cascade(E) == Deleting(E, Children(E))
           first == [k \in DOMAIN DeletedWithGame |-> Cascade(DeletedWithGame[k])]
           list == first \o <<Deleting("Game", {game})>>
<1>1. edges = {<<"Player", "game_players">>, <<"ReplayFile", "game_replay_files">>,
               <<"GameDetail", "game_game_detail">>, <<"GameAnalysis", "game_id">>}
  <2>1. Schema.Game.loads = [players |-> <<"Player", "game_players">>,
                             replay_files |-> <<"ReplayFile", "game_replay_files">>,
                             game_detail |-> <<"GameDetail", "game_game_detail">>,
                             analysis |-> <<"GameAnalysis", "game_id">>]
    BY DEF Schema, GameCode!Entity, GameCode!Loads
  <2> QED BY <2>1 DEF Range
<1> HIDE DEF edges
<1>2. \A column, E : {x \in edges : x[1] = E} = {<<E, column>>} => Children(E) = RowsWith(E, column, game)
  BY DEF RowsWith
<1>3. /\ {x \in edges : x[1] = "Player"} = {<<"Player", "game_players">>}
      /\ {x \in edges : x[1] = "ReplayFile"} = {<<"ReplayFile", "game_replay_files">>}
      /\ {x \in edges : x[1] = "GameAnalysis"} = {<<"GameAnalysis", "game_id">>}
      /\ {x \in edges : x[1] = "GameDetail"} = {<<"GameDetail", "game_game_detail">>}
  BY <1>1
<1>4. /\ Children("Player") = RowsWith("Player", "game_players", game)
      /\ Children("ReplayFile") = RowsWith("ReplayFile", "game_replay_files", game)
      /\ Children("GameAnalysis") = RowsWith("GameAnalysis", "game_id", game)
      /\ Children("GameDetail") = RowsWith("GameDetail", "game_game_detail", game)
  BY <1>2, <1>3
<1> HIDE DEF Children
<1>5. /\ DOMAIN DeletedWithGame = 1 .. 4
      /\ DeletedWithGame[1] = "Player" /\ DeletedWithGame[2] = "ReplayFile"
      /\ DeletedWithGame[3] = "GameAnalysis" /\ DeletedWithGame[4] = "GameDetail"
  BY DEF DeletedWithGame
<1>6. first = <<Cascade("Player"), Cascade("ReplayFile"), Cascade("GameAnalysis"), Cascade("GameDetail")>>
  <2> HIDE DEF Cascade
  <2>1. first = [k \in 1 .. 4 |-> Cascade(DeletedWithGame[k])]
    BY <1>5
  <2> HIDE DEF first
  <2> QED BY <1>5, <2>1
<1>7. list = <<Cascade("Player"), Cascade("ReplayFile"), Cascade("GameAnalysis"), Cascade("GameDetail"),
               Deleting("Game", {game})>>
  <2> HIDE DEF Cascade, first
  <2> QED BY <1>6, FourAndOne
<1> QED BY <1>4, <1>7 DEF Erasing, edges, Children

\* What refers to a game.
LEMMA ReferencesToGames ==
  ASSUME NEW F \in Entities, NEW c \in DOMAIN Schema[F].references, Schema[F].references[c] = "Game"
  PROVE  \/ F = "Player" /\ c = "game_players"
         \/ F = "ReplayFile" /\ c = "game_replay_files"
         \/ F = "GameAnalysis" /\ c = "game_id"
         \/ F = "GameDetail" /\ c = "game_game_detail"
<1>1. DOMAIN <<>> = {}
  OBVIOUS
<1> QED BY <1>1 DEF Entities, Schema, MatchupCode!Entity, MatchupCode!References, SettingCode!Entity,
     SettingCode!References, GameCode!Entity, GameCode!References, AnalysisCode!Entity,
     AnalysisCode!References, DetailCode!Entity, DetailCode!References, PlayerCode!Entity,
     PlayerCode!References, RankingCode!Entity, RankingCode!References, FileCode!Entity, FileCode!References, UserCode!Entity, UserCode!References

\* A table nobody refers to can lose any rows.
LEMMA LeafDeleteKeeps ==
  ASSUME NEW db, Fine(db), ~db.failed, NEW E \in Entities \ {"Game", "User"}, NEW ids
  PROVE  LET new == Execute(db, Deleting(E, ids))
         IN  Fine(new) /\ ~new.failed /\ Loses(db.rows, new.rows, E, ids)
<1> DEFINE s == Deleting(E, ids)
           new == Execute(db, s)
<1>1. s.does = "delete" /\ s.of = E /\ s.ids = ids
  BY DEF Deleting
<1> HIDE DEF s
<1>2. new = Delete(db, s)
  BY <1>1 DEF Execute
<1>3. \A F \in Entities : \A c \in DOMAIN Schema[F].references : Schema[F].references[c] # E
  BY SchemaAgrees DEF Agrees, Creatable
<1> QED BY <1>1, <1>2, <1>3, DeleteKeeps DEF s

LEMMA ErasingKeeps ==
  ASSUME Fine(Now0), NEW game
  PROVE  LET db == Outcome(Erasing(game))
         IN  /\ Fine(db) /\ ~db.failed
             /\ db.rows.User = tables.User
             /\ DOMAIN db.rows.Game = DOMAIN tables.Game \ {game}
             /\ DOMAIN db.rows.Player = {i \in DOMAIN tables.Player : tables.Player[i].game_players # game}
             /\ \A i \in DOMAIN db.rows.Player : db.rows.Player[i] = tables.Player[i]
<1> DEFINE list == Erasing(game)
           players == RowsWith("Player", "game_players", game)
           files == RowsWith("ReplayFile", "game_replay_files", game)
           analyses == RowsWith("GameAnalysis", "game_id", game)
           details == RowsWith("GameDetail", "game_game_detail", game)
<1>1. /\ Len(list) = 5 /\ list[1] = Deleting("Player", players) /\ list[2] = Deleting("ReplayFile", files)
      /\ list[3] = Deleting("GameAnalysis", analyses) /\ list[4] = Deleting("GameDetail", details)
      /\ list[5] = Deleting("Game", {game})
  BY DEF Erasing
<1>2. /\ players = {i \in DOMAIN tables.Player : tables.Player[i].game_players = game}
      /\ files = {i \in DOMAIN tables.ReplayFile : tables.ReplayFile[i].game_replay_files = game}
      /\ analyses = {i \in DOMAIN tables.GameAnalysis : tables.GameAnalysis[i].game_id = game}
      /\ details = {i \in DOMAIN tables.GameDetail : tables.GameDetail[i].game_game_detail = game}
  BY DEF RowsWith, Holding
<1> HIDE DEF list, players, files, analyses, details
<1>3. PICK after : /\ after[0] = Now0 /\ Outcome(list) = after[5]
                   /\ \A k \in 1 .. 5 : after[k] = Execute(after[k - 1], list[k])
  <2>1. Len(list) \in Nat
    BY <1>1
  <2>2. PICK after : /\ after[0] = Now0 /\ Outcome(list) = after[Len(list)]
                     /\ \A k \in 1 .. Len(list) : after[k] = Execute(after[k - 1], list[k])
    BY <2>1, OutcomeRuns
  <2> QED BY <1>1, <2>2
<1>4. /\ after[1] = Execute(after[0], list[1]) /\ after[2] = Execute(after[1], list[2])
      /\ after[3] = Execute(after[2], list[3]) /\ after[4] = Execute(after[3], list[4])
      /\ after[5] = Execute(after[4], list[5])
  <2>1. \A k \in 1 .. 5 : after[k] = Execute(after[k - 1], list[k])
    BY <1>3
  <2>2. 1 - 1 = 0 /\ 2 - 1 = 1 /\ 3 - 1 = 2 /\ 4 - 1 = 3 /\ 5 - 1 = 4
    OBVIOUS
  <2>3. 1 \in 1 .. 5 /\ 2 \in 1 .. 5 /\ 3 \in 1 .. 5 /\ 4 \in 1 .. 5 /\ 5 \in 1 .. 5
    OBVIOUS
  <2> QED BY <2>1, <2>2, <2>3
<1>5. {"Player", "ReplayFile", "GameAnalysis", "GameDetail", "Game", "User"} \subseteq Entities
  BY DEF Entities, Schema
<1>6. Fine(after[0]) /\ ~after[0].failed /\ after[0].rows = tables
  BY <1>3 DEF Now0
<1>7. Fine(after[1]) /\ ~after[1].failed /\ Loses(tables, after[1].rows, "Player", players)
  BY <1>1, <1>4, <1>5, <1>6, LeafDeleteKeeps
<1>8. Fine(after[2]) /\ ~after[2].failed /\ Loses(after[1].rows, after[2].rows, "ReplayFile", files)
  BY <1>1, <1>4, <1>5, <1>7, LeafDeleteKeeps
<1>9. Fine(after[3]) /\ ~after[3].failed /\ Loses(after[2].rows, after[3].rows, "GameAnalysis", analyses)
  BY <1>1, <1>4, <1>5, <1>8, LeafDeleteKeeps
<1>10. Fine(after[4]) /\ ~after[4].failed /\ Loses(after[3].rows, after[4].rows, "GameDetail", details)
  BY <1>1, <1>4, <1>5, <1>9, LeafDeleteKeeps
<1> DEFINE rows == after[4].rows
<1>11. rows.User = tables.User /\ rows.Game = tables.Game
  BY <1>5, <1>7, <1>8, <1>9, <1>10 DEF Loses
<1>12. /\ DOMAIN rows.Player = DOMAIN tables.Player \ players
       /\ \A i \in DOMAIN rows.Player : rows.Player[i] = tables.Player[i]
  BY <1>5, <1>7, <1>8, <1>9, <1>10 DEF Loses
<1>13. /\ DOMAIN rows.ReplayFile = DOMAIN tables.ReplayFile \ files
       /\ \A i \in DOMAIN rows.ReplayFile : rows.ReplayFile[i] = tables.ReplayFile[i]
  BY <1>5, <1>7, <1>8, <1>9, <1>10 DEF Loses
<1>14. /\ DOMAIN rows.GameAnalysis = DOMAIN tables.GameAnalysis \ analyses
       /\ \A i \in DOMAIN rows.GameAnalysis : rows.GameAnalysis[i] = tables.GameAnalysis[i]
  BY <1>5, <1>7, <1>8, <1>9, <1>10 DEF Loses
<1>15. /\ DOMAIN rows.GameDetail = DOMAIN tables.GameDetail \ details
       /\ \A i \in DOMAIN rows.GameDetail : rows.GameDetail[i] = tables.GameDetail[i]
  BY <1>5, <1>7, <1>8, <1>9, <1>10 DEF Loses
<1>16. ASSUME NEW F \in Entities, NEW c \in DOMAIN Schema[F].references, Schema[F].references[c] = "Game",
              NEW i \in DOMAIN rows[F]
       PROVE  rows[F][i][c] \notin {game}
  BY <1>2, <1>12, <1>13, <1>14, <1>15, <1>16, ReferencesToGames
<1> DEFINE s == Deleting("Game", {game})
<1>17. s.does = "delete" /\ s.of = "Game" /\ s.ids = {game}
  BY DEF Deleting
<1> HIDE DEF s
<1>18. after[5] = Delete(after[4], s)
  BY <1>1, <1>4, <1>10, <1>17 DEF Execute, s
<1>19. Fine(after[5]) /\ ~after[5].failed /\ Loses(rows, after[5].rows, "Game", {game})
  <2>1. \A F \in Entities : \A c \in DOMAIN Schema[F].references :
          Schema[F].references[c] = s.of => \A i \in DOMAIN rows[F] : rows[F][i][c] \notin s.ids
    BY <1>16, <1>17
  <2>2. s.of \in Entities
    BY <1>5, <1>17
  <2>3. /\ Fine(Delete(after[4], s)) /\ Delete(after[4], s).failed = after[4].failed
        /\ Loses(rows, Delete(after[4], s).rows, s.of, s.ids)
    BY <1>10, <2>1, <2>2, DeleteKeeps
  <2> QED BY <1>10, <1>17, <1>18, <2>3
<1>20. /\ after[5].rows.User = tables.User /\ after[5].rows.Player = rows.Player
       /\ DOMAIN after[5].rows.Game = DOMAIN tables.Game \ {game}
  BY <1>5, <1>11, <1>19 DEF Loses
<1> HIDE DEF rows
<1> QED BY <1>2, <1>3, <1>12, <1>19, <1>20 DEF list

-----------------------------------------------------------------------------
(* The inductive invariant. *)

Known(rows, name) == \E i \in DOMAIN rows.User : rows.User[i].name = name

\* UploadSeesOneGame, of any rows and any upload.
Sees(rows, up) ==
  up.stage \in {"add", "adding", "season"} =>
    IF up.game \in DOMAIN rows.Game
    THEN up.players = {i \in DOMAIN rows.Player : rows.Player[i].game_players = up.game}
    ELSE up.players \cap DOMAIN rows.Player = {}

\* What the database is to run next: statements that do no harm, which leave the games alone
\* where an upload is under way, or those that erase a game.
Pending ==
  \/ AllHarmless(statements) /\ (upload.stage # "idle" => AllQuiet(statements))
  \/ \E game \in DOMAIN tables.Game : statements = Erasing(game)

\* What an upload has read by each of its stages.
Reading(up) ==
  /\ {"stage", "u", "name"} \subseteq DOMAIN up
  /\ up.stage \in {"game", "players", "create", "add", "adding", "season"}
  /\ up.u \in StoredUploads /\ up.name \in Uploaders
  /\ up.stage # "create" => "game" \in DOMAIN up /\ up.game \in Nat
  /\ up.stage \in {"add", "adding", "season"} => "players" \in DOMAIN up

\* An upload under way has its uploader in the table, or is about to.
UnderWay ==
  \/ upload = NoUpload
  \/ /\ Reading(upload) /\ Sees(tables, upload)
     /\ Known(tables, upload.name) \/ statements = <<Ensuring(upload.name)>>

StoreInv == Fine(Now0) /\ Pending /\ UnderWay

-----------------------------------------------------------------------------
(* The steps. *)

LEMMA UserFacts ==
  /\ "User" \in Entities /\ Schema["User"].references = <<>> /\ Schema["User"].unique = {{"name"}}
  /\ Schema["User"].requiredEdges = {} /\ Schema["User"].notEmpty \subseteq {"name"}
  /\ Schema["User"].required \subseteq {"name"} \cup DOMAIN Schema["User"].createDefaults
  /\ Schema["User"].notEmpty \cap DOMAIN Schema["User"].createDefaults = {}
BY DEF Entities, Schema, UserCode!Entity, UserCode!References, UserCode!Unique, UserCode!RequiredEdges,
       UserCode!Required, UserCode!Columns, UserCode!CreateDefaults, UserCode!NotEmpty

\* An uploader who is ensured is there afterwards.
LEMMA EnsureFinds ==
  ASSUME NEW db, Fine(db), ~db.failed, NEW name \in Nat \ {Zero}
  PROVE  LET new == EnsureUser(db, Ensuring(name)) IN ~new.failed /\ Known(new.rows, name)
<1> DEFINE s == Ensuring(name)
           new == EnsureUser(db, s)
<1>1. s.of = "User" /\ s.set = [name |-> name] /\ s.links = <<>> /\ s.set.name = name
  BY DEF Ensuring
<1> HIDE DEF s
<1>2. CASE Known(db.rows, name)
  <2>1. new = db
    BY <1>1, <1>2 DEF EnsureUser, Known
  <2> QED BY <1>2, <2>1 DEF s
<1>3. CASE ~Known(db.rows, name)
  <2>1. new = Create(db, s)
    BY <1>1, <1>3 DEF EnsureUser, Known
  <2>2. Creates(s)
    BY <1>1 DEF Creates, Entities, Schema, UserCode!Entity, UserCode!Columns, UserCode!InsertedEdges
  <2>3. Accepts(s)
    <3> DEFINE mutation == s.set ?? Schema["User"].createDefaults
    <3>1. DOMAIN s.set = {"name"} /\ s.set["name"] = name
      BY <1>1
    <3>2. DOMAIN mutation = {"name"} \cup DOMAIN Schema["User"].createDefaults /\ mutation["name"] = name
      BY <3>1 DEF ??
    <3> HIDE DEF mutation
    <3>3. /\ Schema["User"].required \subseteq DOMAIN mutation
          /\ \A c \in Schema["User"].notEmpty \cap DOMAIN mutation : mutation[c] # Zero
      BY <3>2, UserFacts
    <3> QED BY <1>1, <3>3, UserFacts DEF Accepts, mutation
  <2>4. PICK row \in [Cols("User") -> Values] :
          /\ \A c \in Schema["User"].notNull : row[c] # Nil
          /\ \A c \in DOMAIN s.set : row[c] = s.set[c]
          /\ Create(db, s) = Insert(db, "User", row, TRUE)
    BY <1>1, <2>2, <2>3, CreateInserts
  <2>5. row["name"] = name
    <3>1. "name" \in DOMAIN s.set
      BY <1>1
    <3> QED BY <1>1, <2>4, <3>1
  <2>6. \A key \in Schema["User"].unique, i \in DOMAIN db.rows["User"] :
          \E c \in key : db.rows["User"][i][c] # row[c]
    BY <1>3, <2>5, UserFacts DEF Known
  <2>7. DOMAIN Schema["User"].references = {}
    BY UserFacts
  <2> DEFINE table == [i \in {db.next["User"]} |-> row] ?? db.rows["User"]
  <2>8. Create(db, s) = [db EXCEPT !.rows["User"] = table, !.next["User"] = @ + 1, !.kept = @ /\ TRUE]
    BY <2>4, <2>6, <2>7 DEF Insert
  <2>9. db.next["User"] \in DOMAIN table /\ table[db.next["User"]] = row
    BY DEF ??
  <2> HIDE DEF table
  <2>10. Create(db, s).failed = FALSE /\ Create(db, s).rows["User"] = table
    BY <2>8, UserFacts DEF Fine, Typed
  <2> HIDE DEF new
  <2>11. Known(new.rows, name)
    BY <2>1, <2>5, <2>9, <2>10 DEF Known
  <2> QED BY <2>1, <2>10, <2>11 DEF new, s
<1> QED BY <1>2, <1>3

LEMMA SeesOn ==
  ASSUME NEW a, NEW b, NEW up, Stays(a, b), Sees(a, up) PROVE Sees(b, up)
<1>1. \A game : {i \in DOMAIN a.Player : a.Player[i].game_players = game}
                  = {i \in DOMAIN b.Player : b.Player[i].game_players = game}
  BY DEF Stays
<1> QED BY <1>1 DEF Sees, Stays

LEMMA KnownOn ==
  ASSUME NEW a, NEW b, NEW name, Stays(a, b), Known(a, name) PROVE Known(b, name)
BY DEF Known, Stays

\* A game that is erased takes its players along; those of the others stay.
LEMMA SeesErased ==
  ASSUME NEW a, NEW b, NEW game, NEW up, Sees(a, up),
         DOMAIN b.Game = DOMAIN a.Game \ {game},
         DOMAIN b.Player = {i \in DOMAIN a.Player : a.Player[i].game_players # game},
         \A i \in DOMAIN b.Player : b.Player[i] = a.Player[i]
  PROVE  Sees(b, up)
<1> SUFFICES ASSUME up.stage \in {"add", "adding", "season"}
             PROVE  IF up.game \in DOMAIN b.Game
                    THEN up.players = {i \in DOMAIN b.Player : b.Player[i].game_players = up.game}
                    ELSE up.players \cap DOMAIN b.Player = {}
  BY DEF Sees
<1>1. CASE up.game \notin DOMAIN a.Game
  BY <1>1 DEF Sees
<1>2. CASE up.game \in DOMAIN a.Game /\ up.game = game
  BY <1>2 DEF Sees
<1>3. CASE up.game \in DOMAIN a.Game /\ up.game # game
  BY <1>3 DEF Sees
<1> QED BY <1>1, <1>2, <1>3
-----------------------------------------------------------------------------
LEMMA FineTables ==
  ASSUME Fine(Now0)
  PROVE  Typed(tables, serials) /\ Whole(tables) /\ wordKept = TRUE
BY DEF Fine, Now0

LEMMA NowFine ==
  ASSUME Typed(tables, serials), Whole(tables), wordKept = TRUE
  PROVE  Fine(Now0)
BY DEF Fine, Now0

\* The initial tables are empty.
LEMMA StoreStarts == StoreInit => StoreInv
<1> SUFFICES ASSUME StoreInit PROVE StoreInv
  OBVIOUS
<1>1. DOMAIN <<>> = {}
  OBVIOUS
<1>2. Typed(tables, serials) /\ Whole(tables)
  BY <1>1 DEF StoreInit, Typed, Whole, NothingMissing, NothingDangling, NothingTwice
<1>3. Fine(Now0)
  BY <1>2, NowFine DEF StoreInit
<1>4. Pending
  BY NoStatement, QuietIsHarmless DEF StoreInit, Pending
<1>5. UnderWay
  BY DEF StoreInit, UnderWay
<1> QED BY <1>3, <1>4, <1>5 DEF StoreInv

\* What a transaction leaves: tables that are fine, with the uploader and the players that an
\* upload under way has read.
LEMMA TransactionKeeps ==
  ASSUME StoreInv
  PROVE  LET db == Outcome(statements)
             rows == IF db.failed THEN tables ELSE db.rows
         IN  /\ Fine(db)
             /\ \/ upload = NoUpload
                \/ Reading(upload) /\ Sees(rows, upload) /\ Known(rows, upload.name)
<1> DEFINE db == Outcome(statements)
           rows == IF db.failed THEN tables ELSE db.rows
<1>0. Fine(Now0) /\ Now0.rows = tables /\ Now0.failed = FALSE
  BY DEF StoreInv, Now0
<1>1. CASE AllHarmless(statements) /\ (upload.stage # "idle" => AllQuiet(statements))
  <2>1. ASSUME NEW S, statements \in Seq(S), NEW T, statements \in Seq(T)
        PROVE  Len(statements) \in Nat /\ \A k \in 1 .. Len(statements) : statements[k] \in S \cap T
    BY <2>1
  <2>2. PICK S : statements \in Seq(S) /\ \A s \in S : Harmless(s)
    BY <1>1 DEF AllHarmless
  <2>3. Len(statements) \in Nat /\ \A k \in 1 .. Len(statements) : Harmless(statements[k])
    BY <2>1, <2>2
  <2>4. Fine(db)
    BY <1>0, <2>3, OutcomeKeeps
  <2>5. ASSUME upload # NoUpload
        PROVE  Reading(upload) /\ Sees(rows, upload) /\ Known(rows, upload.name)
    <3>1. /\ Reading(upload) /\ Sees(tables, upload)
          /\ Known(tables, upload.name) \/ statements = <<Ensuring(upload.name)>>
      BY <2>5 DEF StoreInv, UnderWay
    <3>2. upload.stage # "idle"
      BY <3>1 DEF Reading
    <3>3. PICK T : statements \in Seq(T) /\ \A s \in T : Quiet(s)
      BY <1>1, <3>2 DEF AllQuiet
    <3>4. \A k \in 1 .. Len(statements) : Quiet(statements[k])
      BY <2>1, <3>3
    <3>5. Stays(tables, db.rows)
      BY <1>0, <2>3, <3>4, OutcomeKeeps
    <3>6. Stays(tables, rows)
      BY <3>5 DEF Stays
    <3> HIDE DEF rows, db
    <3>7. Sees(rows, upload)
      BY <3>1, <3>6, SeesOn
    <3>8. CASE Known(tables, upload.name)
      BY <3>1, <3>6, <3>7, <3>8, KnownOn
    <3>9. CASE statements = <<Ensuring(upload.name)>>
      <4>1. Len(statements) = 1 /\ statements[1] = Ensuring(upload.name)
        BY <3>9
      <4>2. PICK after : /\ after[0] = Now0 /\ db = after[Len(statements)]
                         /\ \A k \in 1 .. Len(statements) : after[k] = Execute(after[k - 1], statements[k])
        BY <2>3, OutcomeRuns DEF db
      <4>3. db = Execute(Now0, Ensuring(upload.name))
        <5>1. 1 \in 1 .. 1 /\ 1 - 1 = 0
          OBVIOUS
        <5> QED BY <4>1, <4>2, <5>1
      <4>4. Ensuring(upload.name).does = "ensure"
        BY DEF Ensuring
      <4>5. db = EnsureUser(Now0, Ensuring(upload.name))
        BY <1>0, <4>3, <4>4 DEF Execute
      <4>6. upload.name \in Nat \ {Zero}
        BY <3>1, StoreAssumption DEF Reading
      <4>7. ~db.failed /\ Known(db.rows, upload.name)
        BY <1>0, <4>5, <4>6, EnsureFinds
      <4>8. rows = db.rows
        BY <4>7 DEF rows
      <4> QED BY <3>1, <3>7, <4>7, <4>8
    <3> QED BY <3>1, <3>8, <3>9
  <2> QED BY <2>4, <2>5
<1>2. CASE \E game \in DOMAIN tables.Game : statements = Erasing(game)
  <2>1. PICK game : statements = Erasing(game)
    BY <1>2
  <2>2. /\ Fine(db) /\ ~db.failed
        /\ db.rows.User = tables.User
        /\ DOMAIN db.rows.Game = DOMAIN tables.Game \ {game}
        /\ DOMAIN db.rows.Player = {i \in DOMAIN tables.Player : tables.Player[i].game_players # game}
        /\ \A i \in DOMAIN db.rows.Player : db.rows.Player[i] = tables.Player[i]
    BY <1>0, <2>1, ErasingKeeps
  <2>3. rows = db.rows
    BY <2>2
  <2>4. ASSUME upload # NoUpload
        PROVE  Reading(upload) /\ Sees(db.rows, upload) /\ Known(db.rows, upload.name)
    <3>1. statements # <<Ensuring(upload.name)>>
      <4>1. Len(Erasing(game)) = 5 /\ Len(<<Ensuring(upload.name)>>) = 1
        BY DEF Erasing
      <4> QED BY <2>1, <4>1
    <3>2. Reading(upload) /\ Sees(tables, upload) /\ Known(tables, upload.name)
      BY <2>4, <3>1 DEF StoreInv, UnderWay
    <3>3. Known(db.rows, upload.name)
      BY <2>2, <3>2 DEF Known
    <3> HIDE DEF db
    <3>4. Sees(db.rows, upload)
      BY <2>2, <3>2, SeesErased
    <3> QED BY <3>2, <3>3, <3>4 DEF db
  <2> QED BY <2>2, <2>3, <2>4
<1> QED BY <1>1, <1>2 DEF StoreInv, Pending
LEMMA RunKeeps ==
  ASSUME StoreInv, RunTransaction PROVE StoreInv'
<1> DEFINE db == Outcome(statements)
           rows == IF db.failed THEN tables ELSE db.rows
<1>1. /\ Fine(db)
      /\ upload = NoUpload \/ (Reading(upload) /\ Sees(rows, upload) /\ Known(rows, upload.name))
  BY TransactionKeeps
<1>2. /\ wordKept' = db.kept /\ statements' = <<>>
      /\ IF db.failed THEN UNCHANGED <<tables, serials>> ELSE tables' = db.rows /\ serials' = db.next
      /\ upload' = IF upload.stage # "adding" THEN upload
                   ELSE IF db.failed THEN NoUpload ELSE [upload EXCEPT !.stage = "season"]
  BY DEF RunTransaction
<1> HIDE DEF db
<1>3. tables' = rows
  BY <1>2
<1> HIDE DEF rows
<1>4. Fine(Now0')
  <2>1. Typed(tables, serials) /\ Whole(tables)
    BY FineTables DEF StoreInv
  <2>2. Typed(tables', serials') /\ Whole(tables') /\ wordKept' = TRUE
    BY <1>1, <1>2, <2>1 DEF Fine
  <2> QED BY <2>2 DEF Fine, Now0
<1>5. Pending'
  BY <1>2, NoStatement, QuietIsHarmless DEF Pending
<1>6. UnderWay'
  <2>1. CASE upload.stage # "adding"
    BY <1>1, <1>2, <1>3, <2>1 DEF UnderWay
  <2>2. CASE upload.stage = "adding" /\ db.failed
    BY <1>2, <2>2 DEF UnderWay
  <2>3. CASE upload.stage = "adding" /\ ~db.failed
    <3>1. Reading(upload) /\ Sees(rows, upload) /\ Known(rows, upload.name)
      BY <1>1, <2>3 DEF NoUpload
    <3>2. upload' = [upload EXCEPT !.stage = "season"]
      BY <1>2, <2>3
    <3>3. /\ DOMAIN upload' = DOMAIN upload /\ upload'.stage = "season"
          /\ upload'.u = upload.u /\ upload'.name = upload.name /\ upload'.game = upload.game
          /\ upload'.players = upload.players
      BY <2>3, <3>1, <3>2 DEF Reading
    <3>4. Reading(upload') /\ Sees(rows, upload') /\ Known(rows, upload'.name)
      BY <2>3, <3>1, <3>3 DEF Reading, Sees
    <3> QED BY <1>3, <3>4 DEF UnderWay
  <2> QED BY <2>1, <2>2, <2>3
<1> QED BY <1>4, <1>5, <1>6 DEF StoreInv

\* A request hands a transaction to the database and leaves the tables to it.
LEMMA AskedKeeps ==
  ASSUME StoreInv, NEW list, Transaction(list)
  PROVE  /\ Fine(Now0') /\ statements' = list /\ tables' = tables
         /\ upload = NoUpload \/ (Reading(upload) /\ Sees(tables, upload) /\ Known(tables, upload.name))
<1>1. statements = <<>> /\ statements' = list /\ UNCHANGED <<tables, serials, wordKept>>
  BY DEF Transaction
<1>2. Fine(Now0')
  BY <1>1 DEF StoreInv, Now0
<1>3. <<>> # <<Ensuring(upload.name)>>
  OBVIOUS
<1>4. upload = NoUpload \/ (Reading(upload) /\ Sees(tables, upload) /\ Known(tables, upload.name))
  BY <1>1, <1>3 DEF StoreInv, UnderWay
<1> QED BY <1>1, <1>2, <1>4

\* A quiet transaction, whatever upload is under way.
LEMMA QuietAsked ==
  ASSUME StoreInv, NEW list, Transaction(list), AllQuiet(list), UNCHANGED upload
  PROVE  StoreInv'
<1>1. /\ Fine(Now0') /\ statements' = list /\ tables' = tables
      /\ upload = NoUpload \/ (Reading(upload) /\ Sees(tables, upload) /\ Known(tables, upload.name))
  BY AskedKeeps
<1>2. Pending'
  BY <1>1, QuietIsHarmless DEF Pending
<1>3. UnderWay'
  BY <1>1 DEF UnderWay
<1> QED BY <1>1, <1>2, <1>3 DEF StoreInv

\* The edges that the handlers follow, and the table each leads to.
LEMMA Edges ==
  /\ Schema.ReplayFile.loads.game = <<"ReplayFile", "game_replay_files">>
  /\ Schema.Game.loads.players = <<"Player", "game_players">>
  /\ Schema.Game.loads.replay_files = <<"ReplayFile", "game_replay_files">>
  /\ {"Game", "Player", "ReplayFile", "User", "AppSetting"} \subseteq Entities
  /\ "game_replay_files" \in DOMAIN Schema["ReplayFile"].references
  /\ Schema["ReplayFile"].references["game_replay_files"] = "Game"
  /\ "game_players" \in DOMAIN Schema["Player"].references
  /\ Schema["Player"].references["game_players"] = "Game"
  /\ "file_hash" \in Schema["ReplayFile"].notNull /\ "file_hash" \in Cols("ReplayFile")
BY DEF Schema, Entities, Cols, FileCode!Entity, FileCode!Loads, FileCode!References,
       FileCode!NotNull, FileCode!Columns,
       GameCode!Entity, GameCode!Loads, PlayerCode!Entity, PlayerCode!References

LEMMA UploaderFound ==
  ASSUME StoreInv, NEW name, Known(tables, name) PROVE UserOf(name) \in Nat
<1>1. UserOf(name) \in DOMAIN tables.User
  BY DEF Known, UserOf
<1>2. DOMAIN tables["User"] \subseteq Nat
  BY FineTables, Edges DEF StoreInv, Typed
<1> QED BY <1>1, <1>2

LEMMA SearchKeeps ==
  ASSUME StoreInv, Search PROVE StoreInv'
<1>1. PICK u \in StoredUploads, name \in Uploaders :
        LET files == RowsWith("ReplayFile", "file_hash", u.hash)
            games == RowsWith("Game", "host", u.host) \cap RowsWith("Game", "start_time", u.start)
            read == [u |-> u, name |-> name]
        IN  /\ Transaction(<<Ensuring(name)>>)
            /\ \/ \E file \in files :
                    LET edge == Schema.ReplayFile.loads.game
                    IN  upload' = [stage |-> "game", game |-> tables[edge[1]][file][edge[2]]] ?? read
               \/ /\ files = {}
                  /\ \E game \in games : upload' = [stage |-> "players", game |-> game] ?? read
               \/ /\ files = {} /\ games = {}
                  /\ upload' = [stage |-> "create"] ?? read
  BY DEF Search
<1> DEFINE files == RowsWith("ReplayFile", "file_hash", u.hash)
           games == RowsWith("Game", "host", u.host) \cap RowsWith("Game", "start_time", u.start)
           read == [u |-> u, name |-> name]
<1>2. Transaction(<<Ensuring(name)>>)
  BY <1>1
<1>3. Fine(Now0') /\ statements' = <<Ensuring(name)>> /\ tables' = tables
  BY <1>2, AskedKeeps
<1>4. name \in Nat
  BY StoreAssumption
<1>5. Pending'
  BY <1>3, <1>4, EnsuringIsQuiet, OneStatement, QuietIsHarmless DEF Pending
<1>6. files \subseteq DOMAIN tables["ReplayFile"] /\ games \subseteq DOMAIN tables["Game"]
  BY DEF RowsWith, Holding
<1>7. DOMAIN tables["Game"] \subseteq Nat
  BY FineTables, Edges DEF StoreInv, Typed
<1>8. /\ Reading(upload') /\ upload'.name = name /\ upload'.stage \in {"game", "players", "create"}
  <2>1. CASE \E file \in files :
               LET edge == Schema.ReplayFile.loads.game
               IN  upload' = [stage |-> "game", game |-> tables[edge[1]][file][edge[2]]] ?? read
    <3>1. PICK file \in files :
            LET edge == Schema.ReplayFile.loads.game
            IN  upload' = [stage |-> "game", game |-> tables[edge[1]][file][edge[2]]] ?? read
      BY <2>1
    <3> DEFINE game == tables["ReplayFile"][file]["game_replay_files"]
    <3>2. upload' = [stage |-> "game", game |-> game] ?? read
      <4>1. <<"ReplayFile", "game_replay_files">>[1] = "ReplayFile"
            /\ <<"ReplayFile", "game_replay_files">>[2] = "game_replay_files"
        OBVIOUS
      <4> QED BY <3>1, <4>1, Edges
    <3>3. game \in DOMAIN tables["Game"]
      <4>1. NothingDangling(tables)
        BY FineTables DEF StoreInv, Whole
      <4>2. tables["ReplayFile"][file]["game_replay_files"]
              \in DOMAIN tables[Schema["ReplayFile"].references["game_replay_files"]]
        BY <1>6, <4>1, Edges DEF NothingDangling
      <4> QED BY <4>2, Edges
    <3> HIDE DEF game
    <3>4. /\ DOMAIN upload' = {"stage", "game", "u", "name"} /\ upload'.stage = "game" /\ upload'.game = game
          /\ upload'.u = u /\ upload'.name = name
      BY <3>2 DEF ??
    <3> QED BY <1>7, <3>3, <3>4 DEF Reading
  <2>2. CASE \E game \in games : upload' = [stage |-> "players", game |-> game] ?? read
    <3>1. PICK game \in games : upload' = [stage |-> "players", game |-> game] ?? read
      BY <2>2
    <3>2. game \in Nat
      BY <1>6, <1>7
    <3>3. /\ DOMAIN upload' = {"stage", "game", "u", "name"}
          /\ upload'.stage = "players" /\ upload'.game = game
          /\ upload'.u = u /\ upload'.name = name
      BY <3>1 DEF ??
    <3> QED BY <3>2, <3>3 DEF Reading
  <2>3. CASE upload' = [stage |-> "create"] ?? read
    <3>1. /\ DOMAIN upload' = {"stage", "u", "name"} /\ upload'.stage = "create"
          /\ upload'.u = u /\ upload'.name = name
      BY <2>3 DEF ??
    <3> QED BY <3>1 DEF Reading
  <2> QED BY <1>1, <2>1, <2>2, <2>3
<1>9. UnderWay'
  BY <1>3, <1>8 DEF UnderWay, Sees
<1> QED BY <1>3, <1>5, <1>9 DEF StoreInv
LEMMA LoadGameKeeps ==
  ASSUME StoreInv, LoadGame PROVE StoreInv'
<1>1. /\ upload.stage = "game" /\ Transaction(<<>>)
      /\ upload' = IF upload.game \in DOMAIN tables.Game THEN [upload EXCEPT !.stage = "players"] ELSE NoUpload
  BY DEF LoadGame
<1>2. Fine(Now0') /\ statements' = <<>> /\ tables' = tables
  BY <1>1, AskedKeeps
<1>3. Reading(upload) /\ Known(tables, upload.name)
  BY <1>1, AskedKeeps DEF NoUpload
<1>4. CASE upload' = [upload EXCEPT !.stage = "players"]
  <2>1. /\ DOMAIN upload' = DOMAIN upload /\ upload'.stage = "players"
        /\ upload'.u = upload.u /\ upload'.name = upload.name /\ upload'.game = upload.game
    BY <1>1, <1>3, <1>4 DEF Reading
  <2>2. Reading(upload') /\ Sees(tables, upload') /\ Known(tables, upload'.name)
    BY <1>1, <1>3, <2>1 DEF Reading, Sees
  <2> QED BY <1>2, <2>2, NoStatement, QuietIsHarmless DEF StoreInv, Pending, UnderWay
<1>5. CASE upload' = NoUpload
  BY <1>2, <1>5, NoStatement, QuietIsHarmless DEF StoreInv, Pending, UnderWay
<1> QED BY <1>1, <1>4, <1>5

\* The players are read after the game: where it is gone by then, no player refers to it.
LEMMA LoadPlayersKeeps ==
  ASSUME StoreInv, LoadPlayers PROVE StoreInv'
<1> DEFINE players == Holding(Schema.Game.loads.players, upload.game)
<1>1. /\ upload.stage = "players" /\ Transaction(<<>>)
      /\ upload' = [players |-> players, stage |-> "add"] ?? upload
  BY DEF LoadPlayers
<1>2. Fine(Now0') /\ statements' = <<>> /\ tables' = tables
  BY <1>1, AskedKeeps
<1>3. Reading(upload) /\ Known(tables, upload.name)
  BY <1>1, AskedKeeps DEF NoUpload
<1>4. players = {i \in DOMAIN tables["Player"] : tables["Player"][i]["game_players"] = upload.game}
  <2>1. <<"Player", "game_players">>[1] = "Player" /\ <<"Player", "game_players">>[2] = "game_players"
    OBVIOUS
  <2> QED BY <2>1, Edges DEF Holding
<1> HIDE DEF players
<1>5. /\ DOMAIN upload' = {"players", "stage"} \cup DOMAIN upload
      /\ upload'.stage = "add" /\ upload'.players = players
      /\ upload'.u = upload.u /\ upload'.name = upload.name /\ upload'.game = upload.game
  BY <1>1, <1>3 DEF ??, Reading
<1>6. upload.game \notin DOMAIN tables["Game"] => players = {}
  <2>1. NothingDangling(tables)
    BY FineTables DEF StoreInv, Whole
  <2>2. \A i \in DOMAIN tables["Player"] : tables["Player"][i]["game_players"] \in DOMAIN tables["Game"]
    BY <2>1, Edges DEF NothingDangling
  <2> QED BY <1>4, <2>2
<1>7. Reading(upload') /\ Sees(tables, upload') /\ Known(tables, upload'.name)
  BY <1>1, <1>3, <1>4, <1>5, <1>6 DEF Reading, Sees
<1> QED BY <1>2, <1>7, NoStatement, QuietIsHarmless DEF StoreInv, Pending, UnderWay

LEMMA StoreGameKeeps ==
  ASSUME StoreInv, StoreGame PROVE StoreInv'
<1>1. upload.stage = "create" /\ upload' = NoUpload
  BY DEF StoreGame
<1>2. PICK version \in {Some, 2} :
        Transaction(IF \E p \in Range(upload.u.players) : p.name = upload.name
                    THEN createGameRows(upload.u, UserOf(upload.name), version) ELSE <<>>)
  BY DEF StoreGame
<1> DEFINE list == IF \E p \in Range(upload.u.players) : p.name = upload.name
                   THEN createGameRows(upload.u, UserOf(upload.name), version) ELSE <<>>
<1>3. /\ Fine(Now0') /\ statements' = list /\ tables' = tables
      /\ Reading(upload) /\ Known(tables, upload.name)
  BY <1>1, <1>2, AskedKeeps DEF NoUpload
<1>4. UserOf(upload.name) \in Nat /\ upload.u \in StoredUploads
  BY <1>3, UploaderFound DEF Reading
<1>5. serials.Game \in Nat
  BY FineTables, Edges DEF StoreInv, Typed
<1>6. AllHarmless(list)
  BY <1>4, <1>5, NewGameIsHarmless, NoStatement, QuietIsHarmless
<1> HIDE DEF list
<1>7. Pending'
  BY <1>1, <1>3, <1>6 DEF Pending, NoUpload
<1> QED BY <1>1, <1>3, <1>7 DEF StoreInv, UnderWay

LEMMA StoreFileKeeps ==
  ASSUME StoreInv, StoreFile PROVE StoreInv'
<1> DEFINE user == UserOf(upload.name)
           already == Holding(Schema.ReplayFile.has.game, upload.game)
                      \cap Holding(Schema.ReplayFile.has.uploader, user) # {}
<1>1. PICK version \in {Some, 2} :
        /\ Transaction(IF already THEN <<>> ELSE addReplayFileToGame(upload.u, upload.game, user, version))
        /\ upload' = [upload EXCEPT !.stage = IF already THEN "season" ELSE "adding"]
  BY DEF StoreFile
<1>2. upload.stage = "add"
  BY DEF StoreFile
<1> DEFINE list == IF already THEN <<>> ELSE addReplayFileToGame(upload.u, upload.game, user, version)
           stage == IF already THEN "season" ELSE "adding"
<1>3. /\ Fine(Now0') /\ statements' = list /\ tables' = tables
      /\ Reading(upload) /\ Sees(tables, upload) /\ Known(tables, upload.name)
  BY <1>1, <1>2, AskedKeeps DEF NoUpload
<1>4. user \in Nat /\ upload.u \in StoredUploads /\ upload.game \in Nat
  BY <1>2, <1>3, UploaderFound DEF Reading
<1>5. AllQuiet(list)
  BY <1>4, AddingIsQuiet, NoStatement
<1>6. upload' = [upload EXCEPT !.stage = stage] /\ stage \in {"season", "adding"}
  BY <1>1
<1> HIDE DEF list, stage
<1>7. /\ DOMAIN upload' = DOMAIN upload /\ upload'.stage = stage
      /\ upload'.u = upload.u /\ upload'.name = upload.name /\ upload'.game = upload.game
      /\ upload'.players = upload.players
  BY <1>2, <1>3, <1>6 DEF Reading
<1>8. Reading(upload') /\ Sees(tables, upload') /\ Known(tables, upload'.name)
  BY <1>2, <1>3, <1>6, <1>7 DEF Reading, Sees
<1>9. Pending'
  BY <1>3, <1>5, QuietIsHarmless DEF Pending
<1> QED BY <1>3, <1>8, <1>9 DEF StoreInv, UnderWay

LEMMA ApplySeasonKeeps ==
  ASSUME StoreInv, applySeasonToGame PROVE StoreInv'
<1> DEFINE list == IF upload.u.label = Nil /\ upload.u.no = Nil THEN <<>>
                   ELSE Stamp(upload.game, upload.u.label, upload.u.no)
<1>1. upload.stage = "season" /\ Transaction(list) /\ upload' = NoUpload
  BY DEF applySeasonToGame
<1>2. Fine(Now0') /\ statements' = list /\ tables' = tables /\ Reading(upload)
  BY <1>1, AskedKeeps DEF NoUpload
<1>3. upload.u.label \in Values /\ upload.u.no \in Values
  BY <1>2, StoreAssumption DEF Reading, Values
<1>4. AllQuiet(list)
  BY <1>3, StampIsQuiet, NoStatement
<1> HIDE DEF list
<1>5. Pending'
  BY <1>2, <1>4, QuietIsHarmless DEF Pending
<1> QED BY <1>1, <1>2, <1>5 DEF StoreInv, UnderWay

LEMMA SetSeasonKeeps ==
  ASSUME StoreInv, SetGameSeason PROVE StoreInv'
<1>1. UNCHANGED upload
  BY DEF SetGameSeason
<1>2. PICK game \in DOMAIN tables.Game, no \in {Nil, 7, 9} : Transaction(Stamp(game, Some, no))
  BY DEF SetGameSeason
<1>3. Some \in Values /\ no \in Values
  BY DEF Some, Values
<1>4. AllQuiet(Stamp(game, Some, no))
  BY <1>3, StampIsQuiet
<1> QED BY <1>1, <1>2, <1>4, QuietAsked

LEMMA CurrentSeasonKeeps ==
  ASSUME StoreInv, setCurrentSeason PROVE StoreInv'
<1>1. UNCHANGED upload
  BY DEF setCurrentSeason
<1> DEFINE row == RowsWith("AppSetting", "key", Some)
<1>2. PICK value \in {Some, 2} :
        Transaction(<<IF row = {} THEN Creating("AppSetting", [key |-> Some, value |-> value], <<>>)
                      ELSE Updating("AppSetting", CHOOSE i \in row : TRUE, [value |-> value], <<>>)>>)
  BY DEF setCurrentSeason
<1>3. value \in Nat
  BY DEF Some
<1> DEFINE s == IF row = {} THEN Creating("AppSetting", [key |-> Some, value |-> value], <<>>)
                ELSE Updating("AppSetting", CHOOSE i \in row : TRUE, [value |-> value], <<>>)
<1>4. Quiet(s)
  BY <1>3, SettingIsQuiet
<1>5. Transaction(<<s>>)
  BY <1>2
<1> HIDE DEF s
<1> QED BY <1>1, <1>4, <1>5, OneStatement, QuietAsked

LEMMA RequestAnalysisKeeps ==
  ASSUME StoreInv, RequestAnalysis PROVE StoreInv'
<1>1. UNCHANGED upload
  BY DEF RequestAnalysis
<1>2. PICK game \in 1 .. serials.Game - 1 :
        LET files == Holding(Schema.Game.loads.replay_files, game)
        IN \E hash \in IF game \in DOMAIN tables.Game THEN {tables.ReplayFile[i].file_hash : i \in files}
                       ELSE {u.hash : u \in StoredUploads} :
             Transaction(<<Requesting(game, hash)>>)
  BY DEF RequestAnalysis
<1> DEFINE files == Holding(Schema.Game.loads.replay_files, game)
<1>3. PICK hash \in IF game \in DOMAIN tables.Game THEN {tables.ReplayFile[i].file_hash : i \in files}
                    ELSE {u.hash : u \in StoredUploads} :
        Transaction(<<Requesting(game, hash)>>)
  BY <1>2
<1>4. game \in Nat
  <2>1. serials.Game \in Nat
    BY FineTables, Edges DEF StoreInv, Typed
  <2> QED BY <2>1
<1>5. hash \in Nat
  <2>1. files \subseteq DOMAIN tables["ReplayFile"]
    <3>1. <<"ReplayFile", "game_replay_files">>[1] = "ReplayFile"
      OBVIOUS
    <3> QED BY <3>1, Edges DEF Holding
  <2>2. \A i \in DOMAIN tables["ReplayFile"] : tables["ReplayFile"][i]["file_hash"] \in Nat
    <3>1. Typed(tables, serials) /\ NothingMissing(tables)
      BY FineTables DEF StoreInv, Whole
    <3> QED BY <3>1, Edges DEF Typed, NothingMissing, Values
  <2>3. \A u \in StoredUploads : u.hash \in Nat
    BY StoreAssumption
  <2> QED BY <1>3, <2>1, <2>2, <2>3
<1>6. AllQuiet(<<Requesting(game, hash)>>)
  <2>1. Quiet(Requesting(game, hash))
    BY <1>4, <1>5, QueueingIsQuiet
  <2> QED BY <2>1, OneStatement
<1> QED BY <1>1, <1>3, <1>6, QuietAsked

LEMMA BuildKeeps ==
  ASSUME StoreInv, BuildSnapshot PROVE StoreInv'
<1>1. UNCHANGED upload
  BY DEF BuildSnapshot
<1>2. PICK E \in DOMAIN SnapshotColumns :
        Transaction(<<Deleting(E, DOMAIN tables[E]), Inserting(E, [c \in SnapshotColumns[E] |-> Some])>>)
  BY DEF BuildSnapshot
<1> QED BY <1>1, <1>2, SnapshotIsQuiet, QuietAsked

LEMMA DeleteGameKeeps ==
  ASSUME StoreInv, DeleteGameRows PROVE StoreInv'
<1>1. UNCHANGED upload
  BY DEF DeleteGameRows
<1>2. PICK game \in DOMAIN tables.Game :
        LET edges == Range(Schema.Game.loads)
            Children(E) == UNION {Holding(edge, game) : edge \in {x \in edges : x[1] = E}}
            Cascade(E) == Deleting(E, Children(E))
        IN  Transaction([k \in DOMAIN DeletedWithGame |-> Cascade(DeletedWithGame[k])]
                        \o <<Deleting("Game", {game})>>)
  BY DEF DeleteGameRows
<1>3. Transaction(Erasing(game))
  BY <1>2, CascadeIsErasing
<1>4. /\ Fine(Now0') /\ statements' = Erasing(game) /\ tables' = tables
      /\ upload = NoUpload \/ (Reading(upload) /\ Sees(tables, upload) /\ Known(tables, upload.name))
  BY <1>3, AskedKeeps
<1>5. Pending'
  BY <1>4 DEF Pending, Erasing, RowsWith, Holding
<1>6. UnderWay'
  BY <1>1, <1>4 DEF UnderWay
<1> QED BY <1>4, <1>5, <1>6 DEF StoreInv

LEMMA IdleKeeps ==
  ASSUME StoreInv, UNCHANGED storeVars PROVE StoreInv'
<1>1. UNCHANGED <<tables, serials, wordKept, upload, statements>>
  BY DEF storeVars
<1> QED BY <1>1 DEF StoreInv, Now0, Pending, UnderWay, Erasing, RowsWith, Holding

\* The client keeps its word: every statement of the uploads, of the other requests and of the
\* jobs does what it reports, the rows satisfy the migration, an upload sees one game, and the
\* files that are generated for an entity agree (the builders under src/backend/ent).
THEOREM ClientAlwaysKeepsItsWord == StoreSpec => []ClientKeepsItsWord
<1>1. StoreInv /\ [StoreNext]_storeVars => StoreInv'
  BY RunKeeps, SearchKeeps, LoadGameKeeps, LoadPlayersKeeps, StoreGameKeeps, StoreFileKeeps, ApplySeasonKeeps,
     SetSeasonKeeps, CurrentSeasonKeeps, RequestAnalysisKeeps, BuildKeeps, DeleteGameKeeps, IdleKeeps
  DEF StoreNext
<1>2. StoreInv => ClientKeepsItsWord
  <2> SUFFICES ASSUME StoreInv PROVE ClientKeepsItsWord
    OBVIOUS
  <2>1. wordKept = TRUE /\ Whole(tables)
    BY FineTables DEF StoreInv
  <2>2. \A game : Holding(Schema.Game.loads.players, game)
                    = {i \in DOMAIN tables["Player"] : tables["Player"][i]["game_players"] = game}
    <3>1. <<"Player", "game_players">>[1] = "Player" /\ <<"Player", "game_players">>[2] = "game_players"
      OBVIOUS
    <3> QED BY <3>1, Edges DEF Holding
  <2>3. UploadSeesOneGame
    <3>1. upload = NoUpload \/ Sees(tables, upload)
      BY DEF StoreInv, UnderWay
    <3>2. CASE upload = NoUpload
      BY <3>2 DEF NoUpload, UploadSeesOneGame
    <3>3. CASE Sees(tables, upload)
      <4> DEFINE players == Holding(Schema.Game.loads.players, upload.game)
      <4>1. players = {i \in DOMAIN tables["Player"] : tables["Player"][i]["game_players"] = upload.game}
        BY <2>2
      <4>2. UploadSeesOneGame
              <=> (upload.stage \in {"add", "adding", "season"} =>
                     IF upload.game \in DOMAIN tables.Game THEN upload.players = players
                     ELSE upload.players \cap DOMAIN tables.Player = {})
        BY DEF UploadSeesOneGame
      <4> HIDE DEF players
      <4> QED BY <3>3, <4>1, <4>2 DEF Sees
    <3> QED BY <3>1, <3>2, <3>3
  <2> QED BY <2>1, <2>3, WholeRows, FilesAlwaysAgree DEF ClientKeepsItsWord
<1> QED BY <1>1, <1>2, StoreStarts, PTL DEF StoreSpec
=============================================================================
