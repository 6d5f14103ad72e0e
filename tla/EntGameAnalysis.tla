--------------------------- MODULE EntGameAnalysis ---------------------------
(***************************************************************************)
(* The generated code of the GameAnalysis entity: what each of its files   *)
(* says about the columns of its table. EntStore gives these definitions   *)
(* their meaning.                                                          *)
(***************************************************************************)
EXTENDS EntTypes

\* The columns of a query, and the foreign keys a query adds when it loads an edge.
Columns == {"game_id", "file_hash", "bucket_key", "analyzer_version", "status", "attempt_count",
            "priority", "requested_at", "started_at", "finished_at", "next_retry_at",
            "last_error", "quality_report_json", "summary_json", "analysis_phase_json",
            "analysis_events_json", "analysis_timeseries_json", "artifact_result_dir",
            "artifact_manifest_json", "created_at", "updated_at"}
ForeignKeys == {}

\* The table the migration creates.
NotNull == {"file_hash", "bucket_key", "analyzer_version", "status", "attempt_count", "priority",
            "requested_at", "next_retry_at", "created_at", "updated_at", "game_id"}
Unique == {{"game_id"}}
References == [game_id |-> "Game"]
DatabaseDefaults == [analyzer_version |-> Some, status |-> Some, attempt_count |-> Zero,
                     priority |-> Zero]

\* The create builder: its setters, defaults(), check() and createSpec().
Settable == Columns
CreateDefaults == [analyzer_version |-> Some, status |-> Some, attempt_count |-> Zero,
                   priority |-> Zero, requested_at |-> Now, next_retry_at |-> Now,
                   created_at |-> Now, updated_at |-> Now]
Required == {"game_id", "file_hash", "bucket_key", "analyzer_version", "status", "attempt_count",
             "priority", "requested_at", "next_retry_at", "created_at", "updated_at"}
RequiredEdges == {"game"}
NotEmpty == {"game_id", "file_hash", "bucket_key", "analyzer_version"}
Inserted == Columns \ {"game_id"}
InsertedEdges == [game_id |-> "game"]

\* The update builders: what they offer, defaults() and check(), and what each sqlSave() writes.
Offered == Columns \ {"created_at"}
OfferedOne == Columns \ {"created_at"}
UpdateDefaults == {"updated_at"}
Updated == Columns \ {"game_id", "created_at"}
UpdatedOne == Columns \ {"game_id", "created_at"}

\* What the mutation reports to hooks: the fields set, added to and cleared, and the edges.
Fields == Columns
AddedFields == {"attempt_count", "priority"}
ClearedFields == {"started_at", "finished_at", "last_error", "quality_report_json",
                  "summary_json", "analysis_phase_json", "analysis_events_json",
                  "analysis_timeseries_json", "artifact_result_dir", "artifact_manifest_json"}
Edges == {"game"}

\* The type a setter by name demands, and the type a column is scanned into.
Typed == [game_id |-> "int", file_hash |-> "string", bucket_key |-> "string",
          analyzer_version |-> "string", status |-> "string", attempt_count |-> "int",
          priority |-> "int", requested_at |-> "time", started_at |-> "time",
          finished_at |-> "time", next_retry_at |-> "time", last_error |-> "string",
          quality_report_json |-> "json", summary_json |-> "json", analysis_phase_json |-> "json",
          analysis_events_json |-> "json", analysis_timeseries_json |-> "json",
          artifact_result_dir |-> "string", artifact_manifest_json |-> "json",
          created_at |-> "time", updated_at |-> "time"]
Scanned == [json |-> {"quality_report_json", "summary_json", "analysis_phase_json",
                      "analysis_events_json", "analysis_timeseries_json",
                      "artifact_manifest_json"},
            integer |-> {"game_id", "attempt_count", "priority"},
            text |-> {"file_hash", "bucket_key", "analyzer_version", "status", "last_error",
                      "artifact_result_dir"},
            time |-> {"requested_at", "started_at", "finished_at", "next_retry_at", "created_at",
                      "updated_at"}]
Assigned == Columns
Nillable == {"started_at", "finished_at", "last_error", "artifact_result_dir"}

\* The edges a query loads with its rows, those a query starts from, and those a predicate follows:
\* each over the table and the column that hold its key.
Loads == [game |-> <<"GameAnalysis", "game_id">>]
Reaches == [game |-> <<"GameAnalysis", "game_id">>]
Has == [game |-> <<"GameAnalysis", "game_id">>]

Entity ==
  [columns |-> Columns, foreignKeys |-> ForeignKeys, notNull |-> NotNull, unique |-> Unique,
   references |-> References, databaseDefaults |-> DatabaseDefaults, settable |-> Settable,
   createDefaults |-> CreateDefaults, required |-> Required, requiredEdges |-> RequiredEdges,
   notEmpty |-> NotEmpty, inserted |-> Inserted, insertedEdges |-> InsertedEdges,
   offered |-> Offered, offeredOne |-> OfferedOne, updateDefaults |-> UpdateDefaults,
   updated |-> Updated, updatedOne |-> UpdatedOne, fields |-> Fields, addedFields |-> AddedFields,
   clearedFields |-> ClearedFields, edges |-> Edges, typed |-> Typed, scanned |-> Scanned,
   assigned |-> Assigned, nillable |-> Nillable, loads |-> Loads, reaches |-> Reaches,
   has |-> Has]
=============================================================================
